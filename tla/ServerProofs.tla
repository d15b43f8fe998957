---------------------------- MODULE ServerProofs ----------------------------
(***************************************************************************)
(* Sessions, for any logins, browsers and acting sessions: a session is    *)
(* bound to the device of its own browser, follows it, and is not approved *)
(* unasked once the account has a device, however the statements of logins,*)
(* enrolments, proofs, revocations and recoveries interleave.              *)
(* Presence, for any connections, users and relation between peers: no     *)
(* ghosts, and nobody comes online unannounced.                            *)
(* ReceiptCache, for any deliveries, keys, capacity and retention: who is  *)
(* answered with what, that a receipt is final, and that an event is       *)
(* delivered twice only when its record is gone.                           *)
(***************************************************************************)
EXTENDS Sessions, Presence, ReceiptCache, FiniteSetTheorems, TLAPS

-----------------------------------------------------------------------------
(* Sessions: the inductive invariant                                       *)

\* The id a handler carries is the one of its own browser, or of a device that is gone.
FoundIsOwn ==
  \A s \in Login : pc[s] # "revoke" /\ found[s] \in Devices => found[s] = device[KeyOf[s]]

\* A login that has seen a device from its start will ask for consent.
GuardedAreAsked ==
  /\ guarded # {} => Devices # {}
  /\ \A s \in guarded : pc[s] \in {"lookup", "count"} \/ (pc[s] = "insert" /\ needed[s])

\* What the statements between the check and the binding of a session rely on.
Carried ==
  \A s \in Login :
    /\ pc[s] \in {"new"} \cup UnderWay => s \notin Rows
    /\ pc[s] \in {"bind", "enrollBind"} => found[s] # None
    /\ pc[s] = "prove" /\ Pending(s) => session[s].challenge
    /\ s \in Rows /\ session[s].challenge /\ session[s].bound = None => session[s].orphan

Promises == BoundToItsOwnBrowser /\ HeldSessionsFollowTheirDevice /\ NoFreeSessionOnceTrusted

IInv == TypeOK /\ FoundIsOwn /\ GuardedAreAsked /\ Carried /\ Promises

-----------------------------------------------------------------------------
\* An account without session or device.
LEMMA InitIInv == ASSUME SessionsAssumption PROVE Init => IInv
<1> SUFFICES ASSUME Init PROVE IInv
  OBVIOUS
<1> USE DEF Init, SessionsAssumption
<1>1. Rows = {} /\ Devices = {}
  BY DEF Rows, Devices
<1>2. TypeOK
  BY <1>1 DEF TypeOK, PC
<1>3. FoundIsOwn /\ GuardedAreAsked /\ Promises
  BY <1>1 DEF FoundIsOwn, GuardedAreAsked, Promises, BoundToItsOwnBrowser,
              HeldSessionsFollowTheirDevice, NoFreeSessionOnceTrusted
<1>4. Carried
  BY <1>1 DEF Carried, UnderWay, Pending
<1>5. QED BY <1>2, <1>3, <1>4 DEF IInv

\* An id is left while a key has no device: there is one for every key, for every
\* binding and for every handler.
LEMMA FreshIsFree ==
  ASSUME SessionsAssumption, TypeOK, NEW k0 \in Key, device[k0] = None
  PROVE  /\ Fresh \in Id /\ Fresh # None /\ Fresh \notin Devices
         /\ \A s \in Login : found[s] # Fresh /\ (s \in Rows => session[s].bound # Fresh)
<1> USE DEF SessionsAssumption, TypeOK
<1> DEFINE bound == [s \in Login |-> IF s \in Rows THEN session[s].bound ELSE None]
           F == {found[s] : s \in Login}
           B == {bound[s] : s \in Login}
           others == [k \in Key \ {k0} |-> device[k]]
           D == {others[k] : k \in Key \ {k0}}
           n == Cardinality(Login)
           m == Cardinality(Key)
<1>1. n \in Nat /\ m \in Nat /\ IsFiniteSet(Key \ {k0}) /\ Cardinality(Key \ {k0}) = m - 1
  BY FS_CardinalityType, FS_RemoveElement
<1>2. IsFiniteSet(F) /\ Cardinality(F) \in Nat /\ Cardinality(F) <= n
  <2>1. found \in Surjection(Login, F)
    BY DEF Surjection
  <2> HIDE DEF F
  <2>2. QED BY <2>1, FS_Surjection, FS_CardinalityType
<1>3. IsFiniteSet(B) /\ Cardinality(B) \in Nat /\ Cardinality(B) <= n
  <2>1. bound = [s \in Login |-> bound[s]]
    OBVIOUS
  <2> HIDE DEF bound
  <2>2. bound \in Surjection(Login, B)
    BY <2>1 DEF Surjection
  <2> HIDE DEF B
  <2>3. QED BY <2>2, FS_Surjection, FS_CardinalityType
<1>4. IsFiniteSet(D) /\ Cardinality(D) \in Nat /\ Cardinality(D) <= m - 1
  <2>1. others = [k \in Key \ {k0} |-> others[k]]
    OBVIOUS
  <2> HIDE DEF others
  <2>2. others \in Surjection(Key \ {k0}, D)
    BY <2>1 DEF Surjection
  <2> HIDE DEF D
  <2>3. IsFiniteSet(D) /\ Cardinality(D) <= Cardinality(Key \ {k0})
    BY <1>1, <2>2, FS_Surjection
  <2>4. QED BY <1>1, <2>3, FS_CardinalityType
<1>5. Devices \subseteq D
  BY DEF Devices
<1>6. PICK i \in Id : i \notin F \cup B \cup D
  <2>1. IsFiniteSet(Id) /\ Cardinality(Id) = 2 * n + m
    <3>1. 2 * n + m \in Nat /\ 2 * n + m >= 1 - 1
      BY <1>1
    <3>2. QED BY <1>1, <3>1, FS_Interval DEF Id
  <2> HIDE DEF F, B, D, n, m
  <2>2. IsFiniteSet(F \cup B) /\ Cardinality(F \cup B) <= 2 * n /\ Cardinality(F \cup B) \in Nat
    <3>1. /\ IsFiniteSet(F \cup B)
          /\ Cardinality(F \cup B) = Cardinality(F) + Cardinality(B) - Cardinality(F \cap B)
      BY <1>2, <1>3, FS_Union
    <3>2. Cardinality(F \cap B) \in Nat /\ Cardinality(F \cup B) \in Nat
      BY <1>2, <3>1, FS_Intersection, FS_CardinalityType
    <3>3. QED BY <1>1, <1>2, <1>3, <3>1, <3>2
  <2>3. /\ IsFiniteSet(F \cup B \cup D) /\ Cardinality(F \cup B \cup D) \in Nat
        /\ Cardinality(F \cup B \cup D) < 2 * n + m
    <3>1. /\ IsFiniteSet(F \cup B \cup D)
          /\ Cardinality(F \cup B \cup D) =
               Cardinality(F \cup B) + Cardinality(D) - Cardinality((F \cup B) \cap D)
      BY <1>4, <2>2, FS_Union
    <3>2. Cardinality((F \cup B) \cap D) \in Nat /\ Cardinality(F \cup B \cup D) \in Nat
      BY <1>4, <2>2, <3>1, FS_Intersection, FS_CardinalityType
    <3>3. QED BY <1>1, <1>4, <2>2, <3>1, <3>2
  <2>4. ~(Id \subseteq F \cup B \cup D)
    <3>1. ASSUME Id \subseteq F \cup B \cup D PROVE FALSE
      <4>1. Cardinality(Id) <= Cardinality(F \cup B \cup D)
        BY <2>3, <3>1, FS_Subset
      <4>2. QED BY <1>1, <2>1, <2>3, <4>1
    <3>2. QED BY <3>1
  <2>5. QED BY <2>4
<1>7. /\ i \notin Devices
      /\ \A s \in Login : found[s] # i /\ (s \in Rows => session[s].bound # i)
  <2>1. \A s \in Login : found[s] \in F /\ bound[s] \in B
    OBVIOUS
  <2>2. \A s \in Rows : bound[s] = session[s].bound
    BY DEF Rows
  <2> HIDE DEF F, B, D, bound
  <2>3. QED BY <1>5, <1>6, <2>1, <2>2
<1>8. /\ Fresh \in Id /\ Fresh \notin Devices
      /\ \A s \in Login : found[s] # Fresh /\ (s \in Rows => session[s].bound # Fresh)
  <2> DEFINE P(j) == /\ j \notin Devices
                     /\ \A s \in Login : found[s] # j /\ (s \in Rows => session[s].bound # j)
  <2>1. P(i)
    BY <1>7
  <2>2. Fresh = CHOOSE j \in Id : P(j)
    BY DEF Fresh
  <2> HIDE DEF P
  <2>3. Fresh \in Id /\ P(Fresh)
    BY <1>6, <2>1, <2>2
  <2>4. QED BY <2>3 DEF P
<1>9. Fresh # None
  BY <1>1, <1>8 DEF Id
<1>10. QED BY <1>8, <1>9

-----------------------------------------------------------------------------
(* The steps.  Each lemma says what becomes of the tables, then preserves  *)
(* the conjuncts one by one.                                               *)

\* What every lemma about a step starts from.
Inv0 == SessionsAssumption /\ IInv

\* A step that changes no table changes neither set of them.
LEMMA SameTables == ASSUME UNCHANGED tables PROVE Rows' = Rows /\ Devices' = Devices
BY DEF tables, Rows, Devices

\* The statements of a login that only read.
LEMMA LoginReads ==
  ASSUME Inv0, NEW s \in Login,
         StartLogin(s) \/ LookUpDevice(s) \/ CountDevices(s) \/ CountSessions(s)
  PROVE  IInv'
<1> USE DEF Inv0, IInv, SessionsAssumption, Step, locals, tables, resetVars, history
<1>1. UNCHANGED tables
  BY DEF StartLogin, LookUpDevice, CountDevices, CountSessions
<1>2. Rows' = Rows /\ Devices' = Devices
  BY <1>1, SameTables
<1>3. TypeOK'
  <2> USE DEF TypeOK, PC, UnderWay
  <2>1. CASE StartLogin(s)
    BY <1>1, <1>2, <2>1 DEF StartLogin
  <2>2. CASE LookUpDevice(s)
    BY <1>1, <1>2, <2>2 DEF LookUpDevice
  <2>3. CASE CountDevices(s)
    BY <1>1, <1>2, <2>3 DEF CountDevices
  <2>4. CASE CountSessions(s)
    BY <1>1, <1>2, <2>4 DEF CountSessions
  <2>5. QED BY <2>1, <2>2, <2>3, <2>4
<1>4. FoundIsOwn'
  <2> USE <1>1, <1>2 DEF FoundIsOwn, TypeOK
  <2>1. CASE LookUpDevice(s)
    <3>1. None \notin Devices
      BY DEF Devices
    <3>2. QED BY <2>1, <3>1 DEF LookUpDevice
  <2>2. CASE ~LookUpDevice(s)
    BY <2>2 DEF StartLogin, CountDevices, CountSessions
  <2>3. QED BY <2>1, <2>2
<1>5. GuardedAreAsked'
  <2> USE <1>1, <1>2 DEF GuardedAreAsked, TypeOK
  <2>1. CASE StartLogin(s)
    BY <2>1 DEF StartLogin
  <2>2. CASE LookUpDevice(s)
    BY <2>2 DEF LookUpDevice
  <2>3. CASE CountDevices(s)
    BY <2>3 DEF CountDevices
  <2>4. CASE CountSessions(s)
    BY <2>4 DEF CountSessions
  <2>5. QED BY <2>1, <2>2, <2>3, <2>4
<1>6. Carried'
  BY <1>1, <1>2 DEF Carried, TypeOK, UnderWay, Pending, StartLogin, LookUpDevice, CountDevices,
                    CountSessions
<1>7. Promises'
  <2>1. \A t \in Login : Held(t)' <=> Held(t)
    BY DEF Held, TypeOK, UnderWay, Enrolling, StartLogin, LookUpDevice, CountDevices, CountSessions
  <2>2. QED BY <1>1, <1>2, <2>1 DEF Promises, BoundToItsOwnBrowser, HeldSessionsFollowTheirDevice,
                                     NoFreeSessionOnceTrusted
<1>8. QED BY <1>3, <1>4, <1>5, <1>6, <1>7

\* The first statement of an enrolment, of a free login or of an open session.
LEMMA EnrolmentReads ==
  ASSUME Inv0, NEW s \in Login,
         \/ Find(s, "find", "write") \/ Find(s, "enrollSelect", "enrollWrite")
         \/ StartEnroll(s) \/ EnrollCount(s) \/ EnrollFind(s)
  PROVE  IInv'
<1> USE DEF Inv0, IInv, SessionsAssumption, Step, locals, tables, resetVars, history
<1>1. UNCHANGED <<tables, history, resetVars, target>>
  BY DEF Find, StartEnroll, EnrollCount, EnrollFind
<1>2. Rows' = Rows /\ Devices' = Devices
  BY <1>1, SameTables
<1>3. \A t \in Login :
        /\ t # s => pc'[t] = pc[t] /\ needed'[t] = needed[t]
        /\ pc'[t] = pc[t] \/ pc'[t] \in {"write", "enrollCount", "enrollFind", "enrollSelect",
                                         "enrollWrite", "answered"}
        /\ found'[t] = found[t] \/ found'[t] = device[KeyOf[t]]
        /\ pc[s] \in {"find", "enrollSelect", "answered", "enrollCount", "enrollFind"}
  BY DEF TypeOK, Find, StartEnroll, EnrollCount, EnrollFind
<1>4. TypeOK'
  <2> USE DEF TypeOK, PC, UnderWay, Enrolling
  <2>1. CASE Find(s, "find", "write")
    BY <1>1, <1>2, <2>1 DEF Find
  <2>2. CASE Find(s, "enrollSelect", "enrollWrite")
    BY <1>1, <1>2, <2>2 DEF Find
  <2>3. CASE StartEnroll(s) \/ EnrollCount(s) \/ EnrollFind(s)
    BY <1>1, <1>2, <2>3 DEF StartEnroll, EnrollCount, EnrollFind
  <2>4. QED BY <2>1, <2>2, <2>3
<1>5. FoundIsOwn'
  BY <1>1, <1>2, <1>3 DEF FoundIsOwn
<1>6. GuardedAreAsked'
  BY <1>1, <1>2, <1>3 DEF GuardedAreAsked, TypeOK, UnderWay
<1>7. Carried'
  <2>1. \A t \in Login : pc'[t] \in {"new", "bind", "enrollBind", "prove"} \cup UnderWay =>
          pc'[t] = pc[t] /\ found'[t] = found[t]
    BY DEF TypeOK, UnderWay, Find, StartEnroll, EnrollCount, EnrollFind
  <2>2. QED BY <1>1, <1>2, <2>1 DEF Carried, UnderWay, Pending
<1>8. Promises'
  <2>1. \A t \in Login : Held(t)' <=> Held(t)
    BY DEF Held, TypeOK, UnderWay, Enrolling, Find, StartEnroll, EnrollCount, EnrollFind
  <2>2. QED BY <1>1, <1>2, <2>1 DEF Promises, BoundToItsOwnBrowser, HeldSessionsFollowTheirDevice,
                                     NoFreeSessionOnceTrusted
<1>9. QED BY <1>4, <1>5, <1>6, <1>7, <1>8

\* What is read before an approval, a proof, a revocation, and the new password.
LEMMA OtherReads ==
  ASSUME Inv0,
         \/ \E s \in Login : \/ StartProve(s)
                             \/ \E t \in Login : StartApprove(s, t)
                             \/ \E i \in Id : StartRevoke(s, i)
         \/ SetPassword
  PROVE  IInv'
<1> USE DEF Inv0, IInv, SessionsAssumption, Step, locals, tables, resetVars, history
<1>1. UNCHANGED <<tables, guarded, needed>>
  BY DEF StartApprove, StartProve, StartRevoke, SetPassword
<1>2. Rows' = Rows /\ Devices' = Devices
  BY <1>1, SameTables
<1>3. TypeOK'
  <2> USE DEF TypeOK, PC, UnderWay
  <2>1. ASSUME NEW s \in Login, NEW t \in Login, StartApprove(s, t) \/ StartProve(s)
        PROVE  TypeOK'
    BY <1>1, <1>2, <2>1 DEF StartApprove, StartProve
  <2>2. ASSUME NEW s \in Login, NEW i \in Id, StartRevoke(s, i) PROVE TypeOK'
    BY <1>1, <1>2, <2>2 DEF StartRevoke
  <2>3. CASE SetPassword
    BY <1>1, <1>2, <2>3 DEF SetPassword
  <2>4. QED BY <2>1, <2>2, <2>3
<1>4. \A u \in Login : /\ \/ pc'[u] = pc[u]
                          \/ pc[u] = "answered" /\ pc'[u] \in {"approve", "prove", "revoke"}
                       /\ pc'[u] # "revoke" => found'[u] = found[u]
                       /\ pc'[u] = "prove" => pc[u] = "prove" \/ session[u].challenge
  BY DEF TypeOK, StartApprove, StartProve, StartRevoke, SetPassword
<1>5. FoundIsOwn'
  BY <1>1, <1>2, <1>4 DEF FoundIsOwn
<1>6. GuardedAreAsked'
  BY <1>1, <1>2, <1>4 DEF GuardedAreAsked, TypeOK, UnderWay
<1>7. Carried'
  BY <1>1, <1>2, <1>4 DEF Carried, UnderWay, Pending
<1>8. Promises'
  <2>1. \A u \in Login : Held(u)' <=> Held(u)
    BY <1>4 DEF Held, UnderWay, Enrolling
  <2>2. QED BY <1>1, <1>2, <2>1 DEF Promises, BoundToItsOwnBrowser, HeldSessionsFollowTheirDevice,
                                     NoFreeSessionOnceTrusted
<1>9. QED BY <1>3, <1>5, <1>6, <1>7, <1>8

\* The row of a login: bound to the device of its browser, and pending when a device
\* was there from the start.
LEMMA InsertStep == ASSUME Inv0, NEW s \in Login, Insert(s) PROVE IInv'
<1> USE DEF Inv0, IInv, SessionsAssumption, Insert, Step, Forget, tables, resetVars, history
<1> DEFINE r == NewRow(s)
<1>1. Devices' = Devices
  BY DEF Devices
<1>2. found[s] \in Id \cup {None} => r \in Row
  BY DEF NewRow, Row, TypeOK
<1>3. /\ Rows' \subseteq Rows \cup {s} /\ s \notin Rows
      /\ \A t \in Rows : t # s /\ session'[t] = session[t]
      /\ s \in Rows' => session'[s] = r /\ Insertable(s)
      /\ \A t \in Rows' : t # s => t \in Rows
  BY DEF Rows, Carried, UnderWay, TypeOK
<1>4. /\ \A t \in Login : t # s => /\ pc'[t] = pc[t] /\ needed'[t] = needed[t]
                                   /\ found'[t] = found[t]
      /\ pc[s] = "insert" /\ pc'[s] \in {"find", "answered"} /\ found'[s] = None
      /\ s \in Rows' /\ pc'[s] = "answered" => needed[s] \/ s \notin Keyed
  <2>1. found' = [found EXCEPT ![s] = None] /\ needed' = [needed EXCEPT ![s] = FALSE]
    OBVIOUS
  <2>2. pc' = [pc EXCEPT ![s] = IF Insertable(s) /\ ~needed[s] /\ s \in Keyed
                                THEN "find" ELSE "answered"]
    OBVIOUS
  <2>3. QED BY <1>3, <2>1, <2>2 DEF TypeOK
<1>5. TypeOK'
  <2>1. /\ pc' \in [Login -> PC] /\ needed' \in [Login -> BOOLEAN]
        /\ found' \in [Login -> Id \cup {None}] /\ target' \in [Login -> Login \cup {None}]
    BY DEF TypeOK, PC, Enrolling
  <2>2. session' \in [Login -> Row \cup {None}]
    BY <1>2 DEF TypeOK
  <2>3. \A t \in Rows' : session'[t].bound \in Devices' \cup {None}
    BY <1>1, <1>3 DEF TypeOK, Insertable, NewRow
  <2>4. \A t \in outdated' \cup guarded' : t \in Login /\ pc'[t] \in UnderWay
    BY <1>4 DEF TypeOK
  <2>5. QED BY <2>1, <2>2, <2>3, <2>4 DEF TypeOK
<1>6. FoundIsOwn'
  <2>1. None \notin Devices
    BY DEF Devices
  <2>2. QED BY <1>1, <1>4, <2>1 DEF FoundIsOwn
<1>7. GuardedAreAsked'
  BY <1>1, <1>4 DEF GuardedAreAsked, TypeOK
<1>8. Carried'
  <2>1. r.challenge => r.bound # None
    BY DEF NewRow
  <2>2. \A t \in Login : t # s => /\ Pending(t)' => Pending(t)
                                  /\ t \in Rows' => session'[t] = session[t]
    BY <1>3 DEF Pending
  <2>3. QED BY <1>3, <1>4, <2>1, <2>2 DEF Carried, UnderWay
<1>9. BoundToItsOwnBrowser'
  <2>1. s \in Rows' /\ r.bound # None => r.bound = device[KeyOf[s]]
    BY <1>3, <1>4 DEF NewRow, Insertable, FoundIsOwn
  <2>2. QED BY <1>3, <2>1 DEF Promises, BoundToItsOwnBrowser
<1>10. HeldSessionsFollowTheirDevice'
  <2>1. s \in Rows' /\ s \in Keyed /\ Held(s)' => r.approved = "no"
    BY <1>3, <1>4 DEF Held, Enrolling, NewRow
  <2>2. \A t \in Login : t # s => (Held(t)' <=> Held(t))
    BY <1>4 DEF Held
  <2>3. QED BY <1>3, <2>1, <2>2 DEF Promises, HeldSessionsFollowTheirDevice
<1>11. NoFreeSessionOnceTrusted'
  <2>1. r.approved = "unasked" => ~r.guarded
    BY <1>4 DEF NewRow, GuardedAreAsked
  <2>2. QED BY <1>3, <2>1 DEF Promises, NoFreeSessionOnceTrusted
<1>12. QED BY <1>5, <1>6, <1>7, <1>8, <1>9, <1>10, <1>11 DEF Promises

\* A device of its own for a browser that has none: a new id, which nothing carries.
LEMMA WriteStep ==
  ASSUME Inv0, NEW s \in Login,
         Write(s, "write", "bind", "undo") \/ Write(s, "enrollWrite", "enrollBind", "answered")
  PROVE  IInv'
<1> USE DEF Inv0, IInv, SessionsAssumption, Step, tables, resetVars, history
<1> DEFINE k == KeyOf[s]
           new == found[s] = None /\ device[k] = None
<1>1. /\ UNCHANGED <<needed, target, session, resetVars, history>>
      /\ pc[s] \in {"write", "enrollWrite"}
      /\ pc'[s] \in {"bind", "undo", "enrollBind", "answered"}
      /\ \A t \in Login : t # s => pc'[t] = pc[t]
      /\ pc' \in [Login -> PC]
      /\ Held(s)' <=> Held(s)
      /\ pc'[s] \in {"bind", "enrollBind"} => new \/ found[s] # None
      /\ new => device' = [device EXCEPT ![k] = Fresh] /\ found' = [found EXCEPT ![s] = Fresh]
      /\ ~new => device' = device /\ found' = found
  <2> USE DEF TypeOK, PC, Enrolling, UnderWay, Held, Write
  <2>1. CASE Write(s, "write", "bind", "undo")
    BY <2>1
  <2>2. CASE Write(s, "enrollWrite", "enrollBind", "answered")
    BY <2>2
  <2>3. QED BY <2>1, <2>2
<1>2. Rows' = Rows /\ \A t \in Login : Held(t)' <=> Held(t)
  BY <1>1 DEF Rows, Held
<1>3. k \in Key /\ None \notin Devices
  BY DEF Devices
<1>4. new => /\ Fresh \in Id /\ Fresh # None /\ Fresh \notin Devices
             /\ \A t \in Login : found[t] # Fresh
             /\ Devices' = Devices \cup {Fresh}
  <2>1. ASSUME new
        PROVE  /\ Fresh \in Id /\ Fresh # None /\ Fresh \notin Devices
               /\ \A t \in Login : found[t] # Fresh
    BY <1>3, <2>1, FreshIsFree
  <2>2. ASSUME new PROVE Devices' = Devices \cup {Fresh}
    BY <1>1, <1>3, <2>1, <2>2 DEF Devices, TypeOK
  <2>3. QED BY <2>1, <2>2
<1>5. ~new => Devices' = Devices
  BY <1>1 DEF Devices
<1>6. TypeOK'
  <2>1. found' \in [Login -> Id \cup {None}] /\ device' \in [Key -> Id \cup {None}]
    BY <1>1, <1>4 DEF TypeOK
  <2>2. \A i, j \in Key : device'[i] = device'[j] /\ i # j => device'[i] = None
    <3>1. \A j \in Key : device[j] # None => device[j] \in Devices
      BY DEF Devices
    <3>2. QED BY <1>1, <1>4, <3>1 DEF TypeOK
  <2>3. \A t \in Rows' : session'[t].bound \in Devices' \cup {None}
    BY <1>1, <1>2, <1>4, <1>5 DEF TypeOK
  <2>4. \A t \in outdated' \cup guarded' : t \in Login /\ pc'[t] \in UnderWay
    BY <1>1 DEF TypeOK, UnderWay
  <2>5. QED BY <1>1, <2>1, <2>2, <2>3, <2>4 DEF TypeOK
<1>7. FoundIsOwn'
  <2>1. CASE new
    <3>1. found'[s] = device'[k]
      BY <1>1, <1>3, <2>1 DEF TypeOK
    <3>2. ASSUME NEW t \in Login, t # s, pc'[t] # "revoke", found'[t] \in Devices'
          PROVE  found'[t] = device'[KeyOf[t]]
      <4>1. found[t] \in Devices /\ found[t] = device[KeyOf[t]] /\ found'[t] = found[t]
        BY <1>1, <1>4, <2>1, <3>2 DEF FoundIsOwn, TypeOK
      <4>2. KeyOf[t] # k
        BY <1>3, <2>1, <4>1
      <4>3. QED BY <1>1, <2>1, <4>1, <4>2 DEF TypeOK
    <3>3. QED BY <3>1, <3>2 DEF FoundIsOwn
  <2>2. CASE ~new
    BY <1>1, <1>5, <2>2 DEF FoundIsOwn
  <2>3. QED BY <2>1, <2>2
<1>8. GuardedAreAsked'
  BY <1>1, <1>4, <1>5 DEF GuardedAreAsked, TypeOK, UnderWay
<1>9. Carried'
  <2>1. \A t \in Login : pc'[t] \in {"bind", "enrollBind"} => found'[t] # None
    BY <1>1, <1>4 DEF Carried, TypeOK
  <2>2. QED BY <1>1, <1>2, <2>1 DEF Carried, Pending, UnderWay
<1>10. Promises'
  <2>1. BoundToItsOwnBrowser'
    <3>1. ASSUME NEW t \in Rows, session[t].bound # None
          PROVE  session[t].bound = device'[KeyOf[t]]
      BY <1>1, <3>1 DEF Promises, BoundToItsOwnBrowser, Rows, TypeOK
    <3>2. QED BY <1>1, <1>2, <3>1 DEF BoundToItsOwnBrowser
  <2>2. QED BY <1>1, <1>2, <2>1 DEF Promises, HeldSessionsFollowTheirDevice,
                                     NoFreeSessionOnceTrusted
<1>11. QED BY <1>6, <1>7, <1>8, <1>9, <1>10

\* The session of an enrolment gets the device of its browser, if both are still there.
LEMMA BindStep ==
  ASSUME Inv0, NEW s \in Login, Bind(s, "bind", "undo") \/ Bind(s, "enrollBind", "answered")
  PROVE  IInv'
<1> USE DEF Inv0, IInv, SessionsAssumption, Step, Forget, tables, resetVars, history
<1> DEFINE bound == s \in Rows /\ found[s] \in Devices
<1>1. /\ UNCHANGED <<device, resetVars, history>>
      /\ pc' \in [Login -> PC] /\ needed' \in [Login -> BOOLEAN]
      /\ found' = [found EXCEPT ![s] = None] /\ target' \in [Login -> Login \cup {None}]
      /\ session' = IF bound THEN [session EXCEPT ![s].bound = found[s]] ELSE session
      /\ pc[s] \in {"bind", "enrollBind"} /\ pc'[s] \in {"undo", "answered"}
      /\ \A t \in Login : t # s => pc'[t] = pc[t] /\ needed'[t] = needed[t]
      /\ Held(s)' => Held(s) \/ s \notin Rows \/ bound
  <2> USE DEF TypeOK, PC, Enrolling, UnderWay, Held, Bind
  <2>1. CASE Bind(s, "bind", "undo")
    BY <2>1
  <2>2. CASE Bind(s, "enrollBind", "answered")
    BY <2>2
  <2>3. QED BY <2>1, <2>2
<1>2. Devices' = Devices /\ None \notin Devices
  BY <1>1 DEF Devices
<1>3. /\ session' \in [Login -> Row \cup {None}]
      /\ \A t \in Rows' : /\ t \in Rows /\ session'[t].approved = session[t].approved
                          /\ session'[t].challenge = session[t].challenge
                          /\ session'[t].orphan = session[t].orphan
                          /\ session'[t].guarded = session[t].guarded
                          /\ t # s \/ ~bound => session'[t].bound = session[t].bound
      /\ bound => session'[s].bound = found[s]
  <2>1. CASE bound
    <3>1. session[s] \in Row /\ found[s] \in Id \cup {None}
      BY <2>1 DEF TypeOK, Rows
    <3>2. session' = [session EXCEPT ![s] = [session[s] EXCEPT !.bound = found[s]]]
      BY <1>1, <2>1
    <3> DEFINE r == [session[s] EXCEPT !.bound = found[s]]
    <3>3. /\ r \in Row /\ r.bound = found[s] /\ r.approved = session[s].approved
          /\ r.challenge = session[s].challenge /\ r.orphan = session[s].orphan
          /\ r.guarded = session[s].guarded
      BY <3>1 DEF Row
    <3> HIDE DEF r
    <3>4. QED BY <2>1, <3>2, <3>3 DEF TypeOK, Rows, r
  <2>2. CASE ~bound
    BY <1>1, <2>2 DEF TypeOK, Rows
  <2>3. QED BY <2>1, <2>2
<1>4. TypeOK'
  <2>1. \A t \in Rows' : session'[t].bound \in Devices' \cup {None}
    BY <1>1, <1>2, <1>3 DEF TypeOK
  <2>2. found' \in [Login -> Id \cup {None}]
    BY <1>1 DEF TypeOK
  <2>3. \A t \in outdated' \cup guarded' : t \in Login /\ pc'[t] \in UnderWay
    BY <1>1 DEF TypeOK, UnderWay
  <2>4. QED BY <1>1, <1>3, <2>1, <2>2, <2>3 DEF TypeOK
<1>5. FoundIsOwn'
  BY <1>1, <1>2 DEF FoundIsOwn, TypeOK
<1>6. GuardedAreAsked'
  BY <1>1, <1>2 DEF GuardedAreAsked, TypeOK, UnderWay
<1>7. Carried'
  <2>1. \A t \in Login : t # s => found'[t] = found[t]
    BY <1>1 DEF TypeOK
  <2>2. bound => session'[s].bound # None
    BY <1>2, <1>3
  <2>3. QED BY <1>1, <1>2, <1>3, <2>1, <2>2 DEF Carried, Pending, UnderWay
<1>8. Promises'
  <2>1. BoundToItsOwnBrowser'
    <3>1. bound => found[s] = device[KeyOf[s]]
      BY <1>1 DEF FoundIsOwn
    <3>2. QED BY <1>1, <1>3, <3>1 DEF Promises, BoundToItsOwnBrowser
  <2>2. HeldSessionsFollowTheirDevice'
    <3>1. \A t \in Login : t # s => (Held(t)' <=> Held(t))
      BY <1>1 DEF Held
    <3>2. QED BY <1>1, <1>2, <1>3, <3>1 DEF Promises, HeldSessionsFollowTheirDevice
  <2>3. QED BY <1>3, <2>1, <2>2 DEF Promises, NoFreeSessionOnceTrusted
<1>9. QED BY <1>4, <1>5, <1>6, <1>7, <1>8

\* The rows that are left are the rows that were there.
LEMMA Deleted ==
  ASSUME TypeOK, NEW gone, session' = DeleteRows(gone)
  PROVE  /\ session' \in [Login -> Row \cup {None}]
         /\ \A t \in Rows' : t \in Rows /\ t \notin gone /\ session'[t] = session[t]
BY DEF TypeOK, Rows, DeleteRows

\* The statements that delete sessions and nothing else.
LEMMA DeleteStep ==
  ASSUME Inv0, NEW s, DeleteSessions \/ (s \in Login /\ (Purge(s) \/ Undo(s) \/ Drop(s)))
  PROVE  IInv'
<1> USE DEF Inv0, IInv, SessionsAssumption, Step, Forget, locals, tables, resetVars, history
<1>1. /\ UNCHANGED <<device, history, resets>>
      /\ pc' \in [Login -> PC] /\ needed' \in [Login -> BOOLEAN]
      /\ found' \in [Login -> Id \cup {None}] /\ target' \in [Login -> Login \cup {None}]
      /\ reset' \in {"none", "sessions", "devices", "answered"}
      /\ \A t \in Login : pc'[t] \in {pc[t], "sessions", "answered"}
      /\ \A t \in Login : pc'[t] \in {"insert", "bind", "enrollBind"} => found'[t] = found[t]
      /\ \A t \in Login : found'[t] \in {found[t], None} /\ (pc'[t] # pc[t] => pc[t] # "revoke")
      /\ \A t \in Login : pc[t] # "undo" => needed'[t] = needed[t]
  <2> USE DEF TypeOK, PC, UnderWay, Enrolling
  <2>1. CASE s \in Login /\ Purge(s)
    BY <2>1 DEF Purge
  <2>2. CASE s \in Login /\ Undo(s)
    BY <2>2 DEF Undo
  <2>3. CASE s \in Login /\ Drop(s)
    BY <2>3 DEF Drop
  <2>4. CASE DeleteSessions
    BY <2>4 DEF DeleteSessions
  <2>5. QED BY <2>1, <2>2, <2>3, <2>4
<1>2. Devices' = Devices /\ None \notin Devices
  BY <1>1 DEF Devices
<1>3. PICK gone : /\ session' = DeleteRows(gone)
                  /\ \A t \in Login : t \in gone \/ (Held(t)' => Held(t))
                  /\ \A t \in Login : pc'[t] # pc[t] => t \in gone \/ pc[t] = "purge"
  <2> USE DEF TypeOK, Held, UnderWay, Enrolling
  <2>1. CASE s \in Login /\ Purge(s)
    BY <2>1 DEF Purge
  <2>2. CASE s \in Login /\ Undo(s)
    BY <2>2 DEF Undo
  <2>3. CASE s \in Login /\ Drop(s)
    BY <2>3 DEF Drop
  <2>4. CASE DeleteSessions
    BY <2>4 DEF DeleteSessions
  <2>5. QED BY <2>1, <2>2, <2>3, <2>4
<1>4. /\ session' \in [Login -> Row \cup {None}]
      /\ \A t \in Rows' : t \in Rows /\ t \notin gone /\ session'[t] = session[t]
  BY <1>3, Deleted
<1>5. /\ \A t \in outdated \cup guarded : t \in Login /\ pc'[t] \in UnderWay
      /\ \A t \in guarded : pc'[t] = pc[t] /\ needed'[t] = needed[t]
      /\ \A t \in Login : pc'[t] = "sessions" => pc[t] \in {"sessions", "purge"}
  BY DEF TypeOK, UnderWay, GuardedAreAsked, Purge, Undo, Drop, DeleteSessions
<1>6. TypeOK'
  <2>1. \A t \in Rows' : session'[t].bound \in Devices' \cup {None}
    BY <1>2, <1>4 DEF TypeOK
  <2>2. QED BY <1>1, <1>4, <1>5, <2>1 DEF TypeOK
<1>7. FoundIsOwn'
  BY <1>1, <1>2 DEF FoundIsOwn
<1>8. GuardedAreAsked'
  BY <1>1, <1>2, <1>5 DEF GuardedAreAsked
<1>9. Carried'
  <2>1. \A t \in Login : /\ pc'[t] \in {"new"} \cup UnderWay => pc[t] \in {"new"} \cup UnderWay
                         /\ pc'[t] \in {"bind", "enrollBind", "prove"} => pc[t] = pc'[t]
    BY <1>1, <1>5 DEF UnderWay
  <2>2. QED BY <1>1, <1>4, <2>1 DEF Carried, Pending
<1>10. Promises'
  BY <1>1, <1>3, <1>4 DEF Promises, BoundToItsOwnBrowser, HeldSessionsFollowTheirDevice,
                          NoFreeSessionOnceTrusted
<1>11. QED BY <1>6, <1>7, <1>8, <1>9, <1>10

\* Approval by an open session or by the key: the row is bound to the device of its browser.
LEMMA ApproveStep == ASSUME Inv0, NEW a \in Login, Approve(a) PROVE IInv'
<1> USE DEF Inv0, IInv, SessionsAssumption, Step, Forget, tables, resetVars, history
<1> DEFINE s == target[a]
           k == KeyOf[s]
           id == Enrolled(s)
           keyed == Pending(s) /\ s \in Keyed
           new == keyed /\ device[k] = None
<1>1. /\ UNCHANGED <<resetVars, history>>
      /\ pc' = [pc EXCEPT ![a] = "answered"] /\ pc[a] = "approve"
      /\ needed' = [needed EXCEPT ![a] = FALSE] /\ found' = [found EXCEPT ![a] = None]
      /\ target' = [target EXCEPT ![a] = None]
      /\ session' = IF Pending(s) THEN Consented(s, id) ELSE session
      /\ device' = IF keyed THEN [device EXCEPT ![k] = id] ELSE device
  BY DEF Approve
<1>2. /\ Pending(s) => s \in Rows /\ s \in Login /\ k \in Key /\ session[s] \in Row
      /\ None \notin Devices
  BY DEF Pending, Rows, Devices, TypeOK
<1>3. new => /\ id \in Id /\ id # None /\ id \notin Devices /\ id = Fresh
             /\ \A t \in Login : found[t] # id
  BY <1>2, FreshIsFree DEF Enrolled
<1>4. /\ Devices' = IF new THEN Devices \cup {id} ELSE Devices
      /\ device' \in [Key -> Id \cup {None}]
      /\ \A i, j \in Key : device'[i] = device'[j] /\ i # j => device'[i] = None
      /\ \A j \in Key : device[j] # None => device'[j] = device[j]
  <2>1. CASE new
    <3>1. device' = [device EXCEPT ![k] = id]
      BY <1>1, <2>1
    <3>2. Devices' = Devices \cup {id}
      BY <1>2, <1>3, <2>1, <3>1 DEF Devices, TypeOK
    <3>3. \A j \in Key : device[j] # None => device[j] \in Devices
      BY DEF Devices
    <3> HIDE DEF id
    <3>4. QED BY <1>2, <1>3, <2>1, <3>1, <3>2, <3>3 DEF TypeOK
  <2>2. CASE ~new
    <3>1. keyed => id = device[k]
      BY <2>2 DEF Enrolled
    <3>2. device' = device
      BY <1>1, <3>1, <1>2 DEF TypeOK
    <3>3. QED BY <2>2, <3>2 DEF Devices, TypeOK
  <2>3. QED BY <2>1, <2>2
<1>5. Pending(s) => /\ id \in Devices' \cup {None} /\ id \in Id \cup {None}
                    /\ s \in Keyed => id = device'[k] /\ id # None
                    /\ s \notin Keyed => id = session[s].bound
  <2>1. ASSUME Pending(s), s \in Keyed
        PROVE  id = device'[k] /\ id # None /\ id \in Devices' /\ id \in Id
    <3>1. device'[k] = id
      BY <1>1, <1>2, <2>1 DEF TypeOK
    <3>2. id # None
      BY <1>2, <1>3, <2>1 DEF Enrolled
    <3>3. QED BY <1>2, <1>4, <2>1, <3>1, <3>2 DEF Devices
  <2>2. ASSUME Pending(s), s \notin Keyed PROVE id = session[s].bound
    BY <2>2 DEF Enrolled
  <2>3. ASSUME Pending(s), s \notin Keyed PROVE id \in Devices \cup {None} /\ id \in Id \cup {None}
    BY <1>2, <2>2, <2>3 DEF TypeOK, Row
  <2>4. QED BY <1>4, <2>1, <2>2, <2>3
<1> HIDE DEF id
<1>6. /\ session' \in [Login -> Row \cup {None}]
      /\ \A t \in Rows' : t \in Rows /\ (t # s \/ ~Pending(s) => session'[t] = session[t])
      /\ Pending(s) => /\ session'[s].bound = id /\ session'[s].approved = "consent"
                       /\ ~session'[s].challenge /\ session'[s].orphan = session[s].orphan
  <2>1. CASE Pending(s)
    <3> DEFINE r == [session[s] EXCEPT !.approved = "consent", !.late = FALSE, !.bound = id,
                                       !.challenge = FALSE]
    <3>1. session' = [session EXCEPT ![s] = r]
      BY <1>1, <2>1 DEF Consented
    <3>2. /\ r \in Row /\ r.bound = id /\ r.approved = "consent" /\ ~r.challenge
          /\ r.orphan = session[s].orphan
      BY <1>2, <1>5, <2>1 DEF Row
    <3> HIDE DEF r
    <3>3. QED BY <1>2, <2>1, <3>1, <3>2 DEF TypeOK, Rows
  <2>2. CASE ~Pending(s)
    BY <1>1, <2>2 DEF TypeOK, Rows
  <2>3. QED BY <2>1, <2>2
<1>7. TypeOK'
  <2>1. \A t \in Rows' : session'[t].bound \in Devices' \cup {None}
    BY <1>4, <1>5, <1>6 DEF TypeOK
  <2>2. /\ pc' \in [Login -> PC] /\ needed' \in [Login -> BOOLEAN]
        /\ found' \in [Login -> Id \cup {None}] /\ target' \in [Login -> Login \cup {None}]
    BY <1>1 DEF TypeOK, PC
  <2>3. \A t \in outdated' \cup guarded' : t \in Login /\ pc'[t] \in UnderWay
    BY <1>1 DEF TypeOK, UnderWay
  <2>4. QED BY <1>1, <1>4, <1>6, <2>1, <2>2, <2>3 DEF TypeOK
<1>8. FoundIsOwn'
  <2>1. ASSUME NEW t \in Login, pc'[t] # "revoke", found'[t] \in Devices'
        PROVE  found'[t] = device'[KeyOf[t]]
    <3>1. t # a /\ found'[t] = found[t] /\ pc'[t] = pc[t]
      BY <1>1, <1>2, <1>3, <1>4, <2>1 DEF TypeOK
    <3>2. found[t] \in Devices
      BY <1>3, <1>4, <2>1, <3>1
    <3>3. QED BY <1>2, <1>4, <2>1, <3>1, <3>2 DEF FoundIsOwn
  <2>2. QED BY <2>1 DEF FoundIsOwn
<1>9. GuardedAreAsked'
  BY <1>1, <1>4 DEF GuardedAreAsked, TypeOK, UnderWay
<1>10. Carried'
  <2>1. \A t \in Login : /\ pc'[t] \in {"new", "bind", "enrollBind", "prove"} \cup UnderWay =>
                              pc'[t] = pc[t] /\ found'[t] = found[t]
                         /\ Pending(t)' => Pending(t) /\ (t # s \/ ~Pending(s))
    BY <1>1, <1>6 DEF TypeOK, UnderWay, Pending
  <2>2. QED BY <1>6, <2>1 DEF Carried, Pending
<1>11. Promises'
  <2>1. BoundToItsOwnBrowser'
    <3>1. \A t \in Rows : session[t].bound # None => session[t].bound = device'[KeyOf[t]]
      BY <1>4 DEF Promises, BoundToItsOwnBrowser, Rows
    <3>2. QED BY <1>5, <1>6, <3>1 DEF BoundToItsOwnBrowser
  <2>2. HeldSessionsFollowTheirDevice'
    <3>1. \A t \in Login : Held(t)' <=> Held(t)
      BY <1>1 DEF Held, TypeOK, UnderWay, Enrolling
    <3>2. QED BY <1>2, <1>5, <1>6, <3>1 DEF Promises, HeldSessionsFollowTheirDevice
  <2>3. QED BY <1>6, <2>1, <2>2 DEF Promises, NoFreeSessionOnceTrusted
<1>12. QED BY <1>7, <1>8, <1>9, <1>10, <1>11

\* The proof of a browser, and the deadline of a pending row: its binding stays.
LEMMA ProveStep == ASSUME Inv0, NEW s \in Login, Prove(s) \/ Lapse(s) PROVE IInv'
<1> USE DEF Inv0, IInv, SessionsAssumption, Step, locals, tables, resetVars, history
<1>1. /\ UNCHANGED <<locals, device, resetVars, history>>
      /\ pc' \in [Login -> PC]
      /\ \A t \in Login : pc'[t] = pc[t] \/ (t = s /\ pc[t] = "prove" /\ pc'[t] = "answered")
      /\ \A t \in Login : t # s => session'[t] = session[t]
  BY DEF TypeOK, PC, Prove, Lapse, Consented
<1>2. Devices' = Devices
  BY <1>1 DEF Devices
<1>3. /\ session' \in [Login -> Row \cup {None}]
      /\ s \in Rows' => /\ s \in Rows /\ session'[s].bound = session[s].bound
                        /\ session'[s].orphan = session[s].orphan
                        /\ session'[s].challenge => session[s].challenge
                        /\ session'[s].approved = "no" =>
                             session'[s].challenge = session[s].challenge
                        /\ session'[s].approved = "unasked" => session'[s] = session[s]
                        /\ session'[s].approved # session[s].approved => session[s].challenge
  <2>1. CASE session' = session
    BY <2>1 DEF TypeOK, Rows
  <2>2. CASE Prove(s) /\ Pending(s)
    <3> DEFINE r == [session[s] EXCEPT !.approved = "consent", !.late = FALSE,
                                       !.bound = session[s].bound, !.challenge = FALSE]
    <3>1. session' = [session EXCEPT ![s] = r] /\ session[s] \in Row /\ s \in Rows
      BY <2>2 DEF TypeOK, Prove, Consented, Pending, Rows
    <3>2. session[s].challenge
      BY <2>2 DEF Carried, Prove
    <3>3. /\ r \in Row /\ r.bound = session[s].bound /\ r.approved = "consent" /\ ~r.challenge
          /\ r.orphan = session[s].orphan
      BY <3>1 DEF Row
    <3> HIDE DEF r
    <3>4. QED BY <3>1, <3>2, <3>3 DEF TypeOK
  <2>3. CASE Lapse(s)
    <3> DEFINE r == [session[s] EXCEPT !.late = TRUE]
    <3>1. session' = [session EXCEPT ![s] = r] /\ session[s] \in Row /\ s \in Rows
      BY <2>3 DEF TypeOK, Lapse, Pending, Rows
    <3>2. session[s].approved = "no"
      BY <2>3 DEF Lapse, Pending
    <3>3. /\ r \in Row /\ r.bound = session[s].bound /\ r.approved = session[s].approved
          /\ r.challenge = session[s].challenge /\ r.orphan = session[s].orphan
      BY <3>1 DEF Row
    <3> HIDE DEF r
    <3>4. QED BY <3>1, <3>2, <3>3 DEF TypeOK
  <2>4. QED BY <2>1, <2>2, <2>3 DEF Prove
<1>4. Rows' \subseteq Rows
  BY <1>1, <1>3 DEF Rows
<1>5. TypeOK'
  <2>1. \A t \in Rows' : session'[t].bound \in Devices' \cup {None}
    BY <1>1, <1>2, <1>3, <1>4 DEF TypeOK, Rows
  <2>2. \A t \in outdated' \cup guarded' : t \in Login /\ pc'[t] \in UnderWay
    BY <1>1 DEF TypeOK, UnderWay
  <2>3. QED BY <1>1, <1>3, <2>1, <2>2 DEF TypeOK
<1>6. FoundIsOwn'
  BY <1>1, <1>2 DEF FoundIsOwn
<1>7. GuardedAreAsked'
  BY <1>1, <1>2 DEF GuardedAreAsked, TypeOK, UnderWay
<1>8. Carried'
  <2>1. \A t \in Login : Pending(t)' => t \in Rows /\ (Pending(t) \/ session[t].challenge)
    BY <1>1, <1>3, <1>4 DEF Pending
  <2>2. \A t \in Rows' : session'[t].challenge => session[t].challenge
    BY <1>1, <1>3, <1>4 DEF Rows
  <2>3. \A t \in Login : pc'[t] = "prove" /\ Pending(t)' => session'[t].challenge
    BY <1>1, <1>3, <1>4, <2>1 DEF Carried, Pending
  <2>4. QED BY <1>1, <1>3, <1>4, <2>2, <2>3 DEF Carried, UnderWay, Rows
<1>9. Promises'
  <2>1. \A t \in Login : Held(t)' <=> Held(t)
    BY <1>1 DEF Held, UnderWay, Enrolling
  <2>2. BoundToItsOwnBrowser'
    BY <1>1, <1>3, <1>4 DEF Promises, BoundToItsOwnBrowser, Rows
  <2>3. HeldSessionsFollowTheirDevice'
    BY <1>1, <1>3, <1>4, <2>1 DEF Promises, HeldSessionsFollowTheirDevice, Carried, Rows
  <2>4. NoFreeSessionOnceTrusted'
    BY <1>1, <1>3, <1>4 DEF Promises, NoFreeSessionOnceTrusted, Rows
  <2>5. QED BY <2>2, <2>3, <2>4 DEF Promises
<1>10. QED BY <1>5, <1>6, <1>7, <1>8, <1>9

\* ON DELETE SET NULL touches one field of the row, and the history.
Orphan(r) == [r EXCEPT !.bound = None, !.orphan = TRUE]

\* What is left of a row when its device is deleted.
LEMMA Orphans ==
  ASSUME NEW r \in Row
  PROVE  /\ Orphan(r) \in Row /\ Orphan(r).bound = None /\ Orphan(r).orphan
         /\ Orphan(r).approved = r.approved /\ Orphan(r).challenge = r.challenge
         /\ Orphan(r).guarded = r.guarded
BY DEF Row, Orphan

\* A device that is revoked takes its sessions; a recovery leaves them as orphans.
LEMMA RevokeStep ==
  ASSUME Inv0, NEW a, DeleteDevices \/ (a \in Login /\ Revoke(a))
  PROVE  IInv'
<1> USE DEF Inv0, IInv, SessionsAssumption, Step, Forget, locals, tables, resetVars, history
<1>1. /\ UNCHANGED <<outdated, resets>>
      /\ pc' \in [Login -> PC] /\ needed' \in [Login -> BOOLEAN]
      /\ found' \in [Login -> Id \cup {None}] /\ target' \in [Login -> Login \cup {None}]
      /\ reset' \in {"none", "sessions", "devices", "answered"}
      /\ \A t \in Login : \/ pc'[t] = pc[t]
                          \/ pc[t] = "revoke" /\ pc'[t] = "answered" /\ found'[t] = None
      /\ \A t \in Login : pc'[t] # "answered" => found'[t] = found[t] /\ needed'[t] = needed[t]
      /\ \A t \in Login : found'[t] \in {found[t], None}
  <2> USE DEF TypeOK, PC
  <2>1. CASE a \in Login /\ Revoke(a)
    <3>1. /\ pc[a] = "revoke" /\ pc' = [pc EXCEPT ![a] = "answered"]
          /\ needed' = [needed EXCEPT ![a] = FALSE] /\ found' = [found EXCEPT ![a] = None]
          /\ target' = [target EXCEPT ![a] = None] /\ UNCHANGED <<resetVars, outdated>>
      BY <2>1 DEF Revoke
    <3>2. QED BY <2>1, <3>1
  <2>2. CASE DeleteDevices
    BY <2>2 DEF DeleteDevices
  <2>3. QED BY <2>1, <2>2
<1> DEFINE Gone == \E ids \in SUBSET Devices :
        /\ device' = [k \in Key |-> IF device[k] \in ids THEN None ELSE device[k]]
        /\ guarded' = guarded \/ guarded' = {}
        /\ guarded' # {} => Devices' # {}
        /\ \A t \in Rows' : t \in Rows /\
             \/ session'[t] = session[t] /\ session[t].bound \notin ids
             \/ session'[t] = Orphan(session[t])
        /\ session' \in [Login -> Row \cup {None}]
<1>2. Gone
  <2>1. \A ids : DropDevices(ids) => /\ guarded' = guarded \/ guarded' = {}
                                     /\ guarded' # {} => Devices' # {}
    <3>1. (\E k \in Key : device'[k] # None) => Devices' # {}
      BY DEF Devices
    <3>2. QED BY <3>1 DEF DropDevices
  <2>2. CASE a \in Login /\ Revoke(a) /\ found[a] \in Devices
    <3>1. /\ session' = DeleteRows({s \in Rows : session[s].bound = found[a]})
          /\ DropDevices({found[a]})
      BY <2>2 DEF Revoke
    <3>2. \A t \in Rows' : t \in Rows /\ session'[t] = session[t] /\ session[t].bound # found[a]
      BY <3>1, Deleted
    <3>3. session' \in [Login -> Row \cup {None}]
      BY <3>1, Deleted
    <3>4. QED BY <2>1, <2>2, <3>1, <3>2, <3>3 DEF DropDevices
  <2>3. CASE a \in Login /\ Revoke(a) /\ found[a] \notin Devices
    <3>1. UNCHANGED <<session, device, guarded>>
      BY <2>3 DEF Revoke
    <3>2. device' = [k \in Key |-> IF device[k] \in {} THEN None ELSE device[k]]
      BY <3>1 DEF TypeOK
    <3>3. Rows' = Rows /\ Devices' = Devices /\ (guarded # {} => Devices # {})
      BY <3>1 DEF Rows, Devices, GuardedAreAsked
    <3> WITNESS {} \in SUBSET Devices
    <3>4. QED BY <3>1, <3>2, <3>3 DEF TypeOK
  <2>4. CASE DeleteDevices
    <3>1. session' = SetNull(Devices) /\ DropDevices(Devices)
      BY <2>4 DEF DeleteDevices
    <3>2. \A t \in Rows : Orphan(session[t]) \in Row
      BY Orphans DEF TypeOK, Rows
    <3>3. \A t \in Rows' : t \in Rows /\
             \/ session'[t] = session[t] /\ session[t].bound \notin Devices
             \/ session'[t] = Orphan(session[t])
      BY <3>1 DEF SetNull, Rows, TypeOK, Orphan
    <3>4. session' \in [Login -> Row \cup {None}]
      BY <3>1, <3>2 DEF SetNull, TypeOK, Orphan, Rows
    <3>5. QED BY <2>1, <3>1, <3>3, <3>4 DEF DropDevices
  <2>5. QED BY <2>2, <2>3, <2>4
<1>3. PICK ids \in SUBSET Devices :
        /\ device' = [k \in Key |-> IF device[k] \in ids THEN None ELSE device[k]]
        /\ guarded' = guarded \/ guarded' = {}
        /\ guarded' # {} => Devices' # {}
        /\ \A t \in Rows' : t \in Rows /\
             \/ session'[t] = session[t] /\ session[t].bound \notin ids
             \/ session'[t] = Orphan(session[t])
        /\ session' \in [Login -> Row \cup {None}]
  BY <1>2
<1>4. /\ Devices' = Devices \ ids /\ None \notin Devices
      /\ \A k \in Key : device'[k] \in {device[k], None}
      /\ \A k \in Key : device[k] \in Devices' => device'[k] = device[k]
  <2>1. \A k \in Key : device'[k] = IF device[k] \in ids THEN None ELSE device[k]
    BY <1>3
  <2>2. QED BY <2>1 DEF Devices
<1>5. \A t \in Rows' :
        /\ t \in Rows /\ session'[t].approved = session[t].approved
        /\ session'[t].challenge = session[t].challenge
        /\ session'[t].guarded = session[t].guarded
        /\ \/ session'[t].bound = None /\ session'[t].orphan
           \/ /\ session'[t].bound = session[t].bound /\ session[t].bound \notin ids
              /\ session'[t].orphan = session[t].orphan
  <2>1. \A t \in Rows : session[t] \in Row
    BY DEF TypeOK, Rows
  <2>2. QED BY <1>3, <2>1, Orphans
<1>6. TypeOK'
  <2>1. device' \in [Key -> Id \cup {None}]
    BY <1>3 DEF TypeOK
  <2>2. \A j, k \in Key : device'[j] = device'[k] /\ j # k => device'[j] = None
    BY <1>4 DEF TypeOK
  <2>3. \A t \in Rows' : session'[t].bound \in Devices' \cup {None}
    BY <1>4, <1>5 DEF TypeOK
  <2>4. \A t \in outdated' \cup guarded' : t \in Login /\ pc'[t] \in UnderWay
    BY <1>1, <1>3 DEF TypeOK, UnderWay
  <2>5. QED BY <1>1, <1>3, <2>1, <2>2, <2>3, <2>4 DEF TypeOK
<1>7. FoundIsOwn'
  BY <1>1, <1>4 DEF FoundIsOwn
<1>8. GuardedAreAsked'
  BY <1>1, <1>3 DEF GuardedAreAsked, TypeOK, UnderWay
<1>9. Carried'
  BY <1>1, <1>5 DEF Carried, Pending, UnderWay
<1>10. Promises'
  <2>1. \A t \in Login : Held(t)' <=> Held(t)
    BY <1>1 DEF Held, UnderWay, Enrolling
  <2>2. BoundToItsOwnBrowser'
    BY <1>3, <1>4, <1>5 DEF Promises, BoundToItsOwnBrowser, TypeOK, Rows
  <2>3. HeldSessionsFollowTheirDevice'
    BY <1>5, <2>1 DEF Promises, HeldSessionsFollowTheirDevice, Rows
  <2>4. NoFreeSessionOnceTrusted'
    BY <1>5 DEF Promises, NoFreeSessionOnceTrusted
  <2>5. QED BY <2>2, <2>3, <2>4 DEF Promises
<1>11. QED BY <1>6, <1>7, <1>8, <1>9, <1>10

\* A restart ends every handler and changes no row.
LEMMA RestartStep == ASSUME Inv0, Restart PROVE IInv'
<1> USE DEF Inv0, IInv, SessionsAssumption, Restart, tables
<1>1. Rows' = Rows /\ Devices' = Devices
  BY SameTables
<1>2. \A s \in Login : /\ pc'[s] \in {"new", "answered", "lost"}
                       /\ pc'[s] = "new" => pc[s] = "new"
                       /\ Held(s)' <=> Held(s)
  BY DEF Held, UnderWay, Enrolling
<1>3. TypeOK'
  BY <1>1 DEF TypeOK, PC, UnderWay
<1>4. FoundIsOwn' /\ GuardedAreAsked'
  BY <1>1 DEF FoundIsOwn, GuardedAreAsked, Devices
<1>5. Carried'
  BY <1>1, <1>2 DEF Carried, UnderWay, Pending
<1>6. Promises'
  BY <1>1, <1>2 DEF Promises, BoundToItsOwnBrowser, HeldSessionsFollowTheirDevice,
                    NoFreeSessionOnceTrusted, Rows
<1>7. QED BY <1>3, <1>4, <1>5, <1>6

-----------------------------------------------------------------------------
\* IInv is kept by every step.
LEMMA NextIInv == ASSUME SessionsAssumption PROVE IInv /\ [Next]_vars => IInv'
<1> SUFFICES ASSUME IInv, [Next]_vars PROVE IInv'
  OBVIOUS
<1>1. Inv0
  BY DEF Inv0
<1>2. ASSUME NEW s \in Login, LoginStep(s) \/ Enroll(s) PROVE IInv'
  BY <1>1, <1>2, LoginReads, EnrolmentReads, InsertStep, WriteStep, BindStep, DeleteStep
     DEF LoginStep, FreeLogin, Enroll
<1>3. ASSUME NEW s \in Login,
             \/ StartProve(s) \/ Prove(s) \/ Approve(s) \/ Revoke(s) \/ Drop(s) \/ Lapse(s)
             \/ \E t \in Login : StartApprove(s, t)
             \/ \E i \in Id : StartRevoke(s, i)
      PROVE  IInv'
  BY <1>1, <1>3, OtherReads, ProveStep, ApproveStep, RevokeStep, DeleteStep
<1>4. ASSUME SetPassword \/ DeleteSessions \/ DeleteDevices \/ Restart PROVE IInv'
  <2>1. CASE SetPassword
    BY <1>1, <2>1, OtherReads
  <2>2. CASE DeleteSessions
    BY <1>1, <2>2, DeleteStep
  <2>3. CASE DeleteDevices
    BY <1>1, <2>3, RevokeStep
  <2>4. CASE Restart
    BY <1>1, <2>4, RestartStep
  <2>5. QED BY <1>4, <2>1, <2>2, <2>3, <2>4
<1>5. CASE UNCHANGED vars
  <2>1. Rows' = Rows /\ Devices' = Devices
    BY <1>5, SameTables DEF vars
  <2> USE <1>5, <2>1 DEF vars, locals, tables, resetVars, history, IInv
  <2>2. TypeOK'
    BY DEF TypeOK
  <2>3. FoundIsOwn' /\ GuardedAreAsked' /\ Carried'
    BY DEF FoundIsOwn, GuardedAreAsked, Carried, Pending
  <2>4. Promises'
    BY DEF Promises, BoundToItsOwnBrowser, HeldSessionsFollowTheirDevice,
           NoFreeSessionOnceTrusted, Held
  <2>5. QED BY <2>2, <2>3, <2>4
<1>6. QED BY <1>2, <1>3, <1>4, <1>5 DEF Next

-----------------------------------------------------------------------------
\* The tables and the handlers of an account keep IInv, for any logins and browsers.
THEOREM SessionsInvariant == ASSUME SessionsAssumption PROVE Spec => []IInv
<1>1. Init => IInv
  BY InitIInv
<1>2. IInv /\ [Next]_vars => IInv'
  BY NextIInv
<1>3. QED BY <1>1, <1>2, PTL DEF Spec

\* RevokeTrustedDevice, which finds sessions by their binding, takes every session of
\* the browser that holds the key: a session is bound to no other device, and an
\* approved one of a browser with its key to none only when a recovery deleted it.
THEOREM SessionsFollow ==
  ASSUME SessionsAssumption
  PROVE  Spec => [](BoundToItsOwnBrowser /\ HeldSessionsFollowTheirDevice)
<1>1. IInv => BoundToItsOwnBrowser /\ HeldSessionsFollowTheirDevice
  BY DEF IInv, Promises
<1>2. QED BY <1>1, SessionsInvariant, PTL

\* createSession approves no session unasked when a device was there from the start of
\* the login, although hasTrustedDevices and the INSERT are two statements.
THEOREM ConsentOnceTrusted == ASSUME SessionsAssumption PROVE Spec => []NoFreeSessionOnceTrusted
<1>1. IInv => NoFreeSessionOnceTrusted
  BY DEF IInv, Promises
<1>2. QED BY <1>1, SessionsInvariant, PTL

-----------------------------------------------------------------------------
(* Presence: what was last announced is accounted for.                     *)


\* The loops of a connection visit peers of its own user.
TodoIsPeers == \A c \in Conn : todo[c] \subseteq PeersOf(c)

\* A user that was last announced online to v is still connected, or its last
\* goroutine has v yet to visit.
Accounted(u, v) ==
  \E c \in Conn : /\ UserOf[c] = u
                  /\ c \in clients \/ (stage[c] = "offline" /\ v \in todo[c])
OnlineIsAccounted ==
  \A u, v \in User : told[u][v] = "online" => v \in Peers[u] /\ Accounted(u, v)

\* The connection that saw u come online is still on its way to announce it to v.
Announcing(u, v) ==
  \E c \in clients : /\ UserOf[c] = u /\ edge[c]
                     /\ stage[c] = "state" \/ (stage[c] = "online" /\ v \in todo[c])
SilenceIsShort ==
  \A u \in User : IsOnline(u) =>
    \A v \in Peers[u] : told[u][v] # "nothing" \/ Announcing(u, v)

PresenceInv == PresenceTypeOK /\ TodoIsPeers /\ OnlineIsAccounted /\ SilenceIsShort

-----------------------------------------------------------------------------
\* Nobody is connected and nothing was said.
LEMMA PresenceInitInv == ASSUME PresenceAssumption PROVE PresenceInit => PresenceInv
<1> SUFFICES ASSUME PresenceInit PROVE PresenceInv
  OBVIOUS
<1> USE DEF PresenceInit, PresenceAssumption
<1>1. PresenceTypeOK
  BY DEF PresenceTypeOK, Stages
<1>2. TodoIsPeers
  BY DEF TodoIsPeers
<1>3. OnlineIsAccounted
  BY DEF OnlineIsAccounted
<1>4. SilenceIsShort
  BY DEF SilenceIsShort, IsOnline, ConnectionsOf
<1>5. QED BY <1>1, <1>2, <1>3, <1>4 DEF PresenceInv

\* Telling presence changes what clients show, and nothing else that is typed.
LEMMA TellTypes ==
  ASSUME PresenceTypeOK, NEW u \in User, NEW shown \in [Conn -> SUBSET User], Tell(u, shown)
  PROVE  dropped' \subseteq Conn /\ view' \in [Conn -> SUBSET User]
  BY DEF PresenceTypeOK, Tell, ConnectionsOf

\* One turn of a loop leaves the rest of the list, and the rows with one holder.
LEMMA TurnTypes ==
  ASSUME PresenceAssumption, PresenceTypeOK, TodoIsPeers, NEW c \in Conn, NEW u \in User, Turn(c, u)
  PROVE  /\ todo' \in [Conn -> SUBSET User]
         /\ rows' \subseteq Conn /\ \A d, e \in rows' : d = e
         /\ todo' = [todo EXCEPT ![c] = todo[c] \ {u}]
         /\ u \in PeersOf(c)
         /\ \A d \in Conn : todo'[d] \subseteq PeersOf(d)
  BY DEF PresenceTypeOK, TodoIsPeers, Turn, Visit, PresenceAssumption, PeersOf

-----------------------------------------------------------------------------
\* Coming and going keeps the invariant: the first connection of a user is on its
\* way to announce it, the last one has every peer to visit.
LEMMA RegisterIInv ==
  ASSUME PresenceAssumption, PresenceInv, NEW c \in Conn, Register(c) PROVE PresenceInv'
<1> USE DEF PresenceAssumption, Register, Goto, Visit, PeersOf
<1>1. PresenceTypeOK'
  BY DEF PresenceInv, PresenceTypeOK, Stages, First, IsOnline
<1>2. TodoIsPeers'
  BY DEF PresenceInv, PresenceTypeOK, TodoIsPeers
<1>3. OnlineIsAccounted'
  <2> SUFFICES ASSUME NEW u \in User, NEW v \in User, told[u][v] = "online"
               PROVE  v \in Peers[u] /\ Accounted(u, v)'
    BY DEF OnlineIsAccounted
  <2>1. v \in Peers[u] /\ Accounted(u, v)
    BY DEF PresenceInv, OnlineIsAccounted
  <2>2. PICK d \in Conn : /\ UserOf[d] = u
                          /\ d \in clients \/ (stage[d] = "offline" /\ v \in todo[d])
    BY <2>1 DEF Accounted
  <2>3. d \in clients' \/ (stage'[d] = "offline" /\ v \in todo'[d])
    BY <2>2 DEF PresenceInv, PresenceTypeOK
  <2>4. QED BY <2>1, <2>2, <2>3 DEF Accounted
<1>4. SilenceIsShort'
  <2> SUFFICES ASSUME NEW u \in User, IsOnline(u)', NEW v \in Peers[u], told[u][v] = "nothing"
               PROVE  Announcing(u, v)'
    BY DEF SilenceIsShort
  <2>1. CASE IsOnline(u)
    <3>1. PICK d \in clients : /\ UserOf[d] = u /\ edge[d]
                               /\ stage[d] = "state" \/ (stage[d] = "online" /\ v \in todo[d])
      BY <2>1 DEF PresenceInv, SilenceIsShort, Announcing
    <3>2. d # c /\ d \in clients'
      BY <3>1 DEF PresenceInv, PresenceTypeOK
    <3>3. edge'[d] = edge[d] /\ stage'[d] = stage[d] /\ todo'[d] = todo[d]
      BY <3>1, <3>2 DEF PresenceInv, PresenceTypeOK
    <3>4. QED BY <3>1, <3>2, <3>3 DEF Announcing
  <2>2. CASE ~IsOnline(u)
    <3>1. UserOf[c] = u
      BY <2>2 DEF IsOnline, ConnectionsOf
    <3>2. edge'[c] /\ stage'[c] = "state" /\ c \in clients'
      BY <2>2, <3>1 DEF First, PresenceInv, PresenceTypeOK
    <3>3. QED BY <3>1, <3>2 DEF Announcing
  <2>3. QED BY <2>1, <2>2
<1>5. QED BY <1>1, <1>2, <1>3, <1>4 DEF PresenceInv

\* A connection that goes: another one of its user remains, or it has every peer
\* to visit.
LEMMA UnregisterIInv ==
  ASSUME PresenceAssumption, PresenceInv, NEW c \in Conn, Unregister(c) PROVE PresenceInv'
<1> USE DEF PresenceAssumption, Unregister, Unregistered, Goto, Visit, PeersOf
<1>1. PresenceTypeOK'
  BY DEF PresenceInv, PresenceTypeOK, Stages, Last
<1>2. TodoIsPeers'
  BY DEF PresenceInv, PresenceTypeOK, TodoIsPeers
<1>3. OnlineIsAccounted'
  <2> SUFFICES ASSUME NEW u \in User, NEW v \in User, told[u][v] = "online"
               PROVE  v \in Peers[u] /\ Accounted(u, v)'
    BY DEF OnlineIsAccounted
  <2>1. v \in Peers[u] /\ Accounted(u, v)
    BY DEF PresenceInv, OnlineIsAccounted
  <2>2. PICK d \in Conn : /\ UserOf[d] = u
                          /\ d \in clients \/ (stage[d] = "offline" /\ v \in todo[d])
    BY <2>1 DEF Accounted
  <2>3. CASE d # c
    <3>1. d \in clients' \/ (stage'[d] = "offline" /\ v \in todo'[d])
      BY <2>2, <2>3 DEF PresenceInv, PresenceTypeOK
    <3>2. QED BY <2>1, <2>2, <3>1 DEF Accounted
  <2>4. CASE d = c /\ Last(c)
    <3>1. stage'[c] = "offline" /\ v \in todo'[c]
      BY <2>1, <2>2, <2>4 DEF PresenceInv, PresenceTypeOK
    <3>2. QED BY <2>1, <2>2, <2>4, <3>1 DEF Accounted
  <2>5. CASE d = c /\ ~Last(c)
    <3>1. PICK e \in clients : e # c /\ UserOf[e] = u
      BY <2>2, <2>5 DEF Last, ConnectionsOf
    <3>2. e \in Conn /\ e \in clients'
      BY <3>1 DEF PresenceInv, PresenceTypeOK
    <3>3. QED BY <2>1, <3>1, <3>2 DEF Accounted
  <2>6. QED BY <2>3, <2>4, <2>5
<1>4. SilenceIsShort'
  <2> SUFFICES ASSUME NEW u \in User, IsOnline(u)', NEW v \in Peers[u], told[u][v] = "nothing"
               PROVE  Announcing(u, v)'
    BY DEF SilenceIsShort
  <2>1. IsOnline(u)
    BY DEF IsOnline, ConnectionsOf
  <2>2. PICK d \in clients : /\ UserOf[d] = u /\ edge[d]
                             /\ stage[d] = "state" \/ (stage[d] = "online" /\ v \in todo[d])
    BY <2>1 DEF PresenceInv, SilenceIsShort, Announcing
  <2>3. d # c /\ d \in clients'
    BY <2>2 DEF PresenceInv, PresenceTypeOK
  <2>4. edge'[d] = edge[d] /\ stage'[d] = stage[d] /\ todo'[d] = todo[d]
    BY <2>2, <2>3 DEF PresenceInv, PresenceTypeOK
  <2>5. QED BY <2>2, <2>3, <2>4 DEF Announcing
<1>5. QED BY <1>1, <1>2, <1>3, <1>4 DEF PresenceInv

\* An announcement: online is said by a connected user, offline to one peer fewer.
LEMMA AnnounceIInv ==
  ASSUME PresenceAssumption, PresenceInv, NEW c \in Conn, NEW w \in User, Announce(c, w) PROVE PresenceInv'
<1> USE DEF PresenceAssumption, Announce
<1>0. /\ todo' = [todo EXCEPT ![c] = todo[c] \ {w}] /\ w \in PeersOf(c)
      /\ \A d \in Conn : todo'[d] \subseteq PeersOf(d)
      /\ UserOf[c] \in User
  BY TurnTypes DEF PresenceInv
<1> DEFINE shown == [d \in Conn |-> IF stage[c] = "online" THEN view[d] \cup {UserOf[c]}
                                                        ELSE view[d] \ {UserOf[c]}]
<1>1. PresenceTypeOK'
  <2>1. shown \in [Conn -> SUBSET User]
    BY <1>0 DEF PresenceInv, PresenceTypeOK
  <2>2. dropped' \subseteq Conn /\ view' \in [Conn -> SUBSET User]
    BY <2>1, TellTypes DEF PresenceInv
  <2>3. todo' \in [Conn -> SUBSET User] /\ rows' \subseteq Conn /\ \A d, e \in rows' : d = e
    BY TurnTypes DEF PresenceInv
  <2>4. told' \in [User -> [User -> {"nothing", "online", "offline"}]]
    BY <1>0 DEF PresenceInv, PresenceTypeOK
  <2>5. QED BY <2>2, <2>3, <2>4 DEF PresenceInv, PresenceTypeOK
<1>2. TodoIsPeers'
  BY <1>0 DEF TodoIsPeers, PeersOf
<1>3. OnlineIsAccounted'
  <2> SUFFICES ASSUME NEW u \in User, NEW v \in User, told'[u][v] = "online"
               PROVE  v \in Peers[u] /\ Accounted(u, v)'
    BY DEF OnlineIsAccounted
  <2>1. CASE u = UserOf[c] /\ v = w
    <3>1. stage[c] = "online"
      BY <2>1, <1>0 DEF PresenceInv, PresenceTypeOK
    <3>2. c \in clients'
      BY <3>1 DEF PresenceInv, PresenceTypeOK
    <3>3. QED BY <2>1, <1>0, <3>2 DEF Accounted, PeersOf
  <2>2. CASE ~(u = UserOf[c] /\ v = w)
    <3>1. told[u][v] = "online"
      BY <2>2, <1>0 DEF PresenceInv, PresenceTypeOK
    <3>2. PICK d \in Conn : /\ UserOf[d] = u
                            /\ d \in clients \/ (stage[d] = "offline" /\ v \in todo[d])
      BY <3>1 DEF PresenceInv, OnlineIsAccounted, Accounted
    <3>3. d \in clients' \/ (stage'[d] = "offline" /\ v \in todo'[d])
      BY <2>2, <1>0, <3>2 DEF PresenceInv, PresenceTypeOK
    <3>4. QED BY <3>1, <3>2, <3>3 DEF Accounted, PresenceInv, OnlineIsAccounted
  <2>3. QED BY <2>1, <2>2
<1>4. SilenceIsShort'
  <2> SUFFICES ASSUME NEW u \in User, IsOnline(u)', NEW v \in Peers[u], told'[u][v] = "nothing"
               PROVE  Announcing(u, v)'
    BY DEF SilenceIsShort
  <2>1. v \in User
    OBVIOUS
  <2>2. told[u][v] = "nothing" /\ ~(u = UserOf[c] /\ v = w)
    BY <2>1, <1>0 DEF PresenceInv, PresenceTypeOK
  <2>3. IsOnline(u)
    BY DEF IsOnline, ConnectionsOf
  <2>4. PICK d \in clients : /\ UserOf[d] = u /\ edge[d]
                             /\ stage[d] = "state" \/ (stage[d] = "online" /\ v \in todo[d])
    BY <2>2, <2>3 DEF PresenceInv, SilenceIsShort, Announcing
  <2>5. stage'[d] = "state" \/ (stage'[d] = "online" /\ v \in todo'[d])
    BY <2>2, <2>4, <1>0 DEF PresenceInv, PresenceTypeOK
  <2>6. QED BY <2>4, <2>5 DEF Announcing
<1>5. QED BY <1>1, <1>2, <1>3, <1>4 DEF PresenceInv

\* A step of the goroutine of c that leaves hub and announcements alone, and that
\* moves c past nothing it had to announce.
LEMMA QuietIInv ==
  ASSUME PresenceAssumption, PresenceInv, NEW c \in Conn,
         PresenceTypeOK', TodoIsPeers', UNCHANGED <<clients, edge, told>>,
         \A d \in Conn : d # c => stage'[d] = stage[d] /\ todo'[d] = todo[d],
         \A v \in User : stage[c] = "offline" /\ v \in todo[c] => stage'[c] = "offline" /\ v \in todo'[c],
         \A v \in PeersOf(c) : /\ edge[c]
                               /\ stage[c] = "state" \/ (stage[c] = "online" /\ v \in todo[c])
                               => stage'[c] = "state" \/ (stage'[c] = "online" /\ v \in todo'[c])
  PROVE  PresenceInv'
<1> USE DEF PresenceAssumption
<1>1. OnlineIsAccounted'
  <2> SUFFICES ASSUME NEW u \in User, NEW v \in User, told[u][v] = "online"
               PROVE  v \in Peers[u] /\ Accounted(u, v)'
    BY DEF OnlineIsAccounted
  <2>1. v \in Peers[u] /\ Accounted(u, v)
    BY DEF PresenceInv, OnlineIsAccounted
  <2>2. PICK d \in Conn : /\ UserOf[d] = u
                          /\ d \in clients \/ (stage[d] = "offline" /\ v \in todo[d])
    BY <2>1 DEF Accounted
  <2>3. d \in clients' \/ (stage'[d] = "offline" /\ v \in todo'[d])
    BY <2>2
  <2>4. QED BY <2>1, <2>2, <2>3 DEF Accounted
<1>2. SilenceIsShort'
  <2> SUFFICES ASSUME NEW u \in User, IsOnline(u)', NEW v \in Peers[u], told[u][v] = "nothing"
               PROVE  Announcing(u, v)'
    BY DEF SilenceIsShort
  <2>1. IsOnline(u)
    BY DEF IsOnline, ConnectionsOf
  <2>2. PICK d \in clients : /\ UserOf[d] = u /\ edge[d]
                             /\ stage[d] = "state" \/ (stage[d] = "online" /\ v \in todo[d])
    BY <2>1 DEF PresenceInv, SilenceIsShort, Announcing
  <2>3. d \in Conn
    BY DEF PresenceInv, PresenceTypeOK
  <2>4. stage'[d] = "state" \/ (stage'[d] = "online" /\ v \in todo'[d])
    BY <2>2, <2>3 DEF PeersOf
  <2>5. QED BY <2>2, <2>4 DEF Announcing
<1>3. QED BY <1>1, <1>2 DEF PresenceInv

\* Every step keeps the invariant.
LEMMA PresenceNextInv == ASSUME PresenceAssumption, PresenceInv, [PresenceNext]_presenceVars PROVE PresenceInv'
<1> USE DEF PresenceAssumption
<1>1. ASSUME NEW c \in Conn, NEW u \in User, LookAt(c, u) PROVE PresenceInv'
  <2>1. /\ todo' = [todo EXCEPT ![c] = todo[c] \ {u}]
        /\ todo' \in [Conn -> SUBSET User] /\ rows' \subseteq Conn /\ \A d, e \in rows' : d = e
        /\ \A d \in Conn : todo'[d] \subseteq PeersOf(d)
    BY <1>1, TurnTypes DEF LookAt, PresenceInv
  <2>2. PresenceTypeOK'
    BY <1>1, <2>1 DEF LookAt, PresenceInv, PresenceTypeOK
  <2>3. TodoIsPeers'
    BY <2>1 DEF TodoIsPeers, PeersOf
  <2>4. stage' = stage /\ stage[c] = "state" /\ UNCHANGED <<clients, edge, told>>
    BY <1>1 DEF LookAt
  <2>5. \A d \in Conn : d # c => todo'[d] = todo[d]
    BY <2>1 DEF PresenceInv, PresenceTypeOK
  <2>6. QED BY <2>2, <2>3, <2>4, <2>5, QuietIInv
<1>2. ASSUME NEW c \in Conn, SendPresenceState(c) PROVE PresenceInv'
  <2> USE <1>2 DEF SendPresenceState, Goto, Visit
  <2>1. UserOf[c] \in User /\ [d \in Conn |-> online[c]] \in [Conn -> SUBSET User]
    BY DEF PresenceInv, PresenceTypeOK
  <2>2. dropped' \subseteq Conn /\ view' \in [Conn -> SUBSET User]
    BY <2>1, TellTypes DEF PresenceInv
  <2>3. PresenceTypeOK'
    BY <2>2 DEF PresenceInv, PresenceTypeOK, Stages, PeersOf
  <2>4. TodoIsPeers'
    BY DEF PresenceInv, PresenceTypeOK, TodoIsPeers, PeersOf
  <2>5. /\ \A d \in Conn : d # c => stage'[d] = stage[d] /\ todo'[d] = todo[d]
        /\ stage[c] = "state" /\ stage'[c] = "online" /\ edge[c] => todo'[c] = PeersOf(c)
        /\ UNCHANGED <<clients, edge, told>>
    BY DEF PresenceInv, PresenceTypeOK
  <2>6. stage'[c] = "online" /\ stage[c] = "state"
    BY DEF PresenceInv, PresenceTypeOK
  <2>7. QED BY <2>3, <2>4, <2>5, <2>6, QuietIInv
<1>3. ASSUME NEW c \in Conn, Serve(c) \/ ReadLoopReturns(c) \/ Return(c) PROVE PresenceInv'
  <2> USE <1>3 DEF Serve, ReadLoopReturns, Return, Goto
  <2>1. PresenceTypeOK'
    BY DEF PresenceInv, PresenceTypeOK, Stages
  <2>2. TodoIsPeers' /\ todo' = todo /\ UNCHANGED <<clients, edge, told>>
    BY DEF PresenceInv, TodoIsPeers, PeersOf
  <2>3. \A d \in Conn : d # c => stage'[d] = stage[d]
    BY DEF PresenceInv, PresenceTypeOK
  <2>4. (stage[c] \in {"online", "offline"} /\ todo[c] = {}) \/ stage[c] = "serving"
    OBVIOUS
  <2>5. QED BY <2>1, <2>2, <2>3, <2>4, QuietIInv
<1>4. CASE UNCHANGED presenceVars
  <2> USE <1>4 DEF presenceVars
  <2>1. PresenceTypeOK'
    BY DEF PresenceInv, PresenceTypeOK
  <2>2. TodoIsPeers'
    BY DEF PresenceInv, TodoIsPeers, PeersOf
  <2>3. OnlineIsAccounted'
    BY DEF PresenceInv, OnlineIsAccounted, Accounted
  <2>4. SilenceIsShort'
    BY DEF PresenceInv, SilenceIsShort, Announcing, IsOnline, ConnectionsOf
  <2>5. QED BY <2>1, <2>2, <2>3, <2>4 DEF PresenceInv
<1>5. QED
  BY <1>1, <1>2, <1>3, <1>4, RegisterIInv, UnregisterIInv, AnnounceIInv DEF PresenceNext, Handler

-----------------------------------------------------------------------------
\* What has been announced is accounted for by a connection or by a goroutine on its
\* way, for any connections and peers (handlers.go:60-92, 217-275).
THEOREM PresenceInvariant == ASSUME PresenceAssumption PROVE PresenceSpec => []PresenceInv
<1>1. PresenceInit => PresenceInv
  BY PresenceInitInv
<1>2. PresenceInv /\ [PresenceNext]_presenceVars => PresenceInv'
  BY PresenceNextInv
<1>3. QED BY <1>1, <1>2, PTL DEF PresenceSpec

\* What is announced in the end, of those who left and of those who are online.
LEMMA AnnouncedInTheEnd ==
  ASSUME PresenceAssumption, PresenceInv PROVE GhostsAreNotAnnounced /\ OnlineWasAnnounced
<1>1. GhostsAreNotAnnounced
  BY DEF PresenceInv, PresenceTypeOK, OnlineIsAccounted, Accounted, GhostsAreNotAnnounced, Idle, IsOnline, ConnectionsOf
<1>2. OnlineWasAnnounced
  BY DEF PresenceInv, PresenceTypeOK, SilenceIsShort, Announcing, OnlineWasAnnounced, Idle
<1>3. QED BY <1>1, <1>2

\* A user whose connections are gone is not left shown as online (handlers.go:82-92).
THEOREM PresenceNoGhosts == ASSUME PresenceAssumption PROVE PresenceSpec => []GhostsAreNotAnnounced
  BY PresenceInvariant, AnnouncedInTheEnd, PTL

\* A user who is online was announced to every peer, whichever of its connections saw
\* it come (handlers.go:60-70).
THEOREM PresenceAnnounced == ASSUME PresenceAssumption PROVE PresenceSpec => []OnlineWasAnnounced
  BY PresenceInvariant, AnnouncedInTheEnd, PTL

-----------------------------------------------------------------------------
(* The receipt cache: the inductive invariant                              *)

Before == {"new", "looking", "absent", "beginning"}
Running == {"leading", "closing"}

\* The map holds an entry under its own key, whose leader runs or has closed it, and a
\* leader loses its entry only by having it completed and closed for it.
EntriesOK ==
  /\ \A k \in EventKey : slot[k] # NoEntry =>
       /\ EventKeyOf[slot[k]] = k
       /\ at[slot[k]] \in Running \/ (at[slot[k]] = "answered" /\ slot[k] \in closed)
  /\ closed \subseteq completed
  /\ \A r \in completed : receipt[r] \in {r, InProgress}
  /\ \A r \in Req : at[r] = "leading" =>
       IF r \in completed THEN r \in closed /\ slot[EventKeyOf[r]] # r ELSE slot[EventKeyOf[r]] = r

\* What a request waits for, and what it has of it.
RequestsOK ==
  \A r \in Req :
    /\ at[r] \in Before \cup {"leading"} => entry[r] = NoEntry
    /\ at[r] \in Before => r \notin completed
    /\ entry[r] # NoEntry => EventKeyOf[entry[r]] = EventKeyOf[r]
    /\ at[r] = "waiting" =>
         entry[r] # NoEntry /\ (entry[r] \in closed \/ at[entry[r]] \in Running)
    /\ at[r] = "woken" => entry[r] \in closed
    /\ at[r] = "closing" => entry[r] = r /\ r \in completed

\* A claim is in the map, or its retention has run out, or it is known where it went.
Recorded ==
  \A r \in Req : expiresAt[r] > 0 => \/ slot[EventKeyOf[r]] = r
                                    \/ now >= expiresAt[r]
                                    \/ lost[r] # "no"
ClocksAreRead == \A r \in Req : seen[r] <= now

ReceiptInv == /\ ReceiptTypeOK /\ EntriesOK /\ RequestsOK /\ AnswersAreTheLeaders
        /\ Recorded /\ ClocksAreRead

-----------------------------------------------------------------------------
\* The cache starts empty.
LEMMA ReceiptInitInv == ASSUME ReceiptAssumption PROVE ReceiptInit => ReceiptInv
<1> SUFFICES ASSUME ReceiptInit PROVE ReceiptInv
  OBVIOUS
<1> USE DEF ReceiptInit, ReceiptAssumption
<1>1. ReceiptTypeOK
  BY DEF ReceiptTypeOK, ReceiptPC, Receipt, Refusals
<1>2. EntriesOK /\ RequestsOK /\ AnswersAreTheLeaders
  BY DEF EntriesOK, RequestsOK, AnswersAreTheLeaders, Before
<1>3. Recorded /\ ClocksAreRead
  BY DEF Recorded, ClocksAreRead
<1>4. QED BY <1>1, <1>2, <1>3 DEF ReceiptInv

\* What is dropped as stale has reached its expiry.
LEMMA DroppedIsDue ==
  ASSUME ReceiptAssumption, ReceiptInv, NEW r \in Req
  PROVE  /\ Stale(r) \subseteq EventKey /\ Dropped(r) \subseteq EventKey
         /\ \A k \in Dropped(r) \cup Stale(r) : slot[k] # NoEntry /\ now >= expiresAt[slot[k]]
  BY DEF ReceiptAssumption, ReceiptInv, ReceiptTypeOK, ClocksAreRead, Stale, Dropped

\* Entries that are dropped are completed and closed, or are being closed by their
\* leader, and no receipt that was there changes.
LEMMA ExpireKeeps ==
  ASSUME ReceiptAssumption, ReceiptInv, NEW keys \in SUBSET EventKey,
         \A k \in keys : slot[k] # NoEntry, Expire(keys)
  PROVE  /\ completed' = completed \cup {slot[k] : k \in keys}
         /\ closed' = closed \cup ({slot[k] : k \in keys} \ completed)
         /\ completed' \subseteq Req /\ closed' \subseteq completed'
         /\ receipt' \in [Req -> Receipt]
         /\ \A r \in completed : receipt'[r] = receipt[r]
         /\ \A r \in completed' : receipt'[r] \in {r, InProgress}
<1> USE DEF ReceiptAssumption, ReceiptInv, ReceiptTypeOK, EntriesOK, Expire
<1>1. {slot[k] : k \in keys} \subseteq Req
  OBVIOUS
<1>2. /\ completed' = completed \cup {slot[k] : k \in keys}
      /\ closed' = closed \cup ({slot[k] : k \in keys} \ completed)
  OBVIOUS
<1>3. receipt' \in [Req -> Receipt]
  BY DEF Receipt, Refusals
<1>4. QED BY <1>1, <1>2, <1>3

-----------------------------------------------------------------------------
(* One lemma for each group of actions.                                    *)

\* Reading the clock, and the clock itself.
LEMMA ClockIInv ==
  ASSUME ReceiptAssumption, ReceiptInv, Tick \/ \E r \in Req : ReadClock(r) PROVE ReceiptInv'
<1> USE DEF ReceiptAssumption, ReceiptInv
<1>1. CASE Tick
  BY <1>1 DEF Tick, entryVars, ReceiptTypeOK, EntriesOK, RequestsOK, AnswersAreTheLeaders, Recorded,
              ClocksAreRead
<1>2. ASSUME NEW r \in Req, ReadClock(r) PROVE ReceiptInv'
  <2> USE <1>2 DEF ReadClock, entryVars, Proceed
  <2>1. PICK to \in {"looking", "beginning"} : at' = [at EXCEPT ![r] = to]
    OBVIOUS
  <2>2. at[r] \in Before /\ to \in Before
    BY <2>1 DEF Before
  <2>3. ReceiptTypeOK'
    BY <2>1 DEF ReceiptTypeOK, ReceiptPC
  <2>4. EntriesOK' /\ RequestsOK' /\ AnswersAreTheLeaders'
    BY <2>1, <2>2 DEF ReceiptTypeOK, EntriesOK, RequestsOK, AnswersAreTheLeaders, Before, Running
  <2>5. Recorded' /\ ClocksAreRead'
    BY DEF ReceiptTypeOK, Recorded, ClocksAreRead
  <2>6. QED BY <2>3, <2>4, <2>5
<1>3. QED BY <1>1, <1>2

\* Dropping entries, as part of a step that claims none.
DropOnly(r, keys) ==
  /\ slot' = Without(keys) /\ Expire(keys) /\ Done(r)
  /\ UNCHANGED <<now, claimedAt, expiresAt, lost>>

\* It keeps what is said of entries and clocks.
LEMMA DropKeeps ==
  ASSUME ReceiptAssumption, ReceiptInv, NEW r \in Req, NEW keys \in SUBSET EventKey,
         \A k \in keys : slot[k] # NoEntry /\ now >= expiresAt[slot[k]],
         DropOnly(r, keys), at[r] \in Before,
         NEW to \in {"absent", "waiting", "answered"}, at' = [at EXCEPT ![r] = to]
  PROVE  EntriesOK' /\ Recorded' /\ ClocksAreRead'
<1> USE DEF DropOnly, Done, Without, ReceiptAssumption
<1>1. /\ completed' = completed \cup {slot[k] : k \in keys}
      /\ closed' = closed \cup ({slot[k] : k \in keys} \ completed)
      /\ completed' \subseteq Req /\ closed' \subseteq completed'
      /\ \A q \in completed' : receipt'[q] \in {q, InProgress}
  BY ExpireKeeps
<1>2. \A k \in EventKey : slot'[k] # NoEntry => slot'[k] = slot[k] /\ k \notin keys /\ slot[k] # r
  BY DEF ReceiptInv, ReceiptTypeOK, EntriesOK, Before, Running
<1>3. \A k \in EventKey : slot'[k] # NoEntry =>
        /\ EventKeyOf[slot'[k]] = k
        /\ at'[slot'[k]] \in Running \/ (at'[slot'[k]] = "answered" /\ slot'[k] \in closed')
  BY <1>1, <1>2 DEF ReceiptInv, ReceiptTypeOK, EntriesOK
<1>4. ASSUME NEW q \in Req, at'[q] = "leading"
      PROVE  IF q \in completed' THEN q \in closed' /\ slot'[EventKeyOf[q]] # q ELSE slot'[EventKeyOf[q]] = q
  <2>1. at[q] = "leading" /\ q # r
    BY <1>4 DEF ReceiptInv, ReceiptTypeOK
  <2>2. CASE q \in completed
    BY <1>1, <1>2, <2>1, <2>2 DEF ReceiptInv, ReceiptTypeOK, EntriesOK
  <2>3. CASE q \notin completed /\ EventKeyOf[q] \in keys
    BY <1>1, <2>1, <2>3 DEF ReceiptInv, ReceiptTypeOK, EntriesOK
  <2>4. CASE q \notin completed /\ EventKeyOf[q] \notin keys
    <3>1. slot[EventKeyOf[q]] = q /\ slot'[EventKeyOf[q]] = q
      BY <2>1, <2>4 DEF ReceiptInv, EntriesOK
    <3>2. q \notin {slot[k] : k \in keys}
      BY <2>4 DEF ReceiptInv, EntriesOK
    <3>3. QED BY <1>1, <2>4, <3>1, <3>2
  <2>5. QED BY <2>2, <2>3, <2>4
<1>5. EntriesOK'
  BY <1>1, <1>3, <1>4 DEF EntriesOK
<1>6. Recorded'
  BY DEF ReceiptInv, ReceiptTypeOK, Recorded
<1>7. ClocksAreRead'
  BY DEF ReceiptInv, ReceiptTypeOK, ClocksAreRead
<1>8. QED BY <1>5, <1>6, <1>7

\* Following an entry: it is there, and its leader runs or has closed it.
LEMMA FollowIInv ==
  ASSUME ReceiptAssumption, ReceiptInv, NEW r \in Req, LookupFound(r) \/ BeginFollow(r) PROVE ReceiptInv'
<1> USE DEF ReceiptAssumption
<1>1. PICK keys \in SUBSET EventKey :
        /\ Follow(r, keys) /\ sweptAt' \in Int
        /\ \A k \in keys : slot[k] # NoEntry /\ now >= expiresAt[slot[k]]
  BY DroppedIsDue DEF LookupFound, BeginFollow, SweepNow, ReceiptInv, ReceiptTypeOK
<1>2. at[r] \in Before
  BY DEF LookupFound, BeginFollow, Before
<1> DEFINE e == slot[EventKeyOf[r]]
<1>3. /\ at' = [at EXCEPT ![r] = "waiting"] /\ entry' = [entry EXCEPT ![r] = e]
      /\ e # NoEntry /\ e \in Req /\ EventKeyOf[r] \notin keys /\ EventKeyOf[e] = EventKeyOf[r]
      /\ answer' = answer /\ DropOnly(r, keys)
  BY <1>1 DEF Follow, Proceed, DropOnly, ReceiptInv, ReceiptTypeOK, EntriesOK
<1>4. EntriesOK' /\ Recorded' /\ ClocksAreRead'
  BY <1>1, <1>2, <1>3, DropKeeps
<1>5. /\ completed' = completed \cup {slot[k] : k \in keys}
      /\ closed' = closed \cup ({slot[k] : k \in keys} \ completed)
      /\ completed' \subseteq Req /\ closed' \subseteq completed'
      /\ receipt' \in [Req -> Receipt]
  BY <1>1, <1>3, ExpireKeeps DEF DropOnly
<1>6. ReceiptTypeOK'
  BY <1>1, <1>3, <1>5 DEF DropOnly, Without, Done, ReceiptInv, ReceiptTypeOK, ReceiptPC
<1>7. RequestsOK'
  <2> SUFFICES ASSUME NEW q \in Req
               PROVE  /\ at'[q] \in Before \cup {"leading"} => entry'[q] = NoEntry
                      /\ at'[q] \in Before => q \notin completed'
                      /\ entry'[q] # NoEntry => EventKeyOf[entry'[q]] = EventKeyOf[q]
                      /\ at'[q] = "waiting" =>
                           entry'[q] # NoEntry /\ (entry'[q] \in closed' \/ at'[entry'[q]] \in Running)
                      /\ at'[q] = "woken" => entry'[q] \in closed'
                      /\ at'[q] = "closing" => entry'[q] = q /\ q \in completed'
    BY DEF RequestsOK
  <2>1. CASE q = r
    <3>1. e \in closed' \/ at'[e] \in Running
      BY <1>2, <1>3, <1>5 DEF ReceiptInv, ReceiptTypeOK, EntriesOK, Before, Running
    <3>2. QED BY <1>3, <2>1, <3>1 DEF ReceiptInv, ReceiptTypeOK, Before
  <2>2. CASE q # r
    <3>1. at'[q] = at[q] /\ entry'[q] = entry[q]
      BY <1>3, <2>2 DEF ReceiptInv, ReceiptTypeOK
    <3>2. at[q] \in Before => q \notin {slot[k] : k \in keys}
      BY <1>1 DEF ReceiptInv, EntriesOK, Before, Running
    <3>3. at[q] = "waiting" => entry[q] \in closed \/ (entry[q] # r /\ at'[entry[q]] \in Running)
      BY <1>2, <1>3 DEF ReceiptInv, ReceiptTypeOK, RequestsOK, Before, Running
    <3>4. QED BY <1>5, <3>1, <3>2, <3>3 DEF ReceiptInv, RequestsOK
  <2>3. QED BY <2>1, <2>2
<1>8. AnswersAreTheLeaders'
  BY <1>3 DEF ReceiptInv, ReceiptTypeOK, AnswersAreTheLeaders
<1>9. QED BY <1>4, <1>6, <1>7, <1>8 DEF ReceiptInv

\* Finding nothing, or no room.
LEMMA RefusedIInv ==
  ASSUME ReceiptAssumption, ReceiptInv, NEW r \in Req, LookupAbsent(r) \/ BeginFull(r) PROVE ReceiptInv'
<1> USE DEF ReceiptAssumption
<1>1. PICK keys \in SUBSET EventKey :
        /\ DropOnly(r, keys) /\ sweptAt' \in Int /\ entry' = entry
        /\ \A k \in keys : slot[k] # NoEntry /\ now >= expiresAt[slot[k]]
  BY DroppedIsDue DEF LookupAbsent, BeginFull, SweepNow, DropOnly, ReceiptInv, ReceiptTypeOK
<1>2. at[r] \in Before
  BY DEF LookupAbsent, BeginFull, Before
<1>3. PICK to \in {"absent", "answered"} :
        /\ at' = [at EXCEPT ![r] = to]
        /\ answer' = IF to = "answered" THEN [answer EXCEPT ![r] = CacheFull] ELSE answer
  BY DEF LookupAbsent, BeginFull, Proceed, Answer
<1>4. EntriesOK' /\ Recorded' /\ ClocksAreRead'
  BY <1>1, <1>2, <1>3, DropKeeps
<1>5. /\ completed' = completed \cup {slot[k] : k \in keys}
      /\ closed' = closed \cup ({slot[k] : k \in keys} \ completed)
      /\ completed' \subseteq Req /\ closed' \subseteq completed'
      /\ receipt' \in [Req -> Receipt]
  BY <1>1, ExpireKeeps DEF DropOnly
<1>6. ReceiptTypeOK'
  BY <1>1, <1>3, <1>5 DEF DropOnly, Without, Done, ReceiptInv, ReceiptTypeOK, ReceiptPC, Receipt, Refusals
<1>7. RequestsOK'
  <2> SUFFICES ASSUME NEW q \in Req
               PROVE  /\ at'[q] \in Before \cup {"leading"} => entry'[q] = NoEntry
                      /\ at'[q] \in Before => q \notin completed'
                      /\ entry'[q] # NoEntry => EventKeyOf[entry'[q]] = EventKeyOf[q]
                      /\ at'[q] = "waiting" =>
                           entry'[q] # NoEntry /\ (entry'[q] \in closed' \/ at'[entry'[q]] \in Running)
                      /\ at'[q] = "woken" => entry'[q] \in closed'
                      /\ at'[q] = "closing" => entry'[q] = q /\ q \in completed'
    BY DEF RequestsOK
  <2>1. at[q] \in Before => q \notin {slot[k] : k \in keys}
    BY <1>1 DEF ReceiptInv, EntriesOK, Before, Running
  <2>2. at[q] = "waiting" => entry[q] \in closed \/ (entry[q] # r /\ at'[entry[q]] \in Running)
    BY <1>2, <1>3 DEF ReceiptInv, ReceiptTypeOK, RequestsOK, Before, Running
  <2>3. CASE q = r
    BY <1>1, <1>2, <1>3, <1>5, <2>1, <2>3 DEF ReceiptInv, ReceiptTypeOK, RequestsOK, Before
  <2>4. CASE q # r
    <3>1. at'[q] = at[q] /\ entry'[q] = entry[q]
      BY <1>1, <1>3, <2>4 DEF ReceiptInv, ReceiptTypeOK
    <3>2. QED BY <1>5, <2>1, <2>2, <3>1 DEF ReceiptInv, RequestsOK
  <2>5. QED BY <2>3, <2>4
<1>8. AnswersAreTheLeaders'
  <2>1. entry[r] = NoEntry
    BY <1>2 DEF ReceiptInv, RequestsOK
  <2>2. QED BY <1>1, <1>3, <2>1 DEF ReceiptInv, ReceiptTypeOK, AnswersAreTheLeaders
<1>9. QED BY <1>4, <1>6, <1>7, <1>8 DEF ReceiptInv

\* What the leader of a new claim finds: its key has no entry left, and what was
\* evicted for it was completed and closed.
LEMMA ClaimFinds ==
  ASSUME ReceiptAssumption, ReceiptInv, NEW r \in Req, BeginLead(r)
  PROVE  \E d \in SUBSET EventKey, e \in SUBSET EventKey :
           /\ d = Dropped(r)
           /\ e \subseteq Occupied(d)
           /\ \A k \in d : slot[k] # NoEntry /\ now >= expiresAt[slot[k]]
           /\ \A k \in e : slot[k] # NoEntry /\ slot[k] \in completed /\ k \notin d
           /\ EventKeyOf[r] \in d \/ slot[EventKeyOf[r]] = NoEntry
           /\ Room(Occupied(d)) \/ e # {}
           /\ slot' = [k \in EventKey |-> IF k = EventKeyOf[r] THEN r
                                     ELSE IF k \in d \cup e THEN NoEntry ELSE slot[k]]
           /\ lost' = [q \in Req |-> IF q \in {slot[k] : k \in e} THEN "evicted" ELSE lost[q]]
           /\ Expire(d)
<1> USE DEF ReceiptAssumption
<1>1. PICK e \in IF Room(Occupied(Dropped(r))) THEN {{}} ELSE Victims(Occupied(Dropped(r))) :
        /\ slot' = [Without(Dropped(r) \cup e) EXCEPT ![EventKeyOf[r]] = r]
        /\ lost' = [q \in Req |-> IF q \in {slot[k] : k \in e} THEN "evicted" ELSE lost[q]]
  BY DEF BeginLead
<1>2. /\ e \subseteq {k \in Occupied(Dropped(r)) : slot[k] \in completed}
      /\ Room(Occupied(Dropped(r))) \/ e # {}
  BY DEF Victims
<1>3. e \in SUBSET EventKey /\ \A k \in e : slot[k] # NoEntry /\ slot[k] \in completed /\ k \notin Dropped(r)
  BY <1>2 DEF Occupied
<1>4. Dropped(r) \in SUBSET EventKey /\ \A k \in Dropped(r) : slot[k] # NoEntry /\ now >= expiresAt[slot[k]]
  BY DroppedIsDue
<1>5. slot' = [k \in EventKey |-> IF k = EventKeyOf[r] THEN r
                             ELSE IF k \in Dropped(r) \cup e THEN NoEntry ELSE slot[k]]
  BY <1>1 DEF Without
<1>6. (EventKeyOf[r] \in Dropped(r) \/ slot[EventKeyOf[r]] = NoEntry) /\ Expire(Dropped(r))
  BY DEF BeginLead, Unknown
<1>7. QED BY <1>1, <1>2, <1>3, <1>4, <1>5, <1>6

\* A claim: the entry is new under its key, and nobody in flight lost its own unexpired.
LEMMA BeginLeadIInv ==
  ASSUME ReceiptAssumption, ReceiptInv, NEW r \in Req, BeginLead(r) PROVE ReceiptInv'
<1> USE DEF ReceiptAssumption
<1>1. PICK d \in SUBSET EventKey, e \in SUBSET EventKey :
        /\ \A k \in d : slot[k] # NoEntry /\ now >= expiresAt[slot[k]]
        /\ \A k \in e : slot[k] # NoEntry /\ slot[k] \in completed /\ k \notin d
        /\ EventKeyOf[r] \in d \/ slot[EventKeyOf[r]] = NoEntry
        /\ slot' = [k \in EventKey |-> IF k = EventKeyOf[r] THEN r
                                  ELSE IF k \in d \cup e THEN NoEntry ELSE slot[k]]
        /\ lost' = [q \in Req |-> IF q \in {slot[k] : k \in e} THEN "evicted" ELSE lost[q]]
        /\ Expire(d)
  BY ClaimFinds
<1>2. /\ completed' = completed \cup {slot[k] : k \in d}
      /\ closed' = closed \cup ({slot[k] : k \in d} \ completed)
      /\ completed' \subseteq Req /\ closed' \subseteq completed'
      /\ receipt' \in [Req -> Receipt]
      /\ \A q \in completed' : receipt'[q] \in {q, InProgress}
  BY <1>1, ExpireKeeps
<1>3. /\ at[r] = "beginning" /\ at' = [at EXCEPT ![r] = "leading"]
      /\ claimedAt' = [claimedAt EXCEPT ![r] = seen[r]]
      /\ expiresAt' = [expiresAt EXCEPT ![r] = seen[r] + Retain]
      /\ seen' = [seen EXCEPT ![r] = 0]
      /\ UNCHANGED <<now, entry, answer>>
      /\ sweptAt' \in {sweptAt, seen[r]}
  BY DEF BeginLead, Proceed, Done, SweepNow
<1>4. \A k \in EventKey : slot[k] # r
  BY <1>3 DEF ReceiptInv, EntriesOK, Running
<1>5. ReceiptTypeOK'
  BY <1>1, <1>2, <1>3 DEF ReceiptInv, ReceiptTypeOK, ReceiptPC
<1>6. r \notin completed' /\ entry[r] = NoEntry
  BY <1>2, <1>3, <1>4 DEF ReceiptInv, RequestsOK, Before
<1>7. ASSUME NEW k \in EventKey, slot'[k] # NoEntry
      PROVE  /\ EventKeyOf[slot'[k]] = k
             /\ at'[slot'[k]] \in Running \/ (at'[slot'[k]] = "answered" /\ slot'[k] \in closed')
  BY <1>1, <1>2, <1>3, <1>4, <1>7 DEF ReceiptInv, ReceiptTypeOK, EntriesOK, Running
<1>8. ASSUME NEW q \in Req, at'[q] = "leading"
      PROVE  IF q \in completed' THEN q \in closed' /\ slot'[EventKeyOf[q]] # q ELSE slot'[EventKeyOf[q]] = q
  <2>1. CASE q = r
    BY <1>1, <1>6, <2>1
  <2>2. CASE q # r
    <3>1. at[q] = "leading"
      BY <1>3, <1>8, <2>2 DEF ReceiptInv, ReceiptTypeOK
    <3>2. CASE q \in completed
      BY <1>1, <1>2, <2>2, <3>1, <3>2 DEF ReceiptInv, EntriesOK
    <3>3. CASE q \notin completed
      <4>1. slot[EventKeyOf[q]] = q /\ EventKeyOf[q] \notin e
        BY <1>1, <3>1, <3>3 DEF ReceiptInv, EntriesOK
      <4>2. CASE EventKeyOf[q] \in d
        BY <1>1, <1>2, <2>2, <3>3, <4>1, <4>2 DEF ReceiptInv, ReceiptTypeOK
      <4>3. CASE EventKeyOf[q] \notin d
        <5>1. q \notin {slot[k] : k \in d}
          BY <4>3 DEF ReceiptInv, EntriesOK, ReceiptTypeOK
        <5>2. EventKeyOf[q] # EventKeyOf[r]
          BY <1>1, <4>1, <4>3
        <5>3. QED BY <1>1, <1>2, <3>3, <4>1, <4>3, <5>1, <5>2
      <4>4. QED BY <4>2, <4>3
    <3>4. QED BY <3>2, <3>3
  <2>3. QED BY <2>1, <2>2
<1>9. EntriesOK'
  BY <1>2, <1>7, <1>8 DEF EntriesOK
<1>10. RequestsOK'
  <2> SUFFICES ASSUME NEW q \in Req
               PROVE  /\ at'[q] \in Before \cup {"leading"} => entry'[q] = NoEntry
                      /\ at'[q] \in Before => q \notin completed'
                      /\ entry'[q] # NoEntry => EventKeyOf[entry'[q]] = EventKeyOf[q]
                      /\ at'[q] = "waiting" =>
                           entry'[q] # NoEntry /\ (entry'[q] \in closed' \/ at'[entry'[q]] \in Running)
                      /\ at'[q] = "woken" => entry'[q] \in closed'
                      /\ at'[q] = "closing" => entry'[q] = q /\ q \in completed'
    BY DEF RequestsOK
  <2>1. at[q] \in Before => q \notin {slot[k] : k \in d}
    BY <1>1 DEF ReceiptInv, EntriesOK, Before, Running
  <2>2. at[q] = "waiting" => entry[q] \in closed \/ (entry[q] # r /\ at'[entry[q]] \in Running)
    BY <1>3 DEF ReceiptInv, ReceiptTypeOK, RequestsOK, Running
  <2>3. CASE q = r
    BY <1>3, <1>6, <2>3 DEF ReceiptInv, ReceiptTypeOK, Before
  <2>4. CASE q # r
    <3>1. at'[q] = at[q] /\ entry'[q] = entry[q]
      BY <1>3, <2>4 DEF ReceiptInv, ReceiptTypeOK
    <3>2. QED BY <1>2, <2>1, <2>2, <3>1 DEF ReceiptInv, RequestsOK
  <2>5. QED BY <2>3, <2>4
<1>11. AnswersAreTheLeaders'
  BY <1>3 DEF ReceiptInv, ReceiptTypeOK, AnswersAreTheLeaders
<1>12. Recorded'
  <2> SUFFICES ASSUME NEW q \in Req, expiresAt'[q] > 0
               PROVE  slot'[EventKeyOf[q]] = q \/ now' >= expiresAt'[q] \/ lost'[q] # "no"
    BY DEF Recorded
  <2>1. CASE q = r
    BY <1>1, <2>1
  <2>2. CASE q # r
    <3>1. expiresAt'[q] = expiresAt[q] /\ now' = now
      BY <1>3, <2>2 DEF ReceiptInv, ReceiptTypeOK
    <3>2. slot[EventKeyOf[q]] = q \/ now >= expiresAt[q] \/ lost[q] # "no"
      BY <3>1 DEF ReceiptInv, Recorded
    <3>3. CASE slot[EventKeyOf[q]] = q
      BY <1>1, <2>2, <3>1, <3>3
    <3>4. CASE slot[EventKeyOf[q]] # q
      BY <1>1, <3>1, <3>2, <3>4
    <3>5. QED BY <3>3, <3>4
  <2>3. QED BY <2>1, <2>2
<1>13. ClocksAreRead'
  BY <1>3 DEF ReceiptInv, ReceiptTypeOK, ClocksAreRead
<1>14. QED BY <1>5, <1>9, <1>10, <1>11, <1>12, <1>13 DEF ReceiptInv

\* Publish and Abandon record the outcome in the entry of the leader itself.
LEMMA RecordIInv ==
  ASSUME ReceiptAssumption, ReceiptInv, NEW r \in Req, Publish(r) \/ Abandon(r) PROVE ReceiptInv'
<1> USE DEF ReceiptAssumption
<1>1. /\ at[r] = "leading" /\ slot[EventKeyOf[r]] = r
      /\ receipt' = [receipt EXCEPT ![r] = r] /\ completed' = completed \cup {r}
      /\ entry' = [entry EXCEPT ![r] = r] /\ at' = [at EXCEPT ![r] = "closing"]
      /\ UNCHANGED <<now, sweptAt, claimedAt, expiresAt, closed, seen, answer>>
  BY DEF Publish, Abandon, Record, Owns, Proceed
<1>2. \/ UNCHANGED <<slot, lost>>
      \/ slot' = [slot EXCEPT ![EventKeyOf[r]] = NoEntry] /\ lost' = [lost EXCEPT ![r] = "abandoned"]
  BY <1>1 DEF Publish, Abandon
<1>3. ReceiptTypeOK'
  BY <1>1, <1>2 DEF ReceiptInv, ReceiptTypeOK, ReceiptPC, Receipt
<1>4. EntriesOK'
  <2>1. \A k \in EventKey : slot'[k] # NoEntry => slot'[k] = slot[k]
    BY <1>2 DEF ReceiptInv, ReceiptTypeOK
  <2>2. \A k \in EventKey : slot'[k] # NoEntry =>
          /\ EventKeyOf[slot'[k]] = k
          /\ at'[slot'[k]] \in Running \/ (at'[slot'[k]] = "answered" /\ slot'[k] \in closed')
    BY <1>1, <2>1 DEF ReceiptInv, ReceiptTypeOK, EntriesOK, Running
  <2>3. \A q \in completed' : receipt'[q] \in {q, InProgress}
    BY <1>1 DEF ReceiptInv, ReceiptTypeOK, EntriesOK
  <2>4. \A q \in Req : at'[q] = "leading" =>
          IF q \in completed' THEN q \in closed' /\ slot'[EventKeyOf[q]] # q ELSE slot'[EventKeyOf[q]] = q
    BY <1>1, <1>2 DEF ReceiptInv, ReceiptTypeOK, EntriesOK
  <2>5. QED BY <1>1, <2>2, <2>3, <2>4 DEF ReceiptInv, EntriesOK
<1>5. RequestsOK'
  BY <1>1 DEF ReceiptInv, ReceiptTypeOK, RequestsOK, Before, Running
<1>6. AnswersAreTheLeaders' /\ ClocksAreRead'
  BY <1>1 DEF ReceiptInv, ReceiptTypeOK, AnswersAreTheLeaders, ClocksAreRead
<1>7. Recorded'
  BY <1>1, <1>2 DEF ReceiptInv, ReceiptTypeOK, Recorded
<1>8. QED BY <1>3, <1>4, <1>5, <1>6, <1>7 DEF ReceiptInv

\* A leader without its entry, the closing of a channel, and the followers.
LEMMA AnswerIInv ==
  ASSUME ReceiptAssumption, ReceiptInv, NEW r \in Req,
         PublishStale(r) \/ Close(r) \/ Wake(r) \/ ReadReceipt(r) \/ GiveUp(r)
  PROVE  ReceiptInv'
<1> USE DEF ReceiptAssumption, entryVars, Proceed, Answer
<1>1. /\ UNCHANGED <<now, sweptAt, slot, claimedAt, expiresAt, completed, receipt, seen, entry, lost>>
      /\ \E to \in {"answered", "woken"} : at' = [at EXCEPT ![r] = to]
      /\ closed' = closed \/ (at[r] = "closing" /\ closed' = closed \cup {entry[r]})
  BY DEF PublishStale, Close, Wake, ReadReceipt, GiveUp
<1>2. answer' = answer \/ \E a \in Receipt : answer' = [answer EXCEPT ![r] = a]
  BY DEF PublishStale, Close, Wake, ReadReceipt, GiveUp, ReceiptInv, ReceiptTypeOK, RequestsOK, EntriesOK,
         Receipt, Refusals
<1>3. closed \subseteq closed' /\ closed' \subseteq completed
  BY <1>1 DEF ReceiptInv, RequestsOK, EntriesOK
<1>4. ReceiptTypeOK'
  BY <1>1, <1>2, <1>3 DEF ReceiptInv, ReceiptTypeOK, ReceiptPC
<1>5. EntriesOK'
  <2>1. \A k \in EventKey : slot[k] # NoEntry =>
          /\ EventKeyOf[slot[k]] = k
          /\ at'[slot[k]] \in Running \/ (at'[slot[k]] = "answered" /\ slot[k] \in closed')
    <3>1. CASE PublishStale(r)
      BY <3>1, <1>3 DEF PublishStale, Owns, ReceiptInv, ReceiptTypeOK, EntriesOK, Running
    <3>2. CASE Close(r)
      BY <3>2, <1>3 DEF Close, ReceiptInv, ReceiptTypeOK, EntriesOK, RequestsOK, Running
    <3>3. CASE Wake(r) \/ ReadReceipt(r) \/ GiveUp(r)
      BY <3>3, <1>1, <1>3 DEF Wake, ReadReceipt, GiveUp, ReceiptInv, ReceiptTypeOK, EntriesOK, Running
    <3>4. QED BY <3>1, <3>2, <3>3
  <2>2. QED BY <1>1, <1>3, <2>1 DEF ReceiptInv, ReceiptTypeOK, EntriesOK
<1>6. RequestsOK'
  <2>1. CASE PublishStale(r)
    BY <2>1, <1>3 DEF PublishStale, Owns, ReceiptInv, ReceiptTypeOK, EntriesOK, RequestsOK, Before, Running
  <2>2. CASE Close(r)
    BY <2>2, <1>3 DEF Close, ReceiptInv, ReceiptTypeOK, RequestsOK, Before, Running
  <2>3. CASE Wake(r)
    BY <2>3 DEF Wake, ReceiptInv, ReceiptTypeOK, RequestsOK, Before, Running
  <2>4. CASE ReadReceipt(r) \/ GiveUp(r)
    BY <2>4 DEF ReadReceipt, GiveUp, ReceiptInv, ReceiptTypeOK, RequestsOK, Before, Running
  <2>5. QED BY <2>1, <2>2, <2>3, <2>4
<1>7. AnswersAreTheLeaders'
  <2>1. CASE PublishStale(r)
    BY <2>1 DEF PublishStale, ReceiptInv, ReceiptTypeOK, RequestsOK, AnswersAreTheLeaders
  <2>2. CASE Close(r)
    BY <2>2 DEF Close, ReceiptInv, ReceiptTypeOK, RequestsOK, AnswersAreTheLeaders
  <2>3. CASE Wake(r)
    BY <2>3 DEF Wake, ReceiptInv, ReceiptTypeOK, AnswersAreTheLeaders
  <2>4. CASE ReadReceipt(r)
    BY <2>4 DEF ReadReceipt, ReceiptInv, ReceiptTypeOK, EntriesOK, RequestsOK, AnswersAreTheLeaders
  <2>5. CASE GiveUp(r)
    BY <2>5 DEF GiveUp, ReceiptInv, ReceiptTypeOK, AnswersAreTheLeaders
  <2>6. QED BY <2>1, <2>2, <2>3, <2>4, <2>5
<1>8. Recorded' /\ ClocksAreRead'
  BY <1>1 DEF ReceiptInv, Recorded, ClocksAreRead
<1>9. QED BY <1>4, <1>5, <1>6, <1>7, <1>8 DEF ReceiptInv

\* Every step keeps the invariant.
LEMMA ReceiptNextInv == ASSUME ReceiptAssumption, ReceiptInv, [ReceiptNext]_receiptVars PROVE ReceiptInv'
<1>1. CASE UNCHANGED receiptVars
  BY <1>1 DEF receiptVars, entryVars, ReceiptInv, ReceiptTypeOK, EntriesOK, RequestsOK, AnswersAreTheLeaders, Recorded,
              ClocksAreRead
<1>2. CASE ReceiptNext
  BY <1>2, ClockIInv, FollowIInv, RefusedIInv, BeginLeadIInv, RecordIInv, AnswerIInv
  DEF ReceiptNext, Lookup, Begin, Lead
<1>3. QED BY <1>1, <1>2

-----------------------------------------------------------------------------
\* Entries, requests and the times they were read agree, for any deliveries.
THEOREM ReceiptInvariant == ASSUME ReceiptAssumption PROVE ReceiptSpec => []ReceiptInv
<1>1. ReceiptInit => ReceiptInv
  BY ReceiptInitInv
<1>2. ReceiptInv /\ [ReceiptNext]_receiptVars => ReceiptInv'
  BY ReceiptNextInv
<1>3. QED BY <1>1, <1>2, PTL DEF ReceiptSpec

\* A follower is told its own leader's outcome, or that it is unknown (receipts.go:254).
THEOREM ReceiptAnswers == ASSUME ReceiptAssumption PROVE ReceiptSpec => []AnswersAreTheLeaders
<1>1. ReceiptInv => AnswersAreTheLeaders
  BY DEF ReceiptInv
<1>2. QED BY <1>1, ReceiptInvariant, PTL

\* A follower never depends on its timer once its leader is done (receipts.go:205-252).
THEOREM ReceiptFollowersReleased == ASSUME ReceiptAssumption PROVE ReceiptSpec => []FollowersAreReleased
<1>1. ReceiptInv => FollowersAreReleased
  BY DEF ReceiptInv, RequestsOK, Running, FollowersAreReleased
<1>2. QED BY <1>1, ReceiptInvariant, PTL

-----------------------------------------------------------------------------
(* What a step never does                                                  *)

\* No step touches the receipt of a completed entry.
LEMMA StepFinal == ASSUME ReceiptAssumption, ReceiptInv, ReceiptNext PROVE Final
<1> USE DEF ReceiptAssumption, Final
<1>1. ASSUME NEW r \in Req, LookupFound(r) \/ BeginFollow(r) PROVE Final
  <2>1. PICK keys \in SUBSET EventKey : Expire(keys) /\ \A k \in keys : slot[k] # NoEntry
    BY <1>1, DroppedIsDue DEF LookupFound, BeginFollow, Follow
  <2>2. QED BY <2>1, ExpireKeeps
<1>2. ASSUME NEW r \in Req, LookupAbsent(r) \/ BeginFull(r) PROVE Final
  <2>1. PICK keys \in SUBSET EventKey : Expire(keys) /\ \A k \in keys : slot[k] # NoEntry
    BY <1>2, DroppedIsDue DEF LookupAbsent, BeginFull
  <2>2. QED BY <2>1, ExpireKeeps
<1>3. ASSUME NEW r \in Req, BeginLead(r) PROVE Final
  <2>1. PICK keys \in SUBSET EventKey : Expire(keys) /\ \A k \in keys : slot[k] # NoEntry
    BY <1>3, ClaimFinds
  <2>2. QED BY <2>1, ExpireKeeps
<1>4. ASSUME NEW r \in Req, Publish(r) \/ Abandon(r) PROVE Final
  <2>1. r \notin completed
    BY <1>4 DEF Publish, Abandon, Record, Owns, ReceiptInv, EntriesOK
  <2>2. receipt' = [receipt EXCEPT ![r] = r] /\ completed' = completed \cup {r}
    BY <1>4 DEF Publish, Abandon, Record, Owns
  <2>3. QED BY <2>1, <2>2 DEF ReceiptInv, ReceiptTypeOK
<1>5. ASSUME NEW r \in Req,
             ReadClock(r) \/ PublishStale(r) \/ Close(r) \/ Wake(r) \/ ReadReceipt(r) \/ GiveUp(r)
      PROVE  Final
  BY <1>5 DEF ReadClock, PublishStale, Close, Wake, ReadReceipt, GiveUp, entryVars
<1>6. CASE Tick
  BY <1>6 DEF Tick, entryVars
<1>7. QED BY <1>1, <1>2, <1>3, <1>4, <1>5, <1>6 DEF ReceiptNext, Lookup, Begin, Lead

\* Only a claim makes a leader, and it finds its key without an entry that counts.
LEMMA StepExplained == ASSUME ReceiptAssumption, ReceiptInv, ReceiptNext PROVE Explained
<1> USE DEF ReceiptAssumption
<1> SUFFICES ASSUME NEW r \in Req, NEW q \in Req, at[r] = "beginning", at'[r] = "leading",
                    q # r, EventKeyOf[q] = EventKeyOf[r], expiresAt[q] > 0
             PROVE  now >= expiresAt[q] \/ lost'[q] # "no"
  BY DEF Explained
<1>1. BeginLead(r)
  <2>1. ASSUME NEW p \in Req, Lookup(p) \/ BeginFollow(p) \/ BeginFull(p) PROVE FALSE
    <3>1. \E to \in {"waiting", "absent", "answered"} : at' = [at EXCEPT ![p] = to]
      BY <2>1 DEF Lookup, LookupFound, LookupAbsent, BeginFollow, BeginFull, Follow, Proceed, Answer
    <3>2. QED BY <3>1 DEF ReceiptInv, ReceiptTypeOK
  <2>2. ASSUME NEW p \in Req, Lead(p) \/ Wake(p) \/ ReadReceipt(p) \/ GiveUp(p) PROVE FALSE
    <3>1. \E to \in {"closing", "answered", "woken"} : at' = [at EXCEPT ![p] = to]
      BY <2>2 DEF Lead, Publish, Abandon, Record, PublishStale, Close, Wake, ReadReceipt, GiveUp,
                  Proceed, Answer
    <3>2. QED BY <3>1 DEF ReceiptInv, ReceiptTypeOK
  <2>3. ASSUME NEW p \in Req, ReadClock(p) PROVE FALSE
    <3>1. \E to \in {"looking", "beginning"} : at' = [at EXCEPT ![p] = to]
      BY <2>3 DEF ReadClock, Proceed
    <3>2. QED BY <3>1 DEF ReceiptInv, ReceiptTypeOK
  <2>4. ASSUME NEW p \in Req, BeginLead(p) PROVE p = r
    BY <2>4 DEF BeginLead, Proceed, ReceiptInv, ReceiptTypeOK
  <2>5. ~Tick
    BY DEF Tick
  <2>6. QED BY <2>1, <2>2, <2>3, <2>4, <2>5 DEF ReceiptNext, Begin
<1>2. PICK d \in SUBSET EventKey, e \in SUBSET EventKey :
        /\ \A k \in d : slot[k] # NoEntry /\ now >= expiresAt[slot[k]]
        /\ EventKeyOf[r] \in d \/ slot[EventKeyOf[r]] = NoEntry
        /\ lost' = [p \in Req |-> IF p \in {slot[k] : k \in e} THEN "evicted" ELSE lost[p]]
  BY <1>1, ClaimFinds
<1>3. slot[EventKeyOf[q]] = q \/ now >= expiresAt[q] \/ lost[q] # "no"
  BY DEF ReceiptInv, Recorded
<1>4. QED BY <1>2, <1>3 DEF ReceiptInv, ReceiptTypeOK

\* What the first attempt published is never replaced (receipts.go:205-252).
THEOREM ReceiptsStayFinal == ASSUME ReceiptAssumption PROVE ReceiptSpec => ReceiptsAreFinal
<1>1. ASSUME ReceiptAssumption, ReceiptInv, [ReceiptNext]_receiptVars PROVE [Final]_receiptVars
  BY <1>1, StepFinal
<1>2. QED BY <1>1, ReceiptInvariant, PTL DEF ReceiptSpec, ReceiptsAreFinal

\* A second delivery of an event is one whose first record ran out, was evicted or was
\* abandoned (receipts.go:148-203).
THEOREM ReceiptRedelivery == ASSUME ReceiptAssumption PROVE ReceiptSpec => RedeliveryIsExplained
<1>1. ASSUME ReceiptAssumption, ReceiptInv, [ReceiptNext]_receiptVars PROVE [Explained]_receiptVars
  BY <1>1, StepExplained
<1>2. QED BY <1>1, ReceiptInvariant, PTL DEF ReceiptSpec, RedeliveryIsExplained

-----------------------------------------------------------------------------
(* The capacity                                                            *)

WithinCapacity == Cardinality(Occupied({})) <= Capacity

\* Fewer keys held are no more than before.
LEMMA HeldShrinks ==
  ASSUME ReceiptAssumption, WithinCapacity, Occupied({})' \subseteq Occupied({}) PROVE WithinCapacity'
<1>1. IsFiniteSet(Occupied({}))
  BY FS_Subset DEF ReceiptAssumption, Occupied
<1>2. /\ Cardinality(Occupied({})') <= Cardinality(Occupied({}))
      /\ Cardinality(Occupied({})') \in Nat /\ Cardinality(Occupied({})) \in Nat
  BY <1>1, FS_Subset, FS_CardinalityType
<1>3. QED BY <1>2 DEF WithinCapacity, ReceiptAssumption

\* A claim is made with room for it: what it evicts, if there was none, leaves some.
LEMMA ClaimFits ==
  ASSUME ReceiptAssumption, ReceiptInv, WithinCapacity, NEW r \in Req, BeginLead(r)
  PROVE  WithinCapacity'
<1> USE DEF ReceiptAssumption
<1>1. PICK d \in SUBSET EventKey, e \in SUBSET EventKey :
        /\ d = Dropped(r) /\ e \subseteq Occupied(d)
        /\ \A k \in d : slot[k] # NoEntry
        /\ Room(Occupied(d)) \/ e # {}
        /\ slot' = [k \in EventKey |-> IF k = EventKeyOf[r] THEN r
                                  ELSE IF k \in d \cup e THEN NoEntry ELSE slot[k]]
  BY ClaimFinds
<1>2. IsFiniteSet(Occupied({})) /\ Occupied(d) \subseteq Occupied({})
  BY FS_Subset DEF Occupied
<1>3. /\ IsFiniteSet(Occupied(d)) /\ Cardinality(Occupied(d)) \in Nat
      /\ Cardinality(Occupied(d)) <= Capacity
  <2>1. IsFiniteSet(Occupied(d)) /\ Cardinality(Occupied(d)) <= Cardinality(Occupied({}))
    BY <1>2, FS_Subset
  <2>2. Cardinality(Occupied(d)) \in Nat /\ Cardinality(Occupied({})) \in Nat
    BY <1>2, <2>1, FS_CardinalityType
  <2>3. QED BY <2>1, <2>2 DEF WithinCapacity
<1>4. IsFiniteSet(Occupied(d) \ e) /\ Cardinality(Occupied(d) \ e) \in Nat
  BY <1>3, FS_Difference, FS_CardinalityType
<1>5. Cardinality(Occupied(d) \ e) < Capacity
  <2>1. CASE Room(Occupied(d))
    <3>1. Cardinality(Occupied(d) \ e) <= Cardinality(Occupied(d))
      BY <1>3, FS_Subset
    <3>2. QED BY <1>3, <1>4, <2>1, <3>1 DEF Room
  <2>2. CASE e # {}
    <3>1. PICK k \in e : k \in Occupied(d)
      BY <1>1, <2>2
    <3>2. IsFiniteSet(Occupied(d) \ {k}) /\ Cardinality(Occupied(d) \ {k}) = Cardinality(Occupied(d)) - 1
      BY <1>3, <3>1, FS_RemoveElement
    <3>3. Cardinality(Occupied(d) \ e) <= Cardinality(Occupied(d) \ {k})
      BY <3>1, <3>2, FS_Subset
    <3>4. QED BY <1>3, <1>4, <3>2, <3>3
  <2>3. QED BY <1>1, <2>1, <2>2
<1>6. Occupied({})' = (Occupied(d) \ e) \cup {EventKeyOf[r]}
  <2>1. \A k \in EventKey : slot'[k] # NoEntry <=> k = EventKeyOf[r] \/ (k \notin d \cup e /\ slot[k] # NoEntry)
    BY <1>1
  <2>2. Occupied({})' = {k \in EventKey : slot'[k] # NoEntry}
    BY DEF Occupied
  <2>3. Occupied(d) = {k \in EventKey : k \notin d /\ slot[k] # NoEntry}
    BY DEF Occupied
  <2>4. EventKeyOf[r] \in EventKey
    OBVIOUS
  <2>5. QED BY <2>1, <2>2, <2>3, <2>4
<1>7. Cardinality(Occupied({})') <= Cardinality(Occupied(d) \ e) + 1
  <2> DEFINE kept == Occupied(d) \ e
  <2>1. IsFiniteSet(kept) /\ Cardinality(kept) \in Nat
    BY <1>4
  <2> HIDE DEF kept
  <2>2. Cardinality(kept \cup {EventKeyOf[r]}) =
          IF EventKeyOf[r] \in kept THEN Cardinality(kept) ELSE Cardinality(kept) + 1
    BY <2>1, FS_AddElement
  <2>3. Cardinality(kept \cup {EventKeyOf[r]}) <= Cardinality(kept) + 1
    BY <2>1, <2>2
  <2>4. QED BY <1>6, <2>3 DEF kept
<1>8. Cardinality(Occupied({})') \in Nat
  BY <1>4, <1>6, FS_AddElement, FS_CardinalityType
<1>9. QED BY <1>4, <1>5, <1>7, <1>8 DEF WithinCapacity

\* Every other step only drops entries.
LEMMA NextFits ==
  ASSUME ReceiptAssumption, ReceiptInv, WithinCapacity, [ReceiptNext]_receiptVars PROVE WithinCapacity'
<1>1. ASSUME NEW r \in Req, BeginLead(r) PROVE WithinCapacity'
  BY <1>1, ClaimFits
<1>2. ASSUME NEW r \in Req, LookupFound(r) \/ LookupAbsent(r) \/ BeginFollow(r) \/ BeginFull(r)
      PROVE  WithinCapacity'
  <2>1. PICK d : slot' = Without(d)
    BY <1>2 DEF LookupFound, LookupAbsent, BeginFollow, BeginFull, Follow
  <2>2. Occupied({})' \subseteq Occupied({})
    BY <2>1 DEF Without, Occupied
  <2>3. QED BY <2>2, HeldShrinks
<1>3. ASSUME NEW r \in Req, Publish(r) \/ Abandon(r) PROVE WithinCapacity'
  <2>1. slot' = slot \/ slot' = [slot EXCEPT ![EventKeyOf[r]] = NoEntry]
    BY <1>3 DEF Publish, Abandon
  <2>2. Occupied({})' \subseteq Occupied({})
    BY <2>1 DEF Occupied, ReceiptInv, ReceiptTypeOK
  <2>3. QED BY <2>2, HeldShrinks
<1>4. ASSUME slot' = slot PROVE WithinCapacity'
  BY <1>4 DEF WithinCapacity, Occupied
<1>5. ASSUME NEW r \in Req,
             ReadClock(r) \/ PublishStale(r) \/ Close(r) \/ Wake(r) \/ ReadReceipt(r) \/ GiveUp(r)
      PROVE  slot' = slot
  BY <1>5 DEF ReadClock, PublishStale, Close, Wake, ReadReceipt, GiveUp
<1>6. Tick \/ UNCHANGED receiptVars => slot' = slot
  BY DEF Tick, receiptVars
<1>7. QED BY <1>1, <1>2, <1>3, <1>4, <1>5, <1>6 DEF ReceiptNext, Lookup, Begin, Lead

\* No entry is held at first.
LEMMA InitFits == ASSUME ReceiptAssumption, ReceiptInit PROVE WithinCapacity
<1>1. Occupied({}) = {}
  BY DEF ReceiptInit, Occupied
<1>2. QED BY <1>1, FS_EmptySet DEF WithinCapacity, ReceiptAssumption

\* "The cache never holds more entries than this" (receipts.go:25-26), and no delivery in
\* flight whose retention runs on is missing from it.
THEOREM ReceiptCapacity == ASSUME ReceiptAssumption PROVE ReceiptSpec => []CapacityAndInFlight
<1>1. ASSUME ReceiptAssumption, ReceiptInit PROVE WithinCapacity
  BY <1>1, InitFits
<1>2. ASSUME ReceiptAssumption, ReceiptInv, WithinCapacity, [ReceiptNext]_receiptVars PROVE WithinCapacity'
  BY <1>2, NextFits
<1>3. ReceiptInv /\ WithinCapacity => CapacityAndInFlight
  BY DEF ReceiptInv, EntriesOK, WithinCapacity, CapacityAndInFlight
<1>4. QED BY <1>1, <1>2, <1>3, ReceiptInvariant, PTL DEF ReceiptSpec
=============================================================================
