---------------------- MODULE DispatcherAndGroupProofs ----------------------
(***************************************************************************)
(* Proofs about two parts of the server. The call-signal dispatcher: its   *)
(* limits and the exclusive ownership of streams hold for any number of    *)
(* jobs, streams and any depths. The group conversation, for every set of  *)
(* users, of invited members and of concurrent requests, and for every     *)
(* bound on epochs and messages: who can read what survives rotations,     *)
(* departures and restarts that cross.                                     *)
(***************************************************************************)
EXTENDS CallDispatcherRefinement, GroupConversation, FiniteSetTheorems, SequenceTheorems, TLAPS

Carrying == {"holding", "delivering"}

\* The jobs of a stream's list are the waiting jobs of that stream, once each.
LinesInv ==
    \A k \in Key :
        /\ \A i \in 1 .. Len(jobs[k]) :
              stage[jobs[k][i]] = "waiting" /\ KeyOf[jobs[k][i]] = k
        /\ \A i, n \in 1 .. Len(jobs[k]) : jobs[k][i] = jobs[k][n] => i = n

\* A goroutine past the lock holds a taken job of its own stream, and every
\* taken job is held.
ItemsInv ==
    /\ \A g \in Job : run[g] \in Carrying =>
          item[g] \in InFlight /\ KeyOf[item[g]] = KeyOf[g]
    /\ \A j \in InFlight : \E g \in Job : run[g] \in Carrying /\ item[g] = j

CountsInv ==
    /\ queued = Cardinality(Waiting)
    /\ queued <= DispatchTotalDepth
    /\ \A k \in Key : Len(jobs[k]) <= DispatchStreamDepth
    /\ IsFiniteSet(streams)
    /\ Cardinality(streams) <= DispatchMaxStreams

OwnersInv ==
    /\ running = streams
    /\ \A g, h \in Job :
          run[g] \in Owning /\ run[h] \in Owning /\ KeyOf[g] = KeyOf[h] => g = h
    /\ \A g \in Job : run[g] \in Owning => KeyOf[g] \in streams
    /\ \A k \in streams : \E g \in Job : KeyOf[g] = k /\ run[g] \in Owning
    /\ \A k \in Key : k \notin streams => jobs[k] = <<>>

VerdictInv == \A j \in Job : verdict[j] = "none" <=> stage[j] # "reported"

IInv == TypeOK /\ LinesInv /\ ItemsInv /\ CountsInv /\ OwnersInv /\ VerdictInv

-----------------------------------------------------------------------------
\* A dispatcher starts empty, so within every part of the invariant.
LEMMA InitIInv == Init => IInv
<1> SUFFICES ASSUME Init PROVE IInv
  OBVIOUS
<1> USE DispatchAssumption DEF Init
<1>1. TypeOK
  BY EmptySeq DEF TypeOK, Stage, Verdict, RunState
<1>2. LinesInv /\ VerdictInv
  BY DEF LinesInv, VerdictInv
<1>3. ItemsInv
  BY DEF ItemsInv, Carrying, InFlight
<1>4. CountsInv
  <2>1. Waiting = {}
    BY DEF Waiting
  <2> QED
    BY <2>1, FS_EmptySet DEF CountsInv
<1>5. OwnersInv
  BY DEF OwnersInv, Owning
<1> QED
  BY <1>1, <1>2, <1>3, <1>4, <1>5 DEF IInv

\* What appending a job does to a list of jobs.
LEMMA AppendList ==
  ASSUME NEW s \in Seq(Job), NEW j \in Job
  PROVE  /\ Append(s, j) \in Seq(Job)
         /\ Len(Append(s, j)) = Len(s) + 1
         /\ \A i \in 1 .. Len(s) : Append(s, j)[i] = s[i]
         /\ Append(s, j)[Len(s) + 1] = j
  BY AppendProperties

\* What taking the first job leaves of a list.
LEMMA TailList ==
  ASSUME NEW s \in Seq(Job), s # <<>>
  PROVE  /\ Head(s) \in Job
         /\ Head(s) = s[1]
         /\ Len(s) \in Nat \ {0}
         /\ Tail(s) \in Seq(Job)
         /\ Len(Tail(s)) = Len(s) - 1
         /\ \A i \in 1 .. Len(s) - 1 : Tail(s)[i] = s[i + 1]
  BY HeadTailProperties, EmptySeq

\* The waiting jobs form a finite set, which a step changes by one job at most.
LEMMA WaitingFinite == IsFiniteSet(Waiting) /\ Cardinality(Waiting) \in Nat
<1>1. Waiting \in SUBSET Job
  BY DEF Waiting
<1> QED
  BY <1>1, FS_Subset, FS_CardinalityType, DispatchAssumption

\* The list of a stream is one of jobs.
LEMMA ListElements ==
  ASSUME TypeOK, NEW k \in Key
  PROVE  /\ jobs[k] \in Seq(Job)
         /\ Len(jobs[k]) \in Nat
         /\ \A i \in 1 .. Len(jobs[k]) : jobs[k][i] \in Job
<1>1. jobs[k] \in Seq(Job)
  BY DEF TypeOK
<1> QED
  BY <1>1, LenProperties, ElementOfSeq

\* Appending the job of a Submit keeps the invariant.
LEMMA AcceptStep == ASSUME IInv, NEW j \in Job, Accept(j) PROVE IInv'
<1> DEFINE k == KeyOf[j]
<1> USE DispatchAssumption
<1>0. /\ k \in Key /\ jobs[k] \in Seq(Job) /\ Len(jobs[k]) \in Nat
      /\ stage[j] = "checked"
  BY ListElements DEF IInv, TypeOK, Accept, Enqueue
<1>a. \A m \in Key : jobs'[m] = IF m = k THEN Append(jobs[k], j) ELSE jobs[m]
  BY <1>0 DEF IInv, TypeOK, Accept, Enqueue
<1>b. \A x \in Job : stage'[x] = IF x = j THEN "waiting" ELSE stage[x]
  BY DEF IInv, TypeOK, Accept, Enqueue
<1>c. /\ Append(jobs[k], j) \in Seq(Job)
      /\ Len(Append(jobs[k], j)) = Len(jobs[k]) + 1
      /\ \A i \in 1 .. Len(jobs[k]) : Append(jobs[k], j)[i] = jobs[k][i]
      /\ Append(jobs[k], j)[Len(jobs[k]) + 1] = j
  BY <1>0, AppendList
<1>1. TypeOK'
  BY <1>0, <1>c DEF IInv, TypeOK, Accept, Enqueue, Stage, RunState
<1>2. LinesInv'
  <2> SUFFICES ASSUME NEW m \in Key
               PROVE  /\ \A i \in 1 .. Len(jobs'[m]) :
                            stage'[jobs'[m][i]] = "waiting" /\ KeyOf[jobs'[m][i]] = m
                      /\ \A i, n \in 1 .. Len(jobs'[m]) :
                            jobs'[m][i] = jobs'[m][n] => i = n
    BY DEF LinesInv
  <2>0. \A i \in 1 .. Len(jobs[m]) :
           /\ jobs[m][i] \in Job /\ jobs[m][i] # j
           /\ stage[jobs[m][i]] = "waiting" /\ KeyOf[jobs[m][i]] = m
    BY <1>0, ListElements DEF IInv, LinesInv
  <2>1. CASE m # k
    BY <2>0, <2>1, <1>a, <1>b DEF IInv, LinesInv
  <2>2. CASE m = k
    <3>1. /\ Len(jobs'[m]) = Len(jobs[m]) + 1
          /\ \A i \in 1 .. Len(jobs[m]) : jobs'[m][i] = jobs[m][i]
          /\ jobs'[m][Len(jobs[m]) + 1] = j
      BY <2>2, <1>a, <1>c
    <3>2. \A i \in 1 .. Len(jobs[m]) + 1 :
             /\ jobs'[m][i] \in Job
             /\ i = Len(jobs[m]) + 1 \/ i \in 1 .. Len(jobs[m])
             /\ jobs'[m][i] = j <=> i = Len(jobs[m]) + 1
      BY <2>0, <3>1, <2>2, <1>0
    <3>3. \A i \in 1 .. Len(jobs'[m]) :
             stage'[jobs'[m][i]] = "waiting" /\ KeyOf[jobs'[m][i]] = m
      BY <2>0, <2>2, <3>1, <3>2, <1>b
    <3>4. \A i, n \in 1 .. Len(jobs'[m]) : jobs'[m][i] = jobs'[m][n] => i = n
      BY <3>1, <3>2 DEF IInv, LinesInv
    <3> QED
      BY <3>3, <3>4
  <2> QED
    BY <2>1, <2>2
<1>3. ItemsInv'
  <2>1. InFlight' = InFlight
    BY <1>0, <1>b DEF InFlight
  <2>2. \A g \in Job : run'[g] \in Carrying <=> run[g] \in Carrying
    <3>1. k \in running => run' = run
      BY DEF Accept
    <3>2. k \notin running => run[j] \notin Owning /\ run' = [run EXCEPT ![j] = "starting"]
      BY DEF IInv, OwnersInv, Accept
    <3> QED
      BY <3>1, <3>2 DEF IInv, TypeOK, Carrying, Owning
  <2>3. item' = item
    BY DEF Accept, Enqueue
  <2> QED
    BY <2>1, <2>2, <2>3 DEF IInv, ItemsInv
<1>4. CountsInv'
  <2>1. Waiting' = Waiting \cup {j} /\ j \notin Waiting
    BY <1>0, <1>b DEF Waiting
  <2>2. Cardinality(Waiting') = Cardinality(Waiting) + 1
    BY <2>1, WaitingFinite, FS_AddElement
  <2>3. queued' = Cardinality(Waiting') /\ queued' <= DispatchTotalDepth
    BY <2>2, WaitingFinite DEF IInv, TypeOK, CountsInv, Accept, Enqueue, Full
  <2>4. \A m \in Key : Len(jobs'[m]) <= DispatchStreamDepth
    <3>1. Len(jobs[k]) < DispatchStreamDepth
      <4>1. CASE k \in streams
        BY <4>1, <1>0 DEF Accept, Enqueue, Full
      <4>2. CASE k \notin streams
        BY <4>2, <1>0, EmptySeq DEF IInv, OwnersInv
      <4> QED
        BY <4>1, <4>2
    <3>2. Len(jobs'[k]) <= DispatchStreamDepth
      <4>1. Len(jobs'[k]) = Len(jobs[k]) + 1
        BY <1>0, <1>a, <1>c
      <4> QED
        BY <3>1, <4>1, <1>0
    <3>3. \A m \in Key \ {k} : Len(jobs'[m]) <= DispatchStreamDepth
      BY <1>a DEF IInv, CountsInv
    <3> QED
      BY <3>2, <3>3
  <2>5. IsFiniteSet(streams') /\ Cardinality(streams') <= DispatchMaxStreams
    <3>1. streams' = streams \cup {k} /\ IsFiniteSet(streams)
          /\ Cardinality(streams) \in Nat
      BY FS_CardinalityType DEF IInv, CountsInv, Accept, Enqueue
    <3>2. /\ IsFiniteSet(streams \cup {k})
          /\ Cardinality(streams \cup {k}) =
               IF k \in streams THEN Cardinality(streams) ELSE Cardinality(streams) + 1
      BY <3>1, FS_AddElement
    <3> QED
      BY <3>1, <3>2 DEF IInv, CountsInv, Accept, Enqueue, Full
  <2> QED
    BY <2>3, <2>4, <2>5 DEF CountsInv
<1>5. OwnersInv'
  <2>1. streams' = streams \cup {k} /\ running' = streams'
    BY DEF IInv, OwnersInv, Accept, Enqueue
  <2>2. CASE k \in streams
    <3>1. run' = run
      BY <2>2 DEF IInv, OwnersInv, Accept
    <3> QED
      BY <2>1, <2>2, <3>1, <1>0, <1>a DEF IInv, OwnersInv
  <2>3. CASE k \notin streams
    <3>1. run' = [run EXCEPT ![j] = "starting"]
      BY <2>3 DEF IInv, OwnersInv, Accept
    <3>2. \A g \in Job : run'[g] = IF g = j THEN "starting" ELSE run[g]
      BY <3>1 DEF IInv, TypeOK
    <3>3. \A g \in Job : run[g] \in Owning => KeyOf[g] # k
      BY <2>3 DEF IInv, OwnersInv
    <3>4. "starting" \in Owning
      BY DEF Owning
    <3> QED
      BY <2>1, <2>3, <3>2, <3>3, <3>4, <1>0, <1>a DEF IInv, OwnersInv
  <2> QED
    BY <2>2, <2>3
<1>6. VerdictInv'
  BY <1>0, <1>b DEF IInv, VerdictInv, Accept, Enqueue
<1> QED
  BY <1>1, <1>2, <1>3, <1>4, <1>5, <1>6 DEF IInv

\* The steps of Submit that leave the map alone.
LEMMA SubmitStep ==
  ASSUME IInv, NEW j \in Job,
         SubmitExpired(j) \/ SubmitLive(j) \/ Refuse(j) \/ ReportRefused(j)
  PROVE  IInv'
<1> USE DispatchAssumption
<1>1. /\ stage[j] \notin {"waiting", "taken", "reported"}
      /\ UNCHANGED <<mapVars, run, item>>
  BY DEF SubmitExpired, SubmitLive, Refuse, ReportRefused
<1>2. \A x \in Job \ {j} : stage'[x] = stage[x] /\ verdict'[x] = verdict[x]
  BY DEF SubmitExpired, SubmitLive, Refuse, ReportRefused, Report, IInv, TypeOK
<1>3. /\ stage'[j] \in {"checked", "refused", "reported"}
      /\ verdict'[j] = "none" <=> stage'[j] # "reported"
  BY <1>1 DEF SubmitExpired, SubmitLive, Refuse, ReportRefused, Report, IInv,
              TypeOK, VerdictInv
<1>4. TypeOK'
  BY <1>1 DEF SubmitExpired, SubmitLive, Refuse, ReportRefused, Report, IInv,
              TypeOK, mapVars, Stage, Verdict
<1>5. Waiting' = Waiting /\ InFlight' = InFlight
  BY <1>1, <1>2, <1>3 DEF Waiting, InFlight
<1>6. LinesInv'
  <2>1. \A k \in Key : \A i \in 1 .. Len(jobs[k]) :
           jobs[k][i] \in Job /\ jobs[k][i] # j
    BY <1>1, ListElements DEF IInv, LinesInv
  <2> QED
    BY <1>1, <1>2, <2>1 DEF IInv, LinesInv, mapVars
<1>7. ItemsInv' /\ CountsInv' /\ OwnersInv'
  BY <1>1, <1>5 DEF IInv, ItemsInv, CountsInv, OwnersInv, mapVars
<1>8. VerdictInv'
  BY <1>2, <1>3 DEF IInv, VerdictInv
<1> QED
  BY <1>4, <1>6, <1>7, <1>8 DEF IInv

\* The steps that only move a goroutine between two points where it owns its
\* stream.
LEMMA GoroutineStep ==
  ASSUME IInv, NEW g \in Job, Start(g) \/ Deliver(g)
  PROVE  IInv'
<1>1. UNCHANGED <<mapVars, stage, verdict, item>>
  BY DEF Start, Deliver
<1>2. \A h \in Job : /\ run'[h] \in Owning <=> run[h] \in Owning
                     /\ run'[h] \in Carrying <=> run[h] \in Carrying
  BY DEF Start, Deliver, Owning, Carrying, IInv, TypeOK
<1>3. TypeOK'
  BY <1>1 DEF Start, Deliver, IInv, TypeOK, mapVars, RunState
<1>4. Waiting' = Waiting /\ InFlight' = InFlight
  BY <1>1 DEF Waiting, InFlight
<1>5. LinesInv' /\ CountsInv' /\ VerdictInv'
  BY <1>1, <1>4 DEF IInv, LinesInv, CountsInv, VerdictInv, mapVars
<1>6. ItemsInv' /\ OwnersInv'
  BY <1>1, <1>2, <1>4 DEF IInv, ItemsInv, OwnersInv, mapVars
<1> QED
  BY <1>3, <1>5, <1>6 DEF IInv

\* The goroutine takes the first job of its list.
LEMMA TakeStep == ASSUME IInv, NEW g \in Job, Take(g) PROVE IInv'
<1> DEFINE k == KeyOf[g]
           x == Head(jobs[k])
<1> USE DispatchAssumption
<1>0. /\ k \in Key /\ jobs[k] \in Seq(Job) /\ jobs[k] # <<>>
      /\ run[g] = "loop" /\ k \in streams
      /\ UNCHANGED <<streams, running, verdict>>
  BY DEF IInv, TypeOK, Take
<1>1. /\ x \in Job /\ x = jobs[k][1]
      /\ Len(jobs[k]) \in Nat \ {0}
      /\ Tail(jobs[k]) \in Seq(Job)
      /\ Len(Tail(jobs[k])) = Len(jobs[k]) - 1
      /\ \A i \in 1 .. Len(jobs[k]) - 1 : Tail(jobs[k])[i] = jobs[k][i + 1]
  BY <1>0, TailList
<1>2. stage[x] = "waiting" /\ KeyOf[x] = k
  BY <1>0, <1>1 DEF IInv, LinesInv
<1>a. \A m \in Key : jobs'[m] = IF m = k THEN Tail(jobs[k]) ELSE jobs[m]
  BY DEF IInv, TypeOK, Take
<1>b. \A j \in Job : stage'[j] = IF j = x THEN "taken" ELSE stage[j]
  BY DEF IInv, TypeOK, Take
<1>c. \A h \in Job : /\ run'[h] = IF h = g THEN "holding" ELSE run[h]
                     /\ item'[h] = IF h = g THEN x ELSE item[h]
  BY DEF IInv, TypeOK, Take
<1>d. jobs' \in [Key -> Seq(Job)] /\ queued' = queued - 1
  BY <1>1 DEF IInv, TypeOK, Take
<1>3. LinesInv'
  <2> SUFFICES ASSUME NEW m \in Key
               PROVE  /\ \A i \in 1 .. Len(jobs'[m]) :
                            stage'[jobs'[m][i]] = "waiting" /\ KeyOf[jobs'[m][i]] = m
                      /\ \A i, n \in 1 .. Len(jobs'[m]) :
                            jobs'[m][i] = jobs'[m][n] => i = n
    BY DEF LinesInv
  <2>0. \A i \in 1 .. Len(jobs[m]) :
           /\ jobs[m][i] \in Job
           /\ stage[jobs[m][i]] = "waiting" /\ KeyOf[jobs[m][i]] = m
    BY ListElements DEF IInv, LinesInv
  <2>1. CASE m # k
    <3>1. \A i \in 1 .. Len(jobs[m]) : jobs[m][i] # x
      BY <2>0, <2>1, <1>2
    <3> QED
      BY <2>0, <2>1, <3>1, <1>a, <1>b DEF IInv, LinesInv
  <2>2. CASE m = k
    <3>1. /\ Len(jobs'[m]) = Len(jobs[k]) - 1
          /\ \A i \in 1 .. Len(jobs[k]) - 1 : jobs'[m][i] = jobs[k][i + 1]
      BY <2>2, <1>a, <1>1
    <3>2. \A i \in 1 .. Len(jobs[k]) - 1 :
             i + 1 \in 1 .. Len(jobs[k]) /\ 1 \in 1 .. Len(jobs[k]) /\ i + 1 # 1
      BY <1>1
    <3>3. \A i \in 1 .. Len(jobs[k]) - 1 : jobs'[m][i] \in Job /\ jobs'[m][i] # x
      BY <2>0, <2>2, <3>1, <3>2, <1>1 DEF IInv, LinesInv
    <3>4. \A i \in 1 .. Len(jobs'[m]) :
             stage'[jobs'[m][i]] = "waiting" /\ KeyOf[jobs'[m][i]] = m
      <4> SUFFICES ASSUME NEW i \in 1 .. Len(jobs[k]) - 1
                   PROVE  stage'[jobs'[m][i]] = "waiting" /\ KeyOf[jobs'[m][i]] = m
        BY <3>1
      <4>1. stage[jobs[k][i + 1]] = "waiting" /\ KeyOf[jobs[k][i + 1]] = k
        BY <2>0, <2>2, <3>2
      <4> QED
        BY <4>1, <2>2, <3>1, <3>3, <1>b
    <3>5. \A i, n \in 1 .. Len(jobs'[m]) : jobs'[m][i] = jobs'[m][n] => i = n
      <4> SUFFICES ASSUME NEW i \in 1 .. Len(jobs[k]) - 1,
                          NEW n \in 1 .. Len(jobs[k]) - 1,
                          jobs[k][i + 1] = jobs[k][n + 1]
                   PROVE  i = n
        BY <3>1
      <4>1. i + 1 = n + 1
        BY <3>2, <1>0 DEF IInv, LinesInv
      <4> QED
        BY <4>1
    <3> QED
      BY <3>4, <3>5
  <2> QED
    BY <2>1, <2>2
<1>4. ItemsInv'
  <2>1. InFlight' = InFlight \cup {x} /\ x \notin InFlight
    BY <1>1, <1>2, <1>b DEF InFlight
  <2>2. run[g] \notin Carrying /\ "holding" \in Carrying
    BY <1>0 DEF Carrying
  <2> QED
    BY <2>1, <2>2, <1>1, <1>2, <1>c DEF IInv, ItemsInv
<1>5. CountsInv'
  <2>1. Waiting' = Waiting \ {x} /\ x \in Waiting
    BY <1>1, <1>2, <1>b DEF Waiting
  <2>2. Cardinality(Waiting \ {x}) = Cardinality(Waiting) - 1
    <3>1. \A S : IsFiniteSet(S) /\ x \in S => Cardinality(S \ {x}) = Cardinality(S) - 1
      BY FS_RemoveElement
    <3> QED
      BY <2>1, <3>1, WaitingFinite
  <2>3. queued' = Cardinality(Waiting') /\ queued' <= DispatchTotalDepth
    BY <2>1, <2>2, <1>d, WaitingFinite DEF IInv, CountsInv
  <2>4. \A m \in Key : Len(jobs'[m]) <= DispatchStreamDepth
    <3>1. Len(jobs'[k]) = Len(jobs[k]) - 1 /\ Len(jobs[k]) <= DispatchStreamDepth
      BY <1>0, <1>1, <1>a DEF IInv, CountsInv
    <3>2. Len(jobs'[k]) <= DispatchStreamDepth
      BY <3>1, <1>1
    <3>3. \A m \in Key \ {k} : Len(jobs'[m]) <= DispatchStreamDepth
      BY <1>a DEF IInv, CountsInv
    <3> QED
      BY <3>2, <3>3
  <2> QED
    BY <2>3, <2>4, <1>0 DEF IInv, CountsInv
<1>6. TypeOK'
  <2>1. queued' \in Nat
    <3>1. Waiting' \in SUBSET Job
      BY DEF Waiting
    <3> QED
      BY <3>1, <1>5, FS_Subset, FS_CardinalityType DEF CountsInv
  <2> QED
    BY <2>1, <1>0, <1>1, <1>d DEF IInv, TypeOK, Take, Stage, RunState
<1>7. OwnersInv'
  <2>1. \A h \in Job : run'[h] \in Owning <=> run[h] \in Owning
    BY <1>0, <1>c DEF Owning
  <2> QED
    BY <2>1, <1>0, <1>a DEF IInv, OwnersInv
<1>8. VerdictInv'
  BY <1>0, <1>2, <1>b, <1>1 DEF IInv, VerdictInv
<1> QED
  BY <1>3, <1>4, <1>5, <1>6, <1>7, <1>8 DEF IInv

\* The goroutine of an empty list deletes the entry and ends.
LEMMA LeaveStep == ASSUME IInv, NEW g \in Job, Leave(g) PROVE IInv'
<1> DEFINE k == KeyOf[g]
<1> USE DispatchAssumption
<1>0. /\ run[g] = "loop" /\ k \in Key /\ jobs[k] = <<>>
      /\ streams' = streams \ {k} /\ running' = running \ {k}
      /\ UNCHANGED <<jobs, queued, stage, verdict, item>>
  BY DEF Leave, Drained, IInv, TypeOK, OwnersInv
<1>1. \A h \in Job : run'[h] = IF h = g THEN "done" ELSE run[h]
  BY DEF Leave, Drained, IInv, TypeOK
<1>2. TypeOK'
  BY <1>0 DEF Leave, Drained, IInv, TypeOK, RunState
<1>3. Waiting' = Waiting /\ InFlight' = InFlight
  BY <1>0 DEF Waiting, InFlight
<1>4. LinesInv' /\ VerdictInv'
  BY <1>0 DEF IInv, LinesInv, VerdictInv
<1>5. CountsInv'
  <2>1. IsFiniteSet(streams') /\ Cardinality(streams') <= Cardinality(streams)
    BY <1>0, FS_Subset DEF IInv, CountsInv
  <2>2. Cardinality(streams) \in Nat /\ Cardinality(streams') \in Nat
    BY <2>1, FS_CardinalityType DEF IInv, CountsInv
  <2> QED
    BY <2>1, <2>2, <1>0, <1>3 DEF IInv, CountsInv
<1>6. ItemsInv'
  <2>1. \A h \in Job : run'[h] \in Carrying <=> run[h] \in Carrying
    BY <1>0, <1>1 DEF Carrying
  <2> QED
    BY <2>1, <1>0, <1>3 DEF IInv, ItemsInv
<1>7. OwnersInv'
  <2>1. \A h \in Job : run'[h] \in Owning <=> run[h] \in Owning /\ h # g
    BY <1>0, <1>1 DEF Owning
  <2>2. run[g] \in Owning
    BY <1>0 DEF Owning
  <2>3. \A h \in Job : run'[h] \in Owning => KeyOf[h] \in streams'
    BY <2>1, <2>2, <1>0 DEF IInv, OwnersInv
  <2>4. \A m \in streams' : \E h \in Job : KeyOf[h] = m /\ run'[h] \in Owning
    BY <2>1, <1>0 DEF IInv, OwnersInv
  <2> QED
    BY <2>1, <2>3, <2>4, <1>0 DEF IInv, OwnersInv
<1> QED
  BY <1>2, <1>4, <1>5, <1>6, <1>7 DEF IInv

\* The goroutine reports the job it holds.
LEMMA SettleStep ==
  ASSUME IInv, NEW g \in Job, run[g] \in Carrying,
         NEW v \in {"expired", "delivered", "failed"}, Settle(g, v)
  PROVE  IInv'
<1> DEFINE x == item[g]
<1>0. /\ x \in Job /\ stage[x] = "taken"
      /\ UNCHANGED mapVars
  BY DEF IInv, ItemsInv, InFlight, Settle
<1>1. \A h \in Job : /\ run'[h] = IF h = g THEN "loop" ELSE run[h]
                     /\ item'[h] = IF h = g THEN NoJob ELSE item[h]
  BY DEF IInv, TypeOK, Settle
<1>2. \A j \in Job : /\ stage'[j] = IF j = x THEN "reported" ELSE stage[j]
                     /\ verdict'[j] = IF j = x THEN v ELSE verdict[j]
  BY DEF IInv, TypeOK, Settle, Report
<1>3. TypeOK'
  BY <1>0 DEF IInv, TypeOK, Settle, Report, mapVars, Stage, Verdict, RunState
<1>4. Waiting' = Waiting /\ InFlight' = InFlight \ {x}
  BY <1>0, <1>2 DEF Waiting, InFlight
<1>5. LinesInv'
  <2>1. \A k \in Key : \A i \in 1 .. Len(jobs[k]) :
           jobs[k][i] \in Job /\ jobs[k][i] # x
    BY <1>0, ListElements DEF IInv, LinesInv
  <2> QED
    BY <1>0, <1>2, <2>1 DEF IInv, LinesInv, mapVars
<1>6. ItemsInv'
  <2>1. \A h \in Job : run'[h] \in Carrying <=> run[h] \in Carrying /\ h # g
    BY <1>1 DEF Carrying
  <2>2. \A h \in Job : run[h] \in Carrying /\ item[h] = x => h = g
    <3>1. "holding" \in Owning /\ "delivering" \in Owning
      BY DEF Owning
    <3> QED
      BY <3>1 DEF IInv, ItemsInv, OwnersInv, Carrying
  <2>3. \A h \in Job : run'[h] \in Carrying => item'[h] = item[h] /\ item[h] # x
    BY <2>1, <2>2, <1>1
  <2>4. \A h \in Job : run'[h] \in Carrying =>
           item'[h] \in InFlight' /\ KeyOf[item'[h]] = KeyOf[h]
    BY <2>1, <2>3, <1>4 DEF IInv, ItemsInv
  <2>5. \A j \in InFlight' : \E h \in Job : run'[h] \in Carrying /\ item'[h] = j
    BY <2>1, <1>1, <1>4 DEF IInv, ItemsInv
  <2> QED
    BY <2>4, <2>5 DEF ItemsInv
<1>7. CountsInv'
  BY <1>0, <1>4 DEF IInv, CountsInv, mapVars
<1>8. OwnersInv'
  <2>1. \A h \in Job : run'[h] \in Owning <=> run[h] \in Owning
    BY <1>1 DEF Owning, Carrying
  <2> QED
    BY <2>1, <1>0 DEF IInv, OwnersInv, mapVars
<1>9. VerdictInv'
  BY <1>0, <1>2 DEF IInv, VerdictInv
<1> QED
  BY <1>3, <1>5, <1>6, <1>7, <1>8, <1>9 DEF IInv

\* Every step keeps the invariant.
LEMMA InvStep == IInv /\ [Next]_vars => IInv'
<1> SUFFICES ASSUME IInv, [Next]_vars PROVE IInv'
  OBVIOUS
<1>1. CASE UNCHANGED vars
  <2>1. Waiting' = Waiting /\ InFlight' = InFlight
    BY <1>1 DEF vars, Waiting, InFlight
  <2> QED
    BY <1>1, <2>1 DEF IInv, TypeOK, LinesInv, ItemsInv, CountsInv, OwnersInv,
                      VerdictInv, vars, mapVars
<1>2. ASSUME NEW j \in Job, SubmitExpired(j) \/ SubmitLive(j) \/ Submitting(j)
      PROVE  IInv'
  BY <1>2, SubmitStep, AcceptStep, GoroutineStep DEF Submitting
<1>3. ASSUME NEW g \in Job, Looping(g) \/ SettleDelivered(g) PROVE IInv'
  <2>1. CASE SettleExpired(g) \/ SettleDelivered(g)
    BY <2>1, SettleStep DEF SettleExpired, SettleDelivered, Carrying
  <2>2. CASE Take(g) \/ Leave(g) \/ Deliver(g)
    BY <2>2, TakeStep, LeaveStep, GoroutineStep
  <2> QED
    BY <1>3, <2>1, <2>2 DEF Looping
<1> QED
  BY <1>1, <1>2, <1>3 DEF Next

\* The inductive invariant holds of every behaviour of the dispatcher.
THEOREM DispatcherInvariant == Spec => []IInv
<1> QED
  BY InitIInv, InvStep, PTL DEF Spec

\* Every variable of the dispatcher keeps its type; in particular d.queued
\* never goes below zero.
THEOREM DispatcherTypeOK == Spec => []TypeOK
<1>1. IInv => TypeOK
  BY DEF IInv
<1> QED
  BY <1>1, DispatcherInvariant, PTL

\* A goroutine that owns a stream is alone on it, and no stream has a job
\* waiting that nobody will take.
THEOREM DispatcherOneGoroutine == Spec => []OneGoroutinePerStream
<1>1. IInv => OneGoroutinePerStream
  BY DEF IInv, OwnersInv, OneGoroutinePerStream, Owners
<1> QED
  BY <1>1, DispatcherInvariant, PTL

\* There are no more owning goroutines than streams: each has its own.
LEMMA OwningBound ==
  ASSUME IInv
  PROVE  LET A == {g \in Job : run[g] \in Owning}
         IN  IsFiniteSet(A) /\ Cardinality(A) <= DispatchMaxStreams
<1> DEFINE A == {g \in Job : run[g] \in Owning}
           f == [g \in A |-> KeyOf[g]]
<1>1. f \in Injection(A, streams)
  BY DEF IInv, OwnersInv, Injection, IsInjective
<1>2. IsFiniteSet(streams) /\ Cardinality(streams) <= DispatchMaxStreams
  BY DEF IInv, CountsInv
<1>3. IsFiniteSet(A) /\ Cardinality(A) <= Cardinality(streams)
  BY <1>1, <1>2, FS_Injection
<1>4. Cardinality(A) \in Nat /\ Cardinality(streams) \in Nat
  BY <1>2, <1>3, FS_CardinalityType
<1> QED
  BY <1>2, <1>3, <1>4, DispatchAssumption

\* There are no more jobs in flight than owning goroutines: each holds one.
LEMMA InFlightBound ==
  ASSUME IInv
  PROVE  IsFiniteSet(InFlight) /\ Cardinality(InFlight) <= DispatchMaxStreams
<1> DEFINE A == {g \in Job : run[g] \in Owning}
           h == [j \in InFlight |->
                   CHOOSE g \in Job : run[g] \in Carrying /\ item[g] = j]
<1>1. \A j \in InFlight : h[j] \in Job /\ run[h[j]] \in Carrying /\ item[h[j]] = j
  BY DEF IInv, ItemsInv
<1>2. \A j \in InFlight : h[j] \in A
  BY <1>1 DEF Carrying, Owning
<1>3. h \in Injection(InFlight, A)
  BY <1>1, <1>2 DEF Injection, IsInjective
<1>4. IsFiniteSet(A) /\ Cardinality(A) <= DispatchMaxStreams
  BY OwningBound
<1>5. IsFiniteSet(InFlight) /\ Cardinality(InFlight) <= Cardinality(A)
  BY <1>3, <1>4, FS_Injection
<1>6. Cardinality(A) \in Nat /\ Cardinality(InFlight) \in Nat
  BY <1>4, <1>5, FS_CardinalityType
<1> QED
  BY <1>4, <1>5, <1>6, DispatchAssumption

\* The limits stated at the top of dispatcher.go hold for any depths.
THEOREM DispatcherLimits == Spec => []Limits
<1>1. ASSUME IInv PROVE Limits
  <2>1. /\ queued = Cardinality(Waiting) /\ queued <= DispatchTotalDepth
        /\ \A k \in Key : Len(jobs[k]) <= DispatchStreamDepth
        /\ Cardinality(streams) <= DispatchMaxStreams
    BY <1>1 DEF IInv, CountsInv
  <2>2. Cardinality({g \in Job : run[g] \in Owning}) <= DispatchMaxStreams
    BY <1>1, OwningBound
  <2>3. IsFiniteSet(InFlight) /\ Cardinality(InFlight) <= DispatchMaxStreams
    BY <1>1, InFlightBound
  <2>4. Cardinality(Waiting \cup InFlight)
          <= DispatchTotalDepth + DispatchMaxStreams
    <3>1. Cardinality(Waiting \cup InFlight) =
            Cardinality(Waiting) + Cardinality(InFlight)
              - Cardinality(Waiting \cap InFlight)
      BY <2>3, WaitingFinite, FS_Union
    <3>2. Cardinality(Waiting \cap InFlight) \in Nat
      BY WaitingFinite, FS_Intersection, FS_CardinalityType
    <3>3. Cardinality(InFlight) \in Nat
      BY <2>3, FS_CardinalityType
    <3> QED
      BY <2>1, <2>3, <3>1, <3>2, <3>3, WaitingFinite, DispatchAssumption
  <2> QED
    BY <2>1, <2>2, <2>3, <2>4 DEF Limits
<1> QED
  BY <1>1, DispatcherInvariant, PTL

-----------------------------------------------------------------------------
(* The refinement: the dispatcher implements SignalStream. *)

\* A list with a job put before it.
LEMMA Consed ==
  ASSUME NEW x \in Job, NEW s \in Seq(Job)
  PROVE  /\ <<x>> \o s \in Seq(Job)
         /\ <<x>> \o s # <<>>
         /\ Head(<<x>> \o s) = x
         /\ Tail(<<x>> \o s) = s
         /\ Len(<<x>> \o s) = Len(s) + 1
         /\ (<<x>> \o s)[1] = x
         /\ \A i \in 1 .. Len(s) : (<<x>> \o s)[i + 1] = s[i]
<1> DEFINE c == <<x>> \o s
<1>1. <<x>> \in Seq(Job) /\ Len(<<x>>) = 1 /\ <<x>>[1] = x /\ Len(s) \in Nat
  BY LenProperties
<1>2. c \in Seq(Job) /\ Len(c) = Len(s) + 1
      /\ \A i \in 1 .. Len(s) + 1 : c[i] = IF i <= 1 THEN <<x>>[i] ELSE s[i - 1]
  BY <1>1, ConcatProperties
<1>3. c[1] = x /\ \A i \in 1 .. Len(s) : c[i + 1] = s[i]
  BY <1>1, <1>2
<1>4. c # <<>>
  BY <1>1, <1>2, EmptySeq
<1>5. /\ Head(c) = c[1]
      /\ Tail(c) \in Seq(Job)
      /\ Len(Tail(c)) = Len(c) - 1
      /\ \A i \in 1 .. Len(c) - 1 : Tail(c)[i] = c[i + 1]
  BY <1>2, <1>4, TailList
<1>6. Tail(c) = s
  BY <1>1, <1>2, <1>3, <1>5, SeqEqual
<1> QED
  BY <1>2, <1>3, <1>4, <1>5, <1>6

\* Appending at the end does not mind what is at the head.
LEMMA ConsAppend ==
  ASSUME NEW x \in Job, NEW s \in Seq(Job), NEW j \in Job
  PROVE  Append(<<x>> \o s, j) = <<x>> \o Append(s, j)
<1>1. <<x>> \in Seq(Job) /\ <<j>> \in Seq(Job)
  OBVIOUS
<1>2. Append(s, j) = s \o <<j>>
  BY AppendIsConcat
<1>3. <<x>> \o s \in Seq(Job)
  BY Consed
<1>4. Append(<<x>> \o s, j) = (<<x>> \o s) \o <<j>>
  BY <1>3, AppendIsConcat
<1> QED
  BY <1>1, <1>2, <1>4, ConcatAssociative

\* A list is its head followed by its tail.
LEMMA HeadTail ==
  ASSUME NEW s \in Seq(Job), s # <<>>
  PROVE  <<Head(s)>> \o Tail(s) = s
<1>1. /\ Head(s) \in Job /\ Head(s) = s[1] /\ Len(s) \in Nat \ {0}
      /\ Tail(s) \in Seq(Job) /\ Len(Tail(s)) = Len(s) - 1
      /\ \A i \in 1 .. Len(s) - 1 : Tail(s)[i] = s[i + 1]
  BY TailList
<1> DEFINE c == <<Head(s)>> \o Tail(s)
<1>2. /\ c \in Seq(Job) /\ Len(c) = Len(s) /\ c[1] = s[1]
      /\ \A i \in 1 .. Len(s) - 1 : c[i + 1] = s[i + 1]
  BY <1>1, Consed
<1>3. \A i \in 1 .. Len(s) : c[i] = s[i]
  <2> TAKE i \in 1 .. Len(s)
  <2>1. i = 1 \/ (i - 1 \in 1 .. Len(s) - 1 /\ (i - 1) + 1 = i)
    BY <1>1
  <2> QED
    BY <2>1, <1>2
<1> QED
  BY <1>2, <1>3, SeqEqual

Served(k) == \E g \in Job : KeyOf[g] = k /\ run[g] \in Carrying

\* What the mapping makes of the line of each stream.
LineFacts ==
    \A k \in Key :
        /\ \A g \in Job : KeyOf[g] = k /\ run[g] \in Carrying =>
              LineOf(k) = <<item[g]>> \o jobs[k]
        /\ ~Served(k) => LineOf(k) = jobs[k]

\* The line of a stream is the job its goroutine carries, then the list of the map.
LEMMA LineShape == IInv => LineFacts
<1> SUFFICES ASSUME IInv, NEW k \in Key
             PROVE  /\ \A g \in Job : KeyOf[g] = k /\ run[g] \in Carrying =>
                          LineOf(k) = <<item[g]>> \o jobs[k]
                    /\ ~Served(k) => LineOf(k) = jobs[k]
  BY DEF LineFacts
<1>1. ASSUME NEW g \in Job, KeyOf[g] = k, run[g] \in Carrying
      PROVE  LineOf(k) = <<item[g]>> \o jobs[k]
  <2>1. item[g] \in InFlightOn(k)
    BY <1>1 DEF IInv, ItemsInv, InFlightOn, InFlight
  <2>2. ASSUME NEW j \in InFlightOn(k) PROVE j = item[g]
    <3>1. PICK h \in Job : run[h] \in Carrying /\ item[h] = j
      BY DEF IInv, ItemsInv, InFlightOn
    <3>2. KeyOf[h] = k
      BY <3>1 DEF IInv, ItemsInv, InFlightOn
    <3>3. h = g
      BY <1>1, <3>1, <3>2 DEF IInv, OwnersInv, Owning, Carrying
    <3> QED
      BY <3>1, <3>3
  <2>3. InFlightOn(k) = {item[g]} /\ item[g] \in Job
    BY <2>1, <2>2 DEF InFlightOn, InFlight
  <2>4. (CHOOSE j \in Job : InFlightOn(k) = {j}) = item[g]
    BY <2>3
  <2> QED
    BY <2>3, <2>4 DEF LineOf
<1>2. ASSUME ~Served(k) PROVE LineOf(k) = jobs[k]
  <2>1. InFlightOn(k) = {}
    BY <1>2 DEF IInv, ItemsInv, InFlightOn, Served
  <2> QED
    BY <2>1 DEF LineOf
<1> QED
  BY <1>1, <1>2

Serving == {k \in Key : \E g \in Owners(k) : run[g] = "delivering"}

\* A line is a list of jobs in flight or waiting.
LEMMA LineElements ==
  ASSUME IInv, NEW k \in Key
  PROVE  /\ LineOf(k) \in Seq(Job)
         /\ \A i \in DOMAIN LineOf(k) :
               LineOf(k)[i] \in Waiting \cup InFlight
<1>1. jobs[k] \in Seq(Job) /\ Len(jobs[k]) \in Nat
      /\ \A i \in 1 .. Len(jobs[k]) : jobs[k][i] \in Waiting
  BY ListElements DEF IInv, LinesInv, Waiting
<1>2. CASE Served(k)
  <2>1. PICK g \in Job : KeyOf[g] = k /\ run[g] \in Carrying
    BY <1>2 DEF Served
  <2>2. item[g] \in Job /\ item[g] \in InFlight
    BY <2>1 DEF IInv, ItemsInv, InFlight
  <2>3. LineOf(k) = <<item[g]>> \o jobs[k]
    BY <2>1, LineShape DEF LineFacts
  <2>4. /\ LineOf(k) \in Seq(Job) /\ Len(LineOf(k)) = Len(jobs[k]) + 1
        /\ LineOf(k)[1] = item[g]
        /\ \A i \in 1 .. Len(jobs[k]) : LineOf(k)[i + 1] = jobs[k][i]
    BY <1>1, <2>2, <2>3, Consed
  <2>5. ASSUME NEW i \in 1 .. Len(LineOf(k)) PROVE LineOf(k)[i] \in Waiting \cup InFlight
    <3>1. i = 1 \/ (i - 1 \in 1 .. Len(jobs[k]) /\ (i - 1) + 1 = i)
      BY <1>1, <2>4
    <3> QED
      BY <3>1, <2>2, <2>4, <1>1
  <2> QED
    BY <2>4, <2>5, LenProperties
<1>3. CASE ~Served(k)
  <2>1. LineOf(k) = jobs[k]
    BY <1>3, LineShape DEF LineFacts
  <2> QED
    BY <2>1, <1>1, LenProperties
<1> QED
  BY <1>2, <1>3

\* A job that is neither waiting nor taken is in no line.
LEMMA NotInLine ==
  ASSUME IInv, NEW j \in Job, stage[j] \notin {"waiting", "taken"}
  PROVE  ~Promise!InLine(j)
<1> DEFINE k == KeyOf[j]
<1>1. k \in Key
  BY DispatchAssumption
<1>2. \A i \in DOMAIN LineOf(k) : LineOf(k)[i] # j
  BY <1>1, LineElements DEF Waiting, InFlight
<1> QED
  BY <1>1, <1>2 DEF Promise!InLine

\* An empty dispatcher is an empty line per stream.
LEMMA PromiseInit == Init => Promise!Init
<1> SUFFICES ASSUME Init PROVE Promise!Init
  OBVIOUS
<1>1. \A k \in Key : InFlightOn(k) = {} /\ jobs[k] = <<>>
  BY DEF Init, InFlightOn, InFlight
<1>2. \A k \in Key : LineOf(k) = <<>>
  BY <1>1 DEF LineOf
<1>3. \A k \in Key : ~\E g \in Owners(k) : run[g] = "delivering"
  BY DEF Init, Owners
<1> QED
  BY <1>2, <1>3 DEF Init, Promise!Init

\* A step that leaves the lists, the carried jobs and the deliveries alone
\* leaves the abstract lines alone.
LEMMA SameLines ==
  ASSUME IInv, IInv', UNCHANGED <<jobs, item>>,
         \A g \in Job : run'[g] \in Carrying <=> run[g] \in Carrying
  PROVE  \A k \in Key : LineOf(k)' = LineOf(k)
<1> SUFFICES ASSUME NEW k \in Key PROVE LineOf(k)' = LineOf(k)
  OBVIOUS
<1>1. LineFacts /\ LineFacts'
  BY LineShape, PTL
<1>2. CASE Served(k)
  <2>1. PICK g \in Job : KeyOf[g] = k /\ run[g] \in Carrying
    BY <1>2 DEF Served
  <2> QED
    BY <1>1, <2>1 DEF LineFacts
<1>3. CASE ~Served(k)
  BY <1>1, <1>3 DEF LineFacts, Served
<1> QED
  BY <1>2, <1>3

\* A submission that does not enqueue is a refusal, or nothing, to the lines.
LEMMA SubmitRefines ==
  ASSUME IInv, IInv', NEW j \in Job,
         SubmitExpired(j) \/ SubmitLive(j) \/ Refuse(j) \/ ReportRefused(j)
  PROVE  Promise!Refuse(j) \/ UNCHANGED Promise!vars
<1>1. UNCHANGED <<jobs, item, run>>
  BY DEF SubmitExpired, SubmitLive, Refuse, ReportRefused, mapVars
<1>2. \A k \in Key : LineOf(k)' = LineOf(k)
  BY <1>1, SameLines
<1>3. Serving' = Serving
  BY <1>1 DEF Serving, Owners
<1>4. CASE SubmitLive(j) \/ Refuse(j)
  BY <1>2, <1>3, <1>4 DEF SubmitLive, Refuse, Promise!vars, Serving
<1>5. CASE SubmitExpired(j) \/ ReportRefused(j)
  <2>1. stage[j] \in {"unsent", "refused"}
    BY <1>5 DEF SubmitExpired, ReportRefused
  <2>2. verdict[j] = "none" /\ ~Promise!InLine(j)
    BY <2>1, NotInLine DEF IInv, VerdictInv
  <2>3. \E v \in {"expired", "queue_full"} : verdict' = [verdict EXCEPT ![j] = v]
    BY <1>5 DEF SubmitExpired, ReportRefused, Report
  <2> QED
    BY <2>2, <2>3, <1>2, <1>3 DEF Promise!Refuse, Serving
<1> QED
  BY <1>4, <1>5

\* A job that is enqueued joins the end of its line.
LEMMA AcceptRefines ==
  ASSUME IInv, IInv', NEW j \in Job, Accept(j)
  PROVE  Promise!Accept(j)
<1> DEFINE k == KeyOf[j]
<1>0. /\ k \in Key /\ jobs[k] \in Seq(Job)
      /\ stage[j] = "checked" /\ UNCHANGED <<verdict, item>>
      /\ \A m \in Key : jobs'[m] = IF m = k THEN Append(jobs[k], j) ELSE jobs[m]
  BY DispatchAssumption DEF Accept, Enqueue, IInv, TypeOK
<1>1. \A g \in Job : /\ run'[g] \in Carrying <=> run[g] \in Carrying
                     /\ run'[g] = "delivering" <=> run[g] = "delivering"
                     /\ run'[g] \in Carrying => run'[g] = run[g]
  <2>1. k \in running => run' = run
    BY DEF Accept
  <2>2. k \notin running => run[j] \notin Owning /\ run' = [run EXCEPT ![j] = "starting"]
    BY DEF IInv, OwnersInv, Accept
  <2> QED
    BY <2>1, <2>2 DEF IInv, TypeOK, Carrying, Owning
<1>2. LineFacts /\ LineFacts'
  BY LineShape, PTL
<1>3. ASSUME NEW m \in Key
      PROVE  LineOf(m)' = IF m = k THEN Append(LineOf(m), j) ELSE LineOf(m)
  <2>1. CASE Served(m)
    <3>1. PICK g \in Job : KeyOf[g] = m /\ run[g] \in Carrying
      BY <2>1 DEF Served
    <3>2. item[g] \in Job
      BY <3>1 DEF IInv, ItemsInv, InFlight
    <3>3. LineOf(m) = <<item[g]>> \o jobs[m] /\ LineOf(m)' = <<item[g]>> \o jobs'[m]
      BY <3>1, <1>0, <1>1, <1>2 DEF LineFacts
    <3>4. Append(<<item[g]>> \o jobs[k], j) = <<item[g]>> \o Append(jobs[k], j)
      BY <3>2, <1>0, ConsAppend
    <3> QED
      BY <3>3, <3>4, <1>0
  <2>2. CASE ~Served(m)
    <3>1. LineOf(m) = jobs[m] /\ LineOf(m)' = jobs'[m]
      BY <2>2, <1>1, <1>2 DEF LineFacts, Served
    <3> QED
      BY <3>1, <1>0
  <2> QED
    BY <2>1, <2>2
<1>4. [m \in Key |-> LineOf(m)]' = [[m \in Key |-> LineOf(m)] EXCEPT ![k] = Append(@, j)]
  BY <1>0, <1>3
<1>5. Serving' = Serving
  BY <1>1 DEF Serving, Owners, Owning
<1>6. verdict[j] = "none" /\ ~Promise!InLine(j)
  BY <1>0, NotInLine DEF IInv, VerdictInv
<1> QED
  BY <1>0, <1>4, <1>5, <1>6 DEF Promise!Accept, Serving

\* Starting and leaving a stream, and taking its first job, change nothing
\* of what was promised.
LEMMA SilentRefines ==
  ASSUME IInv, IInv', NEW g \in Job, Start(g) \/ Leave(g) \/ Take(g)
  PROVE  UNCHANGED Promise!vars
<1>1. /\ verdict' = verdict /\ run[g] \in {"starting", "loop"}
      /\ \A h \in Job \ {g} : run'[h] = run[h] /\ item'[h] = item[h]
  BY DEF Start, Leave, Drained, Take, IInv, TypeOK
<1>2. \A h \in Job : run'[h] = "delivering" <=> run[h] = "delivering"
  BY DEF Start, Leave, Drained, Take, IInv, TypeOK
<1>3. Serving' = Serving
  BY <1>2 DEF Serving, Owners, Owning
<1>4. \A k \in Key : LineOf(k)' = LineOf(k)
  <2>1. CASE Start(g) \/ Leave(g)
    <3>1. UNCHANGED <<jobs, item>>
      BY <2>1 DEF Start, Leave, Drained, mapVars
    <3>2. \A h \in Job : run'[h] \in Carrying <=> run[h] \in Carrying
      BY <2>1 DEF Start, Leave, Drained, IInv, TypeOK, Carrying
    <3> QED
      BY <3>1, <3>2, SameLines
  <2>2. CASE Take(g)
    <3> DEFINE k == KeyOf[g]
    <3>0. /\ k \in Key /\ jobs[k] \in Seq(Job) /\ jobs[k] # <<>>
          /\ run[g] = "loop" /\ run'[g] = "holding"
          /\ item'[g] = Head(jobs[k]) /\ jobs'[k] = Tail(jobs[k])
          /\ \A m \in Key \ {k} : jobs'[m] = jobs[m]
      BY <2>2, DispatchAssumption DEF Take, IInv, TypeOK
    <3>1. LineFacts /\ LineFacts'
      BY LineShape, PTL
    <3>2. ~Served(k)
      BY <3>0 DEF Served, IInv, OwnersInv, Owning, Carrying
    <3>3. LineOf(k)' = LineOf(k)
      <4>1. LineOf(k) = jobs[k]
        BY <3>0, <3>1, <3>2 DEF LineFacts
      <4>2. LineOf(k)' = <<Head(jobs[k])>> \o Tail(jobs[k])
        BY <3>0, <3>1 DEF LineFacts, Carrying
      <4> QED
        BY <4>1, <4>2, <3>0, HeadTail
    <3>4. ASSUME NEW m \in Key, m # k PROVE LineOf(m)' = LineOf(m)
      <4>1. \A h \in Job : KeyOf[h] = m => run'[h] = run[h] /\ item'[h] = item[h]
        BY <3>4, <1>1
      <4>2. CASE Served(m)
        <5>1. PICK h \in Job : KeyOf[h] = m /\ run[h] \in Carrying
          BY <4>2 DEF Served
        <5> QED
          <6>1. LineOf(m)' = <<item'[h]>> \o jobs'[m]
            BY <5>1, <4>1, <3>1 DEF LineFacts
          <6>2. LineOf(m) = <<item[h]>> \o jobs[m]
            BY <5>1, <3>1 DEF LineFacts
          <6> QED
            BY <6>1, <6>2, <5>1, <4>1, <3>0, <3>4
      <4>3. CASE ~Served(m)
        <5>1. \A h \in Job : KeyOf[h] = m => run'[h] \notin Carrying
          BY <4>1, <4>3 DEF Served
        <5>2. LineOf(m)' = jobs'[m]
          BY <5>1, <3>1 DEF LineFacts, Served
        <5>3. LineOf(m) = jobs[m]
          BY <4>3, <3>1 DEF LineFacts
        <5> QED
          BY <5>2, <5>3, <3>0, <3>4
      <4> QED
        BY <4>2, <4>3
    <3> QED
      BY <3>3, <3>4
  <2> QED
    BY <2>1, <2>2
<1> QED
  BY <1>1, <1>3, <1>4 DEF Promise!vars, Serving

\* Entering the delivery of the job held is serving the first place.
LEMMA DeliverRefines ==
  ASSUME IInv, IInv', NEW g \in Job, Deliver(g)
  PROVE  Promise!Serve(KeyOf[g])
<1> DEFINE k == KeyOf[g]
<1>1. /\ k \in Key /\ run[g] = "holding" /\ UNCHANGED <<jobs, item, verdict>>
      /\ \A h \in Job : run'[h] = IF h = g THEN "delivering" ELSE run[h]
  BY DispatchAssumption DEF Deliver, IInv, TypeOK, mapVars
<1>2. \A h \in Job : run'[h] \in Carrying <=> run[h] \in Carrying
  BY <1>1 DEF Carrying
<1>3. \A m \in Key : LineOf(m)' = LineOf(m)
  BY <1>1, <1>2, SameLines
<1>4. LineOf(k) # <<>>
  <2>1. LineOf(k) = <<item[g]>> \o jobs[k]
    BY <1>1, LineShape DEF LineFacts, Carrying
  <2>2. item[g] \in Job /\ jobs[k] \in Seq(Job)
    BY <1>1 DEF IInv, TypeOK, ItemsInv, InFlight, Carrying
  <2> QED
    BY <2>1, <2>2, Consed
<1>5. k \notin Serving
  <2>1. \A h \in Owners(k) : h = g
    BY <1>1 DEF Owners, IInv, OwnersInv, Owning
  <2> QED
    BY <2>1, <1>1 DEF Serving
<1>6. Serving' = Serving \cup {k}
  <2>1. \A h \in Job : run'[h] \in Owning <=> run[h] \in Owning
    BY <1>1 DEF Owning
  <2>2. \A m \in Key : Owners(m)' = Owners(m)
    BY <2>1 DEF Owners
  <2>3. g \in Owners(k)
    BY <1>1 DEF Owners, Owning
  <2> QED
    BY <2>2, <2>3, <1>1 DEF Serving, Owners
<1> QED
  BY <1>1, <1>3, <1>4, <1>5, <1>6 DEF Promise!Serve, Serving

\* Reporting the job held is answering the first place.
LEMMA SettleRefines ==
  ASSUME IInv, IInv', NEW g \in Job, SettleExpired(g) \/ SettleDelivered(g)
  PROVE  Promise!Answer(KeyOf[g])
<1> DEFINE k == KeyOf[g]
           x == item[g]
<1>0. run[g] \in Carrying
  BY DEF SettleExpired, SettleDelivered, Carrying
<1>1. /\ k \in Key /\ x \in Job /\ jobs[k] \in Seq(Job)
      /\ stage[x] = "taken" /\ verdict[x] = "none" /\ jobs' = jobs
  BY <1>0, DispatchAssumption DEF SettleExpired, SettleDelivered, Settle,
     mapVars, IInv, TypeOK, ItemsInv, InFlight, VerdictInv
<1>2. \A h \in Job : /\ run'[h] = IF h = g THEN "loop" ELSE run[h]
                     /\ item'[h] = IF h = g THEN NoJob ELSE item[h]
  BY DEF SettleExpired, SettleDelivered, Settle, IInv, TypeOK
<1>3. LineFacts /\ LineFacts'
  BY LineShape, PTL
<1>4. \A h \in Job : KeyOf[h] = k /\ run[h] \in Owning => h = g
  BY <1>0 DEF IInv, OwnersInv, Owning, Carrying
<1>5. LineOf(k) = <<x>> \o jobs[k]
  BY <1>0, <1>1, <1>3 DEF LineFacts
<1>6. LineOf(k) # <<>> /\ Head(LineOf(k)) = x /\ Tail(LineOf(k)) = jobs[k]
  BY <1>1, <1>5, Consed
<1>7. LineOf(k)' = jobs[k]
  <2>1. ~Served(k)'
    BY <1>2, <1>4 DEF Served, Owning, Carrying
  <2> QED
    BY <2>1, <1>1, <1>3 DEF LineFacts
<1>8. ASSUME NEW m \in Key, m # k PROVE LineOf(m)' = LineOf(m)
  <2>1. \A h \in Job : KeyOf[h] = m => run'[h] = run[h] /\ item'[h] = item[h]
    BY <1>2, <1>8
  <2>2. CASE Served(m)
    <3>1. PICK h \in Job : KeyOf[h] = m /\ run[h] \in Carrying
      BY <2>2 DEF Served
    <3> QED
      <4>1. LineOf(m)' = <<item'[h]>> \o jobs'[m]
        BY <3>1, <2>1, <1>3 DEF LineFacts
      <4>2. LineOf(m) = <<item[h]>> \o jobs[m]
        BY <3>1, <1>3 DEF LineFacts
      <4> QED
        BY <4>1, <4>2, <3>1, <2>1, <1>1
  <2>3. CASE ~Served(m)
    <3>1. \A h \in Job : KeyOf[h] = m => run'[h] \notin Carrying
      BY <2>1, <2>3 DEF Served
    <3>2. LineOf(m)' = jobs'[m]
      BY <3>1, <1>3 DEF LineFacts, Served
    <3>3. LineOf(m) = jobs[m]
      BY <2>3, <1>3 DEF LineFacts
    <3> QED
      BY <3>2, <3>3, <1>1
  <2> QED
    BY <2>2, <2>3
<1>9. [m \in Key |-> LineOf(m)]' = [[m \in Key |-> LineOf(m)] EXCEPT ![k] = Tail(@)]
  BY <1>1, <1>6, <1>7, <1>8
<1>10. Serving' = Serving \ {k} /\ (k \in Serving <=> run[g] = "delivering")
  <2>1. \A h \in Job : run'[h] \in Owning <=> run[h] \in Owning
    BY <1>0, <1>2 DEF Owning, Carrying
  <2>2. \A m \in Key : Owners(m)' = Owners(m)
    BY <2>1 DEF Owners
  <2>3. Owners(k) = {g}
    BY <1>0, <1>4 DEF Owners, Owning, Carrying
  <2> QED
    BY <2>2, <2>3, <1>1, <1>2 DEF Serving, Owners
<1>11. \E v \in IF k \in Serving THEN {"delivered", "failed"} ELSE {"expired"} :
          verdict' = [verdict EXCEPT ![x] = v]
  BY <1>10 DEF SettleExpired, SettleDelivered, Settle, Report
<1> QED
  BY <1>1, <1>6, <1>9, <1>10, <1>11 DEF Promise!Answer, Serving

\* The dispatcher implements SignalStream, for any jobs, streams and depths:
\* signals of a stream are delivered in the order accepted, one at a time, and
\* each call of Submit is answered at most once.
THEOREM DispatcherRefinesStream == Spec => PromiseSpec
<1>1. ASSUME IInv, IInv', Next PROVE Promise!Next \/ UNCHANGED Promise!vars
  <2>1. ASSUME NEW j \in Job, SubmitExpired(j) \/ SubmitLive(j) \/ Submitting(j)
        PROVE  Promise!Next \/ UNCHANGED Promise!vars
    BY <1>1, <2>1, SubmitRefines, AcceptRefines, SilentRefines
       DEF Submitting, Promise!Next
  <2>2. ASSUME NEW g \in Job, Looping(g) \/ SettleDelivered(g)
        PROVE  Promise!Next \/ UNCHANGED Promise!vars
    <3>1. KeyOf[g] \in Key
      BY DispatchAssumption
    <3> QED
      BY <1>1, <2>2, <3>1, SilentRefines, DeliverRefines, SettleRefines
         DEF Looping, Promise!Next
  <2> QED
    BY <1>1, <2>1, <2>2 DEF Next
<1>2. UNCHANGED vars => UNCHANGED Promise!vars
  BY DEF vars, mapVars, Promise!vars, LineOf, InFlightOn, InFlight, Owners
<1> QED
  BY <1>1, <1>2, PromiseInit, DispatcherInvariant, PTL
     DEF Spec, PromiseSpec, Promise!Spec

-----------------------------------------------------------------------------
(* The group conversation: the inductive invariant                          *)

\* The parts of TypeOK, by the actions that disturb them.
TablesOK ==
  /\ exists \in BOOLEAN
  /\ epoch \in Epochs
  /\ rotationRequired \in BOOLEAN
  /\ role \in [Users -> Roles]
  /\ memberKey \in [Users -> Epochs \cup {NoKey}]
  /\ \A u \in Users : memberKey[u] # NoKey <=> role[u] # "none"
  /\ exists <=> role[Owner] = "owner"
  /\ envelopes \in [Epochs -> [Users -> Epochs \cup {NoKey}]]

MessagesOK ==
  /\ messages \in Seq(MessageRecords) /\ Len(messages) <= MaxMessages
  /\ \A i \in DOMAIN messages : DOMAIN messages[i].receipts \subseteq messages[i].audience

RequestsOK == requests \in [Requests -> RequestRecords]

\* Nobody holds a key of an epoch to come.
NoFutureKeys ==
  \A e \in Epochs, u \in Users : envelopes[e][u] <= epoch /\ (e > epoch => envelopes[e][u] = NoKey)

\* A group that accepts messages has shared its current key with nobody else.
OpenGroupIsSealed ==
  exists /\ ~rotationRequired => \A u \in Users \ Members : ~Holds(u, epoch)

MessagesArePast ==
  /\ \A i \in DOMAIN messages : messages[i].epoch <= epoch
  /\ ~exists => messages = <<>> /\ \A u \in Users : role[u] = "none"

KeysOK == MembersHoldTheCurrentKey /\ NoFutureKeys /\ OpenGroupIsSealed

ReadersOK == MessagesArePast /\ OutsidersCannotRead /\ RecipientsCanRead

GroupIInv == GroupTypeOK /\ KeysOK /\ ReadersOK

USE GroupAssumption DEF GroupAssumption

\* TypeOK is its three parts.
LEMMA TypeParts == GroupTypeOK <=> TablesOK /\ MessagesOK /\ RequestsOK
  BY DEF GroupTypeOK, TablesOK, MessagesOK, RequestsOK

\* The group is created in a state of the invariant.
LEMMA GroupStarts == GroupInit => GroupIInv
<1> SUFFICES ASSUME GroupInit PROVE GroupIInv
  OBVIOUS
<1> USE DEF GroupInit, Epochs, NoKey
<1>1. TablesOK
  <2>1. envelopes \in [Epochs -> [Users -> Epochs \cup {NoKey}]]
    OBVIOUS
  <2>2. role \in [Users -> Roles] /\ role[Owner] = "owner"
    BY DEF Roles
  <2>3. memberKey \in [Users -> Epochs \cup {NoKey}]
    OBVIOUS
  <2>4. \A u \in Users : memberKey[u] # NoKey <=> role[u] # "none"
    OBVIOUS
  <2>5. QED BY <2>1, <2>2, <2>3, <2>4 DEF TablesOK
<1>2. MessagesOK
  <2>1. messages \in Seq(MessageRecords) /\ Len(messages) = 0 /\ DOMAIN messages = {}
    BY EmptySeq
  <2>2. QED BY <2>1 DEF MessagesOK
<1>3. RequestsOK
  BY DEF RequestsOK, RequestRecords, Idle
<1>4. KeysOK
  <2>1. \A e \in Epochs, u \in Users :
          envelopes[e][u] = IF e = 1 /\ u \in Invited \cup {Owner} THEN 1 ELSE NoKey
    OBVIOUS
  <2>2. Members = Invited \cup {Owner}
    BY DEF Members
  <2>3. QED
    BY <2>1, <2>2 DEF KeysOK, MembersHoldTheCurrentKey, NoFutureKeys, OpenGroupIsSealed, Members, Holds
<1>5. ReadersOK
  BY DEF ReadersOK, MessagesArePast, OutsidersCannotRead, RecipientsCanRead
<1>6. QED BY <1>1, <1>2, <1>3, <1>4, <1>5, TypeParts DEF GroupIInv

-----------------------------------------------------------------------------
(* Steps that only change what a request knows                             *)

\* A step of one request that touches neither the group nor a message.
LEMMA QuietStep ==
  ASSUME GroupIInv, NEW r \in Requests, NEW x \in RequestRecords, Become(r, x),
         UNCHANGED <<group, messages>>
  PROVE  GroupIInv'
<1>1. RequestsOK'
  BY TypeParts DEF GroupIInv, RequestsOK, Become
<1>2. TablesOK' /\ MessagesOK'
  BY TypeParts DEF GroupIInv, TablesOK, MessagesOK, group
<1>3. KeysOK'
  BY DEF GroupIInv, KeysOK, MembersHoldTheCurrentKey, NoFutureKeys, OpenGroupIsSealed, Members, Holds, group
<1>4. ReadersOK'
  BY DEF GroupIInv, ReadersOK, MessagesArePast, OutsidersCannotRead, RecipientsCanRead, Holds, group
<1>5. QED BY <1>1, <1>2, <1>3, <1>4, TypeParts, PTL DEF GroupIInv

\* The records the handlers leave behind are request records.
LEMMA RequestTypes ==
  ASSUME GroupIInv
  PROVE  /\ Idle \in RequestRecords
         /\ \A u \in Users, e \in Epochs : Sending(u, e) \in RequestRecords
         /\ \A u \in Users : Deleting(u) \in RequestRecords
         /\ \A i \in 1..MaxMessages : LookingUp(i) \in RequestRecords
         /\ \A i \in 1..MaxMessages, todo, reached \in SUBSET Users :
              Delivering(i, todo, reached) \in RequestRecords
         /\ \A i \in 1..MaxMessages, u \in Users : Reading(u, i) \in RequestRecords
         /\ \A e \in Epochs, removed, added, keys \in SUBSET Users :
              Rotating(e, removed, added, keys) \in RequestRecords
BY DEF RequestRecords, Idle, Sending, Deleting, LookingUp, Delivering, Reading, Rotating

\* What a running request is, by its operation.
LEMMA RequestFields ==
  ASSUME GroupIInv, NEW r \in Requests
  PROVE  /\ requests[r] \in RequestRecords
         /\ Running(r, "deliver") => requests[r].todo \in SUBSET Users
         /\ Running(r, "deliver") => requests[r].reached \in SUBSET Users
         /\ requests[r].op \in {"lookup", "deliver", "read"} => requests[r].message \in 1..MaxMessages
         /\ requests[r].op \in {"send", "read", "delete"} => requests[r].user \in Users
         /\ requests[r].op \in {"send", "rotate"} => requests[r].epoch \in Epochs
BY TypeParts DEF GroupIInv, RequestsOK, RequestRecords, Running

\* The ids in use are within the bound.
LEMMA MessageIds ==
  ASSUME GroupIInv
  PROVE  /\ DOMAIN messages \subseteq 1..MaxMessages
         /\ \A i \in DOMAIN messages : messages[i] \in MessageRecords
BY TypeParts DEF GroupIInv, MessagesOK

\* Requests that begin or are abandoned.
LEMMA StartSteps ==
  ASSUME GroupIInv, NEW r \in Requests,
         \/ StartRotate(r)
         \/ \E u \in Users : StartDelete(r, u)
         \/ \E u \in Users, e \in Epochs : StartSend(r, u, e)
         \/ \E u \in Users, i \in DOMAIN messages : StartRead(r, u, i)
         \/ Abort(r)
  PROVE  GroupIInv'
<1>1. CASE StartRotate(r)
  <2>1. PICK removed \in SUBSET (Members \ {Owner}), added \in SUBSET (Users \ Members) :
          Become(r, Rotating(epoch + 1, removed, added, (Members \ removed) \cup added))
    BY <1>1 DEF StartRotate
  <2>2. epoch + 1 \in Epochs
    BY <1>1, TypeParts DEF StartRotate, GroupIInv, TablesOK, Epochs
  <2>3. Rotating(epoch + 1, removed, added, (Members \ removed) \cup added) \in RequestRecords
    BY <2>2, RequestTypes DEF Members
  <2>4. QED BY <1>1, <2>1, <2>3, QuietStep DEF StartRotate
<1>2. ASSUME NEW u \in Users, StartDelete(r, u) PROVE GroupIInv'
  BY <1>2, RequestTypes, QuietStep DEF StartDelete
<1>3. ASSUME NEW u \in Users, NEW e \in Epochs, StartSend(r, u, e) PROVE GroupIInv'
  BY <1>3, RequestTypes, QuietStep DEF StartSend
<1>4. ASSUME NEW u \in Users, NEW i \in DOMAIN messages, StartRead(r, u, i) PROVE GroupIInv'
  BY <1>4, MessageIds, RequestTypes, QuietStep DEF StartRead
<1>5. CASE Abort(r)
  BY <1>5, RequestTypes, QuietStep DEF Abort
<1>6. QED BY <1>1, <1>2, <1>3, <1>4, <1>5

\* What a stored message is pushed to does not change what is stored.
LEMMA BroadcastSteps ==
  ASSUME GroupIInv, NEW r \in Requests,
         \/ LookUp(r)
         \/ \E u \in Users, online \in BOOLEAN : Push(r, u, online)
  PROVE  GroupIInv'
<1>1. CASE LookUp(r)
  <2>1. requests[r].message \in 1..MaxMessages
    BY <1>1, RequestFields DEF LookUp, Running
  <2>2. Delivering(requests[r].message, Active \ {Target(r).sender}, {}) \in RequestRecords
    BY <2>1, RequestTypes DEF Active
  <2>3. QED BY <1>1, <2>2, QuietStep DEF LookUp
<1>2. ASSUME NEW u \in Users, NEW online \in BOOLEAN, Push(r, u, online) PROVE GroupIInv'
  <2> DEFINE reached == IF online THEN requests[r].reached \cup {u} ELSE requests[r].reached
  <2>1. requests[r].message \in 1..MaxMessages
    BY <1>2, RequestFields DEF Push, Running
  <2>2. requests[r].todo \ {u} \in SUBSET Users /\ reached \in SUBSET Users
    BY <1>2, RequestFields DEF Push
  <2>3. Delivering(requests[r].message, requests[r].todo \ {u}, reached) \in RequestRecords
    BY <2>1, <2>2, RequestTypes
  <2>4. QED BY <1>2, <2>3, QuietStep DEF Push
<1>3. QED BY <1>1, <1>2

-----------------------------------------------------------------------------
(* Steps that store a message or update its receipts                       *)

\* Whatever statuses a step writes, it neither adds nor drops a receipt.
LEMMA ReceiptStep ==
  ASSUME GroupIInv, UNCHANGED group, RequestsOK',
         NEW i \in DOMAIN messages,
         NEW receipts \in [DOMAIN messages[i].receipts -> Statuses],
         messages' = [messages EXCEPT ![i].receipts = receipts]
  PROVE  GroupIInv'
<1> DEFINE m == [messages[i] EXCEPT !.receipts = receipts]
<1>1. messages[i] \in MessageRecords
  BY MessageIds
<1>2. DOMAIN messages[i].receipts \in SUBSET Users
  BY <1>1 DEF MessageRecords
<1>3. m \in MessageRecords /\ m.receipts = receipts /\ m.audience = messages[i].audience
      /\ m.epoch = messages[i].epoch
  BY <1>1, <1>2 DEF MessageRecords
<1>4. messages' = [messages EXCEPT ![i] = m]
  OBVIOUS
<1>5. messages \in Seq(MessageRecords) /\ Len(messages) <= MaxMessages
  BY TypeParts DEF GroupIInv, MessagesOK
<1>6. /\ messages' \in Seq(MessageRecords)
      /\ Len(messages') = Len(messages)
      /\ DOMAIN messages' = DOMAIN messages
      /\ \A j \in DOMAIN messages : messages'[j] = IF j = i THEN m ELSE messages[j]
  BY <1>3, <1>4, <1>5
<1>7. \A j \in DOMAIN messages :
        /\ messages'[j].epoch = messages[j].epoch
        /\ messages'[j].audience = messages[j].audience
        /\ DOMAIN messages'[j].receipts = DOMAIN messages[j].receipts
  BY <1>3, <1>6
<1>8. MessagesOK'
  BY <1>5, <1>6, <1>7, TypeParts DEF GroupIInv, MessagesOK
<1>9. TablesOK'
  BY TypeParts DEF GroupIInv, TablesOK, group
<1>10. KeysOK'
  BY DEF GroupIInv, KeysOK, MembersHoldTheCurrentKey, NoFutureKeys, OpenGroupIsSealed, Members, Holds, group
<1>11. ReadersOK'
  <2>1. MessagesArePast'
    <3>1. ~exists => DOMAIN messages = {}
      BY DEF GroupIInv, ReadersOK, MessagesArePast
    <3>2. exists' = exists /\ exists
      BY <3>1 DEF group
    <3>3. QED BY <1>6, <1>7, <3>2 DEF GroupIInv, ReadersOK, MessagesArePast, group
  <2>2. OutsidersCannotRead'
    BY <1>6, <1>7 DEF GroupIInv, ReadersOK, OutsidersCannotRead, Holds, group
  <2>3. RecipientsCanRead'
    BY <1>6, <1>7 DEF GroupIInv, ReadersOK, RecipientsCanRead, group
  <2>4. QED BY <2>1, <2>2, <2>3 DEF ReadersOK
<1>12. QED BY <1>8, <1>9, <1>10, <1>11, TypeParts, PTL DEF GroupIInv

\* A request record in the place of another keeps the requests typed.
LEMMA RequestsTyped ==
  ASSUME GroupIInv, NEW r \in Requests, NEW x \in RequestRecords, Become(r, x)
  PROVE  RequestsOK'
BY TypeParts DEF GroupIInv, RequestsOK, Become

\* A receipt is updated among those of its message.
LEMMA ReceiptSteps ==
  ASSUME GroupIInv, NEW r \in Requests, MarkText(r) \/ MarkFile(r) \/ Read(r)
  PROVE  GroupIInv'
<1> DEFINE id == requests[r].message
           old == messages[id].receipts
<1>1. id \in DOMAIN messages /\ Alive(r)
  BY DEF MarkText, MarkFile, Read, Alive
<1>2. PICK readers \in SUBSET Users : old \in [readers -> Statuses]
  BY <1>1, MessageIds DEF MessageRecords
<1>3. CASE MarkText(r)
  <2>1. DeliveredText(old, requests[r].reached) \in [DOMAIN old -> Statuses]
    BY <1>2 DEF DeliveredText, Statuses
  <2>2. RequestsOK'
    BY <1>3, RequestTypes, RequestsTyped DEF MarkText
  <2>3. messages' = [messages EXCEPT ![id].receipts = DeliveredText(old, requests[r].reached)]
    BY <1>3 DEF MarkText
  <2> HIDE DEF id, old
  <2>4. QED BY <1>1, <1>3, <2>1, <2>2, <2>3, ReceiptStep DEF MarkText, old
<1>4. CASE MarkFile(r)
  <2>1. DeliveredFile(old, requests[r].reached) \in [DOMAIN old -> Statuses]
    BY <1>2 DEF DeliveredFile, Statuses
  <2>2. RequestsOK'
    <3>1. id \in 1..MaxMessages /\ requests[r].todo \in SUBSET Users
      BY <1>4, RequestFields DEF MarkFile, Running
    <3>2. Idle \in RequestRecords /\ Delivering(id, requests[r].todo, {}) \in RequestRecords
      BY <3>1, RequestTypes
    <3>3. QED BY <1>4, <3>2, RequestsTyped DEF MarkFile
  <2>3. messages' = [messages EXCEPT ![id].receipts = DeliveredFile(old, requests[r].reached)]
    BY <1>4 DEF MarkFile
  <2> HIDE DEF id, old
  <2>4. QED BY <1>1, <1>4, <2>1, <2>2, <2>3, ReceiptStep DEF MarkFile, old
<1>5. CASE Read(r)
  <2> DEFINE new == [old EXCEPT ![requests[r].user] = "read"]
  <2>1. new \in [DOMAIN old -> Statuses]
    BY <1>2 DEF Statuses
  <2>2. RequestsOK'
    BY <1>5, RequestTypes, RequestsTyped DEF Read
  <2>3. messages' = [messages EXCEPT ![id].receipts = new]
    BY <1>5 DEF Read
  <2> HIDE DEF id, old, new
  <2>4. QED BY <1>1, <1>5, <2>1, <2>2, <2>3, ReceiptStep DEF Read, old
<1>6. QED BY <1>3, <1>4, <1>5

\* A message goes out under a key that every recipient holds and no outsider
\* does: an open group is sealed, and ValidateSend lets no other one store.
LEMMA StoreStep ==
  ASSUME GroupIInv, NEW r \in Requests, NEW kind \in Kinds, Store(r, kind)
  PROVE  GroupIInv'
<1> DEFINE u == requests[r].user
           id == Len(messages) + 1
           m == Stored(u, kind, requests[r].epoch)
<1>1. exists /\ u \in Active /\ ~rotationRequired /\ requests[r].epoch = epoch
  BY DEF Store, ValidateSend
<1>2. messages \in Seq(MessageRecords) /\ Len(messages) <= MaxMessages
      /\ Len(messages) \in Nat
  BY TypeParts DEF GroupIInv, MessagesOK
<1>3. /\ m \in MessageRecords
      /\ m.epoch = epoch /\ m.audience = Members
      /\ DOMAIN m.receipts = Active /\ Active \subseteq Members
  <2>1. epoch \in Epochs /\ Active \in SUBSET Users /\ Members \in SUBSET Users /\ Active \subseteq Members
    BY TypeParts DEF GroupIInv, TablesOK, Active, Members
  <2>2. [v \in Active |-> IF v = u THEN "read" ELSE "sent"] \in [Active -> Statuses]
    BY DEF Statuses
  <2>3. QED BY <1>1, <2>1, <2>2 DEF Stored, MessageRecords
<1>4. /\ messages' = Append(messages, m)
      /\ Len(messages) < MaxMessages
  BY DEF Store
<1> HIDE DEF m
<1>5. /\ messages' \in Seq(MessageRecords)
      /\ Len(messages') = id
      /\ DOMAIN messages' = DOMAIN messages \cup {id}
      /\ \A j \in DOMAIN messages' : messages'[j] = IF j = id THEN m ELSE messages[j]
      /\ \A j \in DOMAIN messages' : j # id => j \in DOMAIN messages
  BY <1>2, <1>3, <1>4
<1>6. MessagesOK'
  BY <1>2, <1>3, <1>4, <1>5, TypeParts DEF GroupIInv, MessagesOK
<1>7. TablesOK'
  BY TypeParts DEF GroupIInv, TablesOK, group, Store
<1>8. RequestsOK'
  <2>1. id \in 1..MaxMessages
    BY <1>2, <1>4
  <2>2. LookingUp(id) \in RequestRecords /\ Delivering(id, Active \ {u}, {}) \in RequestRecords
    BY <2>1, RequestTypes DEF Active
  <2>3. QED BY <2>2, RequestsTyped DEF Store
<1>9. KeysOK'
  BY DEF GroupIInv, KeysOK, MembersHoldTheCurrentKey, NoFutureKeys, OpenGroupIsSealed, Members, Holds, group, Store
<1>10. ReadersOK'
  <2>1. epoch \in Nat
    BY TypeParts DEF GroupIInv, TablesOK, Epochs
  <2>2. UNCHANGED group
    BY DEF Store
  <2>3. MessagesArePast'
    BY <1>1, <1>3, <1>5, <2>1, <2>2 DEF GroupIInv, ReadersOK, MessagesArePast, group
  <2>4. \A v \in Users \ Members : ~Holds(v, epoch)
    BY <1>1 DEF GroupIInv, KeysOK, OpenGroupIsSealed
  <2>5. OutsidersCannotRead'
    BY <1>3, <1>5, <2>2, <2>4 DEF GroupIInv, ReadersOK, OutsidersCannotRead, Holds, group
  <2>6. \A v \in Active : envelopes[epoch][v] = epoch
    BY <1>1, <1>3 DEF GroupIInv, KeysOK, MembersHoldTheCurrentKey
  <2>7. RecipientsCanRead'
    BY <1>3, <1>5, <2>2, <2>6 DEF GroupIInv, ReadersOK, RecipientsCanRead, group
  <2>8. QED BY <2>3, <2>5, <2>7 DEF ReadersOK
<1>11. QED BY <1>6, <1>7, <1>8, <1>9, <1>10, TypeParts, PTL DEF GroupIInv

-----------------------------------------------------------------------------
(* Steps that change the members or the keys                               *)

\* A member who accepts was given the current key when invited.
LEMMA AcceptMembershipStep ==
  ASSUME GroupIInv, NEW u \in Users, AcceptMembership(u)
  PROVE  GroupIInv'
<1>1. TablesOK'
  BY TypeParts DEF GroupIInv, TablesOK, AcceptMembership, Roles
<1>2. MessagesOK' /\ RequestsOK'
  BY TypeParts DEF GroupIInv, MessagesOK, RequestsOK, AcceptMembership
<1>3. Members' = Members
  BY TypeParts DEF GroupIInv, TablesOK, AcceptMembership, Members
<1>4. KeysOK'
  BY <1>3 DEF GroupIInv, KeysOK, MembersHoldTheCurrentKey, NoFutureKeys, OpenGroupIsSealed, Holds, AcceptMembership
<1>5. ReadersOK'
  BY DEF GroupIInv, ReadersOK, MessagesArePast, OutsidersCannotRead, RecipientsCanRead, Holds, AcceptMembership
<1>6. QED BY <1>1, <1>2, <1>4, <1>5, TypeParts, PTL DEF GroupIInv

\* The new epoch's envelopes go to the final members and to nobody else, so
\* the group is sealed again and old messages keep their readers.
LEMMA RotateStep ==
  ASSUME GroupIInv, NEW r \in Requests, Rotate(r)
  PROVE  GroupIInv'
<1> DEFINE req == requests[r]
<1>1. /\ exists /\ exists'
      /\ req.epoch = epoch + 1 /\ req.epoch \in Epochs /\ epoch \in Epochs
      /\ epoch' = req.epoch
  BY RequestFields, TypeParts DEF Rotate, NextEpoch, Running, GroupIInv, TablesOK
<1>2. /\ req.removed \subseteq Members \ {Owner}
      /\ req.added \cap Members = {}
      /\ req.keys = (Members \ req.removed) \cup req.added
  BY DEF Rotate, KeysForEveryFinalMember
<1>3. requests[r] \in RequestRecords
  BY RequestFields
<1>4. req.added \subseteq Users /\ req.keys \subseteq Users
  BY <1>3 DEF Rotate, Running, RequestRecords
<1>5. \A u \in Users : role'[u] = IF u \in req.removed THEN "none"
                                  ELSE IF u \in req.added THEN "pending" ELSE role[u]
  BY DEF Rotate
<1>6. Members' = req.keys
  BY <1>2, <1>4, <1>5 DEF Members
<1>7. /\ \A e \in Epochs, u \in Users :
           envelopes'[e][u] = IF e = req.epoch /\ u \in req.keys THEN req.epoch ELSE envelopes[e][u]
      /\ \A u \in Users : memberKey'[u] = IF u \in req.keys THEN req.epoch ELSE NoKey
  BY DEF Rotate
<1>8. TablesOK'
  <2>1. envelopes' \in [Epochs -> [Users -> Epochs \cup {NoKey}]]
    BY <1>1, TypeParts DEF GroupIInv, TablesOK, Rotate
  <2>2. memberKey' \in [Users -> Epochs \cup {NoKey}]
    BY <1>1 DEF Rotate
  <2>3. role' \in [Users -> Roles]
    BY TypeParts DEF GroupIInv, TablesOK, Rotate, Roles
  <2>4. role'[Owner] = "owner"
    <3>1. role[Owner] = "owner"
      BY <1>1, TypeParts DEF GroupIInv, TablesOK
    <3>2. Owner \in Members
      BY <3>1 DEF Members
    <3>3. QED BY <1>2, <1>5, <3>1, <3>2
  <2>5. \A u \in Users : memberKey'[u] # NoKey <=> role'[u] # "none"
    BY <1>1, <1>6, <1>7 DEF Members, NoKey, Epochs
  <2>6. QED BY <1>1, <2>1, <2>2, <2>3, <2>4, <2>5, TypeParts DEF GroupIInv, TablesOK, Rotate
<1>9. MessagesOK' /\ RequestsOK'
  BY RequestTypes, RequestsTyped, TypeParts DEF GroupIInv, MessagesOK, Rotate
<1>10. KeysOK'
  <2>1. MembersHoldTheCurrentKey'
    BY <1>1, <1>4, <1>6, <1>7 DEF MembersHoldTheCurrentKey
  <2>2. \A e \in Epochs, u \in Users :
          envelopes[e][u] \in Epochs \cup {NoKey} /\ envelopes[e][u] <= epoch
          /\ (e > epoch => envelopes[e][u] = NoKey)
    BY TypeParts DEF GroupIInv, TablesOK, KeysOK, NoFutureKeys
  <2> HIDE DEF req
  <2>3. NoFutureKeys'
    BY <1>1, <1>7, <2>2 DEF NoFutureKeys, Epochs, NoKey
  <2>4. \A u \in Users, e \in Epochs : envelopes'[e][u] = epoch' => u \in req.keys
    BY <1>1, <1>7, <2>2 DEF Epochs, NoKey
  <2>5. OpenGroupIsSealed'
    BY <1>6, <2>4 DEF OpenGroupIsSealed, Holds
  <2>6. QED BY <2>1, <2>3, <2>5 DEF KeysOK
<1>11. ReadersOK'
  <2>1. \A i \in DOMAIN messages : messages[i].epoch \in Epochs /\ messages[i].epoch < req.epoch
    BY <1>1, MessageIds DEF MessageRecords, GroupIInv, ReadersOK, MessagesArePast, Epochs
  <2>2. UNCHANGED messages
    BY DEF Rotate
  <2>3. MessagesArePast'
    BY <1>1, <2>1, <2>2 DEF MessagesArePast, Epochs
  <2>4. OutsidersCannotRead'
    BY <1>1, <1>7, <2>1, <2>2 DEF GroupIInv, ReadersOK, OutsidersCannotRead, Holds, Epochs
  <2>5. RecipientsCanRead'
    <3>1. \A i \in DOMAIN messages : DOMAIN messages[i].receipts \subseteq Users
      BY MessageIds DEF MessageRecords
    <3>2. QED BY <1>1, <1>7, <2>1, <2>2, <3>1 DEF GroupIInv, ReadersOK, RecipientsCanRead, Epochs
  <2>6. QED BY <2>3, <2>4, <2>5 DEF ReadersOK
<1>12. QED BY <1>8, <1>9, <1>10, <1>11, TypeParts, PTL DEF GroupIInv

\* Whoever leaves is no longer a member; the others keep their keys.
LEMMA LeaveGroupStep ==
  ASSUME GroupIInv, NEW r \in Requests, LeaveGroup(r)
  PROVE  GroupIInv'
<1> DEFINE u == requests[r].user
<1>1. u \in Users /\ u # Owner
  BY RequestFields DEF LeaveGroup, Running
<1>2. TablesOK'
  BY <1>1, TypeParts DEF GroupIInv, TablesOK, LeaveGroup, Roles
<1>3. MessagesOK' /\ RequestsOK'
  BY RequestTypes, RequestsTyped, TypeParts DEF GroupIInv, MessagesOK, LeaveGroup
<1>4. Members' = Members \ {u}
  BY <1>1, TypeParts DEF GroupIInv, TablesOK, LeaveGroup, Members
<1>5. KeysOK'
  <2>1. \A v \in Users \ {u} : memberKey'[v] = memberKey[v]
    BY TypeParts DEF LeaveGroup, GroupIInv, TablesOK
  <2>2. MembersHoldTheCurrentKey'
    BY <1>4, <2>1 DEF GroupIInv, KeysOK, MembersHoldTheCurrentKey, LeaveGroup, Members
  <2>3. NoFutureKeys' /\ OpenGroupIsSealed'
    BY DEF GroupIInv, KeysOK, NoFutureKeys, OpenGroupIsSealed, LeaveGroup
  <2>4. QED BY <2>2, <2>3 DEF KeysOK
<1>6. ReadersOK'
  BY DEF GroupIInv, ReadersOK, MessagesArePast, OutsidersCannotRead, RecipientsCanRead, Holds, LeaveGroup
<1>7. QED BY <1>2, <1>3, <1>5, <1>6, TypeParts, PTL DEF GroupIInv

\* A deleted group has no members left to hold a key.
LEMMA DeleteGroupStep ==
  ASSUME GroupIInv, NEW r \in Requests, DeleteGroup(r)
  PROVE  GroupIInv'
<1>1. TablesOK'
  <2>1. envelopes' \in [Epochs -> [Users -> Epochs \cup {NoKey}]]
    BY DEF DeleteGroup
  <2>2. role' \in [Users -> Roles] /\ memberKey' \in [Users -> Epochs \cup {NoKey}]
    BY DEF DeleteGroup, Roles
  <2>3. epoch' \in Epochs
    BY DEF DeleteGroup, Epochs
  <2>4. exists' = FALSE /\ rotationRequired' = FALSE /\ role'[Owner] = "none"
        /\ \A u \in Users : memberKey'[u] = NoKey /\ role'[u] = "none"
    BY DEF DeleteGroup
  <2>5. QED BY <2>1, <2>2, <2>3, <2>4 DEF TablesOK
<1>2. MessagesOK'
  <2>1. messages' \in Seq(MessageRecords) /\ Len(messages') = 0 /\ DOMAIN messages' = {}
    BY EmptySeq DEF DeleteGroup
  <2>2. QED BY <2>1 DEF MessagesOK
<1>3. RequestsOK'
  BY RequestTypes, RequestsTyped DEF DeleteGroup
<1>4. KeysOK'
  BY DEF KeysOK, MembersHoldTheCurrentKey, NoFutureKeys, OpenGroupIsSealed, DeleteGroup, Epochs, NoKey
<1>5. ReadersOK'
  BY DEF ReadersOK, MessagesArePast, OutsidersCannotRead, RecipientsCanRead, DeleteGroup
<1>6. QED BY <1>1, <1>2, <1>3, <1>4, <1>5, TypeParts, PTL DEF GroupIInv

\* The backfill mislabels a key, but gives it to nobody who does not hold it.
LEMMA RestartStep ==
  ASSUME GroupIInv, Restart
  PROVE  GroupIInv'
<1>1. \A e \in Epochs, u \in Users :
        envelopes'[e][u] = IF e = 1 /\ u \in Members /\ envelopes[e][u] = NoKey
                           THEN memberKey[u] ELSE envelopes[e][u]
  BY DEF Restart, Backfilled
<1>2. \A u \in Members : u \in Users /\ exists /\ memberKey[u] = epoch /\ envelopes[epoch][u] = epoch
  <2>1. Members # {} => exists
    BY DEF GroupIInv, ReadersOK, MessagesArePast, Members
  <2>2. QED BY <2>1 DEF GroupIInv, KeysOK, MembersHoldTheCurrentKey, Members
<1>3. epoch \in Epochs
  BY TypeParts DEF GroupIInv, TablesOK
<1>4. TablesOK'
  <2>1. envelopes' \in [Epochs -> [Users -> Epochs \cup {NoKey}]]
    BY TypeParts DEF GroupIInv, TablesOK, Restart, Backfilled
  <2>2. QED BY <2>1, TypeParts DEF GroupIInv, TablesOK, Restart
<1>5. MessagesOK' /\ RequestsOK'
  BY RequestTypes, TypeParts DEF GroupIInv, MessagesOK, RequestsOK, Restart
<1>6. \A u \in Users, key \in Epochs : Holds(u, key)' => Holds(u, key)
  BY <1>1, <1>2, <1>3 DEF Holds
<1>7. KeysOK'
  <2>1. Members' = Members
    BY DEF Restart, Members
  <2>2. MembersHoldTheCurrentKey'
    BY <1>1, <1>2, <1>3, <2>1 DEF MembersHoldTheCurrentKey, Restart, NoKey
  <2>3. NoFutureKeys'
    BY <1>1, <1>2, <1>3 DEF GroupIInv, KeysOK, NoFutureKeys, Restart, Epochs
  <2>4. OpenGroupIsSealed'
    BY <1>3, <1>6, <2>1 DEF GroupIInv, KeysOK, OpenGroupIsSealed, Restart, Holds
  <2>5. QED BY <2>2, <2>3, <2>4 DEF KeysOK
<1>8. ReadersOK'
  <2>1. \A i \in DOMAIN messages :
          messages[i].epoch \in Epochs /\ DOMAIN messages[i].receipts \subseteq Users
    BY MessageIds DEF MessageRecords
  <2>2. UNCHANGED <<messages, exists, epoch, role>>
    BY DEF Restart
  <2>3. MessagesArePast'
    BY <2>2 DEF GroupIInv, ReadersOK, MessagesArePast
  <2>4. OutsidersCannotRead'
    BY <1>6, <2>1, <2>2 DEF GroupIInv, ReadersOK, OutsidersCannotRead, Holds
  <2>5. RecipientsCanRead'
    BY <1>1, <2>1, <2>2 DEF GroupIInv, ReadersOK, RecipientsCanRead, NoKey, Epochs
  <2>6. QED BY <2>3, <2>4, <2>5 DEF ReadersOK
<1>9. QED BY <1>4, <1>5, <1>7, <1>8, TypeParts, PTL DEF GroupIInv

-----------------------------------------------------------------------------
(* The theorems                                                            *)

\* Every step keeps the invariant.
LEMMA GroupStays == GroupIInv /\ [GroupNext]_groupVars => GroupIInv'
<1> SUFFICES ASSUME GroupIInv, [GroupNext]_groupVars PROVE GroupIInv'
  OBVIOUS
<1>1. ASSUME NEW u \in Users, AcceptMembership(u) PROVE GroupIInv'
  BY <1>1, AcceptMembershipStep
<1>2. ASSUME NEW r \in Requests,
             \/ StartRotate(r)
             \/ \E u \in Users : StartDelete(r, u)
             \/ \E u \in Users, e \in Epochs : StartSend(r, u, e)
             \/ \E u \in Users, i \in DOMAIN messages : StartRead(r, u, i)
             \/ Abort(r)
      PROVE  GroupIInv'
  BY <1>2, StartSteps
<1>3. ASSUME NEW r \in Requests, Rotate(r) PROVE GroupIInv'
  BY <1>3, RotateStep
<1>4. ASSUME NEW r \in Requests, LeaveGroup(r) PROVE GroupIInv'
  BY <1>4, LeaveGroupStep
<1>5. ASSUME NEW r \in Requests, DeleteGroup(r) PROVE GroupIInv'
  BY <1>5, DeleteGroupStep
<1>6. ASSUME NEW r \in Requests, NEW kind \in Kinds, Store(r, kind) PROVE GroupIInv'
  BY <1>6, StoreStep
<1>7. ASSUME NEW r \in Requests,
             LookUp(r) \/ \E u \in Users, online \in BOOLEAN : Push(r, u, online)
      PROVE  GroupIInv'
  BY <1>7, BroadcastSteps
<1>8. ASSUME NEW r \in Requests, MarkText(r) \/ MarkFile(r) \/ Read(r) PROVE GroupIInv'
  BY <1>8, ReceiptSteps
<1>9. CASE Restart
  BY <1>9, RestartStep
<1>10. CASE UNCHANGED groupVars
  <2>1. TablesOK' /\ MessagesOK' /\ RequestsOK'
    BY <1>10, TypeParts DEF GroupIInv, TablesOK, MessagesOK, RequestsOK, groupVars
  <2>2. KeysOK'
    BY <1>10 DEF GroupIInv, KeysOK, MembersHoldTheCurrentKey, NoFutureKeys, OpenGroupIsSealed, Members, Holds, groupVars
  <2>3. ReadersOK'
    BY <1>10 DEF GroupIInv, ReadersOK, MessagesArePast, OutsidersCannotRead, RecipientsCanRead, Holds, groupVars
  <2>4. QED BY <2>1, <2>2, <2>3, TypeParts, PTL DEF GroupIInv
<1>11. QED
  BY <1>1, <1>2, <1>3, <1>4, <1>5, <1>6, <1>7, <1>8, <1>9, <1>10 DEF GroupNext

\* The inductive invariant holds in every reachable state: the groundwork of
\* what follows, whatever requests cross in conversations/handlers.go.
THEOREM GroupInvariant == GroupSpec => []GroupIInv
  BY GroupStarts, GroupStays, PTL DEF GroupSpec

\* The tables keep their columns.
THEOREM GroupTypes == GroupSpec => []GroupTypeOK
<1>1. GroupIInv => GroupTypeOK
  BY DEF GroupIInv
<1>2. QED BY <1>1, GroupInvariant, PTL

\* Every member of the group holds the current key, after any rotation that
\* raced a departure and any restart.
THEOREM GroupMembersHoldTheCurrentKey == GroupSpec => []MembersHoldTheCurrentKey
<1>1. GroupIInv => MembersHoldTheCurrentKey
  BY DEF GroupIInv, KeysOK
<1>2. QED BY <1>1, GroupInvariant, PTL

\* No message is ever readable by someone who was not a member when it was
\* stored: the promise of key rotation after an addition or a removal.
THEOREM GroupOutsidersCannotRead == GroupSpec => []OutsidersCannotRead
<1>1. GroupIInv => OutsidersCannotRead
  BY DEF GroupIInv, ReadersOK
<1>2. QED BY <1>1, GroupInvariant, PTL

\* Whoever owes a receipt can decrypt the message.
THEOREM GroupRecipientsCanRead == GroupSpec => []RecipientsCanRead
<1>1. GroupIInv => RecipientsCanRead
  BY DEF GroupIInv, ReadersOK
<1>2. QED BY <1>1, GroupInvariant, PTL

\* A status that a text's broadcast writes is never behind the one it replaces.
LEMMA DeliveredTextAdvances ==
  ASSUME NEW readers, NEW receipts \in [readers -> Statuses], NEW reached, NEW u \in readers
  PROVE  Rank(DeliveredText(receipts, reached)[u]) >= Rank(receipts[u])
BY DEF DeliveredText, Statuses, Rank

\* No step takes back the receipt of a text.
LEMMA TextReceiptStep == GroupIInv /\ GroupNext => NeverRegress("text")
<1> SUFFICES ASSUME GroupIInv, GroupNext,
                    NEW i \in DOMAIN messages \cap DOMAIN messages',
                    messages[i].kind = "text",
                    NEW u \in DOMAIN messages[i].receipts
             PROVE  Rank(messages'[i].receipts[u]) >= Rank(messages[i].receipts[u])
  BY DEF NeverRegress
<1> DEFINE old == messages[i].receipts
<1>1. PICK readers \in SUBSET Users : old \in [readers -> Statuses]
  BY MessageIds DEF MessageRecords
<1>2. messages[i] \in MessageRecords /\ u \in readers /\ old[u] \in Statuses
  BY <1>1, MessageIds
<1>3. Rank(old[u]) \in {0, 1, 2} /\ Rank("read") = 2
  BY <1>2 DEF Rank, Statuses
<1>4. ASSUME UNCHANGED messages PROVE Rank(messages'[i].receipts[u]) >= Rank(old[u])
  BY <1>3, <1>4
<1>5. ASSUME NEW r \in Requests, NEW kind \in Kinds, Store(r, kind)
      PROVE  Rank(messages'[i].receipts[u]) >= Rank(old[u])
  <2>1. messages \in Seq(MessageRecords)
    BY TypeParts DEF GroupIInv, MessagesOK
  <2>2. messages'[i] = messages[i]
    BY <1>5, <2>1 DEF Store
  <2>3. QED BY <1>3, <2>2
<1>6. ASSUME NEW r \in Requests, DeleteGroup(r)
      PROVE  Rank(messages'[i].receipts[u]) >= Rank(old[u])
  BY <1>6 DEF DeleteGroup
<1>7. ASSUME NEW r \in Requests, MarkText(r)
      PROVE  Rank(messages'[i].receipts[u]) >= Rank(old[u])
  <2>1. CASE i = requests[r].message
    <3>1. messages'[i].receipts = DeliveredText(old, requests[r].reached)
      BY <1>2, <1>7, <2>1 DEF MarkText, MessageRecords
    <3>2. QED BY <1>1, <1>2, <3>1, DeliveredTextAdvances
  <2>2. CASE i # requests[r].message
    BY <1>3, <1>7, <2>2 DEF MarkText
  <2>3. QED BY <2>1, <2>2
<1>8. ASSUME NEW r \in Requests, MarkFile(r)
      PROVE  Rank(messages'[i].receipts[u]) >= Rank(old[u])
  <2>1. i # requests[r].message
    BY <1>8 DEF MarkFile, Target
  <2>2. QED BY <1>3, <1>8, <2>1 DEF MarkFile
<1>9. ASSUME NEW r \in Requests, Read(r)
      PROVE  Rank(messages'[i].receipts[u]) >= Rank(old[u])
  <2>1. messages'[i].receipts[u] \in {old[u], "read"}
    BY <1>1, <1>2, <1>9 DEF Read, MessageRecords
  <2>2. QED BY <1>3, <2>1
<1>10. QED
  BY <1>4, <1>5, <1>6, <1>7, <1>8, <1>9
     DEF GroupNext, AcceptMembership, StartRotate, Rotate, StartDelete, LeaveGroup, StartSend, LookUp, Push, StartRead,
         Abort, Restart

\* The receipt of a text never goes back, whatever reads its broadcast races.
THEOREM GroupTextReceipts == GroupSpec => TextReceiptsNeverRegress
<1>1. GroupIInv /\ [GroupNext]_groupVars => [NeverRegress("text")]_groupVars
  BY TextReceiptStep
<1>2. QED BY <1>1, GroupInvariant, PTL DEF GroupSpec, TextReceiptsNeverRegress
=============================================================================
