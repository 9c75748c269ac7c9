-------------------------- MODULE PresentationProofs --------------------------
(***************************************************************************)
(* What the scheduler of presentation tasks guarantees for any requests,   *)
(* connections, schema operations and thread allocations: rivals never run *)
(* together, a connection that is blocked is quiet, no task is in two      *)
(* places, a manager that is gone has left nothing behind, and the         *)
(* variables keep their types.                                             *)
(*                                                                         *)
(* The first two rest on what a step may do to the running tasks, the      *)
(* blockers and those who wait, which is one of five effects; the others   *)
(* on invariants about the script, the tasks and the blockers.             *)
(***************************************************************************)
EXTENDS Presentation, SubsequenceProofs

(* Tasks stay as they are, one that can execute starts, or a ping does     *)
(* when none runs.                                                         *)
Starts ==
    /\ \/ running' = running
       \/ \E t : running' = running \cup {t} /\ CanExecute(t)
       \/ running = {} /\ running' = {Ping}
    /\ UNCHANGED <<blockers, awaited>>

Ends ==
    \E t : /\ running' = running \ {t}
           /\ awaited' = [w \in Waiters |-> awaited[w] \ {t}]
           /\ UNCHANGED blockers

BlocksConnection ==
    \E c \in Connections, by \in {"Closed", "Suspended"} :
        /\ UNCHANGED running
        /\ blockers' = blockers \cup {<<by, c>>}
        /\ awaited' = [awaited EXCEPT ![c] = {t \in running : c \in DependsOn(t)}]

Unblocks == UNCHANGED <<running, awaited>> /\ blockers' \subseteq blockers

ManagerAwaits ==
    /\ UNCHANGED <<running, blockers>>
    /\ \E S : awaited' = [awaited EXCEPT ![Manager] = S]

LEMMA CheckStarts ==
    ASSUME CheckTasks
    PROVE  Starts
<1>1. CASE RunPending
  BY <1>1 DEF RunPending, Executable, Starts
<1>2. CASE RunQueued
  <2>1. PICK i \in Eligible :
            IF CanExecute(queue[i])
            THEN running' = running \cup {queue[i]} /\ UNCHANGED pending
            ELSE pending' = Append(pending, queue[i]) /\ UNCHANGED running
    BY <1>2 DEF RunQueued
  <2> QED
    BY <1>2, <2>1 DEF RunQueued, Starts
<1>3. CASE EndCheck
  BY <1>3 DEF EndCheck, NeedsPing, Starts
<1> QED
  BY <1>1, <1>2, <1>3 DEF CheckTasks

LEMMA BlockInterruptTasksBlocks ==
    ASSUME NEW c \in Connections, NEW by \in {"Closed", "Suspended"}, NEW request,
           BlockInterruptTasks(c, by, request)
    PROVE  BlocksConnection
<1>1. /\ UNCHANGED running
      /\ blockers' = blockers \cup {<<by, c>>}
      /\ awaited' = [awaited EXCEPT ![c] = {t \in running : c \in DependsOn(t)}]
  <2>1. {t \in Held : c \in DependsOn(t)} \cap running = {t \in running : c \in DependsOn(t)}
    BY Zenon DEF Held
  <2> QED
    BY <2>1, Zenon DEF BlockInterruptTasks, Cancel
<1> QED
  BY <1>1, Zenon DEF BlocksConnection

LEMMA UnblockUnblocks ==
    ASSUME NEW c, NEW by, Unblock(c, by)
    PROVE  Unblocks
BY DEF Unblock, Unblocks

LEMMA StepEffects ==
    ASSUME [Next]_vars
    PROVE  Starts \/ Ends \/ BlocksConnection \/ Unblocks \/ ManagerAwaits
<1>1. ASSUME UNCHANGED <<running, blockers, awaited>>
      PROVE  Starts
  BY <1>1 DEF Starts
<1>2. ASSUME NEW r, Issue(r) PROVE Starts
  BY <1>1, <1>2 DEF Issue, Schedule
<1>3. ASSUME NEW r, NEW n, Reissue(r, n) PROVE Starts
  BY <1>1, <1>3 DEF Reissue, Schedule
<1>4. ASSUME NEW r, NEW n, AbortRequest(r, n) PROVE Starts
  BY <1>1, <1>4 DEF AbortRequest, Abort
<1>5. ASSUME NEW l, Lock(l) \/ Unlock(l) PROVE Starts
  BY <1>1, <1>5 DEF Lock, Unlock, LockLevel, UnlockLevel
<1>6. CASE Scheduling
  <2>1. ASSUME NEW t, Finish(t) PROVE Ends
    BY <2>1 DEF Finish, Ends
  <2> QED
    BY <1>6, <2>1, CheckStarts DEF Scheduling
<1>7. ASSUME NEW c \in Connections, OnBeforeSchemaChanges(c) \/ OnAfterSchemaChanges(c)
      PROVE  Starts \/ BlocksConnection \/ Unblocks
  <2>1. CASE UNCHANGED schedVars
    BY <2>1, <1>1 DEF schedVars
  <2>2. CASE BlockInterruptTasks(c, "Suspended", "restart")
    BY <2>2, BlockInterruptTasksBlocks
  <2>3. CASE Unblock(c, "Suspended")
    BY <2>3, UnblockUnblocks
  <2> QED
    BY <1>7, <2>1, <2>2, <2>3 DEF OnBeforeSchemaChanges, OnAfterSchemaChanges
<1>8. ASSUME NEW c \in Connections, \/ \E op \in Operations : BeginOperation(c, op)
                                    \/ SchemaEvent(c)
      PROVE  Starts \/ BlocksConnection \/ Unblocks
  BY <1>7, <1>8 DEF BeginOperation, SchemaEvent
<1>9. ASSUME NEW c \in Connections, OnConnectionClosed(c) PROVE BlocksConnection
  BY <1>9, BlockInterruptTasksBlocks DEF OnConnectionClosed
<1>10. ASSUME NEW c \in Connections, BeginClose(c) \/ EndClose(c) PROVE BlocksConnection \/ Unblocks
  BY <1>9, <1>10, UnblockUnblocks DEF BeginClose, EndClose
<1>11. CASE BeginDestruction
  BY <1>1, <1>11 DEF BeginDestruction, schedVars
<1>12. CASE Destruction
  <2>1. CASE CloseConnections
    BY <1>9, <2>1 DEF CloseConnections
  <2>2. CASE CancelAll
    <3>1. /\ UNCHANGED <<running, blockers>>
          /\ awaited' = [awaited EXCEPT ![Manager] = Held \cap running]
      BY <2>2, Zenon DEF CancelAll, Cancel
    <3> QED
      BY <3>1, Zenon DEF ManagerAwaits
  <2>3. CASE AwaitAll
    BY <2>3, Zenon DEF AwaitAll, ManagerAwaits
  <2>4. CASE Delete
    BY <1>1, <2>4 DEF Delete, schedVars
  <2> QED
    BY <1>12, <2>1, <2>2, <2>3, <2>4 DEF Destruction
<1>13. CASE UNCHANGED vars
  BY <1>1, <1>13 DEF vars, schedVars
<1> QED
  BY <1>2, <1>3, <1>4, <1>5, <1>6, <1>8, <1>10, <1>11, <1>12, <1>13 DEF Next

-------------------------------------------------------------------------------
(***************************************************************************)
(* Two tasks that keep each other from starting never run together.        *)
(***************************************************************************)
THEOREM RivalsNeverMeet == SafetySpec => []RivalsApart
<1>1. Init => RivalsApart
  BY DEF Init, SchedulerInit, RivalsApart
<1>2. RivalsApart /\ [Next]_vars => RivalsApart'
  <2> SUFFICES ASSUME RivalsApart, [Next]_vars,
                      NEW t \in running', NEW u \in running', t # u
               PROVE  ~(Blocks(t, u) /\ Blocks(u, t))
    BY Zenon DEF RivalsApart
  <2>1. CASE t \in running /\ u \in running
    BY <2>1 DEF RivalsApart
  <2>2. CASE ~(t \in running /\ u \in running)
    <3>1. PICK v : running' = running \cup {v} /\ CanExecute(v)
      BY <2>2, StepEffects DEF Starts, Ends, BlocksConnection, Unblocks, ManagerAwaits
    <3> QED
      BY <2>2, <3>1 DEF CanExecute
  <2> QED
    BY <2>1, <2>2
<1> QED
  BY <1>1, <1>2, PTL DEF SafetySpec

-------------------------------------------------------------------------------
(***************************************************************************)
(* The tasks that run on a blocked connection are those its thread awaits. *)
(***************************************************************************)
BlockedAreAwaited ==
    /\ DOMAIN awaited = Waiters
    /\ \A b \in blockers :
          /\ b[2] \in Connections
          /\ \A t \in running : b[2] \in DependsOn(t) => t \in awaited[b[2]]

LEMMA BlockedAreAwaitedIsInvariant == SafetySpec => []BlockedAreAwaited
<1>1. Init => BlockedAreAwaited
  BY DEF Init, SchedulerInit, BlockedAreAwaited
<1>2. BlockedAreAwaited /\ [Next]_vars => BlockedAreAwaited'
  <2> SUFFICES ASSUME BlockedAreAwaited, [Next]_vars PROVE BlockedAreAwaited'
    OBVIOUS
  <2>1. CASE Starts
    <3> SUFFICES ASSUME NEW b \in blockers, NEW t \in running', b[2] \in DependsOn(t)
                 PROVE  t \in awaited[b[2]]
      BY <2>1, Zenon DEF Starts, BlockedAreAwaited
    <3>1. b[2] \notin DependsOn(Ping)
      BY DEF DependsOn
    <3>2. ~CanExecute(t)
      BY DEF CanExecute, BlockedByBlocker
    <3> QED
      BY <2>1, <3>1, <3>2 DEF Starts, BlockedAreAwaited
  <2>2. CASE Ends
    BY <2>2 DEF Ends, BlockedAreAwaited, Waiters
  <2>3. CASE BlocksConnection
    <3>1. PICK c \in Connections, by \in {"Closed", "Suspended"} :
              /\ UNCHANGED running
              /\ blockers' = blockers \cup {<<by, c>>}
              /\ awaited' = [awaited EXCEPT ![c] = {t \in running : c \in DependsOn(t)}]
      BY <2>3, Zenon DEF BlocksConnection
    <3>2. c \in DOMAIN awaited
      BY DEF BlockedAreAwaited, Waiters
    <3> QED
      BY <3>1, <3>2 DEF BlockedAreAwaited
  <2>4. CASE Unblocks
    BY <2>4 DEF Unblocks, BlockedAreAwaited
  <2>5. CASE ManagerAwaits
    BY <2>5, TaskSchedulerAssumption DEF ManagerAwaits, BlockedAreAwaited
  <2> QED
    BY <2>1, <2>2, <2>3, <2>4, <2>5, StepEffects
<1> QED
  BY <1>1, <1>2, PTL DEF SafetySpec

(***************************************************************************)
(* Once the thread that suspends or closes a connection has seen its tasks *)
(* complete, none of them runs until it removes the blocker.               *)
(***************************************************************************)
THEOREM BlockedIsQuiet == SafetySpec => []QuietWhileBlocked
<1>1. BlockedAreAwaited => QuietWhileBlocked
  BY DEF BlockedAreAwaited, QuietWhileBlocked
<1> QED
  BY <1>1, BlockedAreAwaitedIsInvariant, PTL

-------------------------------------------------------------------------------
(***************************************************************************)
(* What the queue and the pending list become.                             *)
(***************************************************************************)

(* A sequence without the element at one place.                            *)
LEMMA RemoveAtProperties ==
    ASSUME NEW R, NEW s \in Seq(R), NEW i \in DOMAIN s
    PROVE  /\ RemoveAt(s, i) \in Seq(R) /\ s[i] \in R
           /\ Range(RemoveAt(s, i)) \subseteq Range(s)
           /\ Range(s) = Range(RemoveAt(s, i)) \cup {s[i]}
           /\ NoRepeats(s) => NoRepeats(RemoveAt(s, i)) /\ s[i] \notin Range(RemoveAt(s, i))
<1> DEFINE w == RemoveAt(s, i)
           a == SubSeq(s, 1, i - 1)
           b == SubSeq(s, i + 1, Len(s))
<1>0. Len(s) \in Nat /\ DOMAIN s = 1..Len(s) /\ i \in 1..Len(s) /\ s[i] \in R
  OBVIOUS
<1>1. a \in Seq(R) /\ Len(a) = i - 1 /\ \A n \in 1..i - 1 : a[n] = s[n]
  BY <1>0
<1>2. b \in Seq(R) /\ Len(b) = Len(s) - i /\ \A n \in 1..Len(s) - i : b[n] = s[i + n]
  BY <1>0
<1>3. w = a \o b
  BY DEF RemoveAt
<1> HIDE DEF w, a, b
<1>4. /\ w \in Seq(R) /\ Len(w) = Len(s) - 1 /\ DOMAIN w = 1..Len(s) - 1
      /\ \A n \in 1..Len(s) - 1 : w[n] = IF n < i THEN s[n] ELSE s[n + 1]
  <2>1. /\ w \in Seq(R) /\ Len(w) = Len(a) + Len(b)
        /\ \A n \in 1..Len(a) + Len(b) :
              w[n] = IF n <= Len(a) THEN a[n] ELSE b[n - Len(a)]
    BY <1>1, <1>2, <1>3, ConcatProperties
  <2>2. Len(w) = Len(s) - 1 /\ DOMAIN w = 1..Len(s) - 1
    BY <1>0, <1>1, <1>2, <2>1
  <2>3. ASSUME NEW n \in 1..Len(s) - 1
        PROVE  w[n] = IF n < i THEN s[n] ELSE s[n + 1]
    <3>1. n \in 1..Len(a) + Len(b)
      BY <1>0, <1>1, <1>2
    <3>2. CASE n < i
      BY <1>0, <1>1, <2>1, <3>1, <3>2
    <3>3. CASE ~(n < i)
      <4>1. n - (i - 1) \in 1..Len(s) - i /\ i + (n - (i - 1)) = n + 1 /\ ~(n <= i - 1)
        BY <1>0, <3>3
      <4>2. w[n] = b[n - (i - 1)]
        BY <1>1, <2>1, <3>1, <4>1
      <4> QED BY <1>2, <3>3, <4>1, <4>2
    <3> QED BY <3>2, <3>3
  <2> QED BY <2>1, <2>2, <2>3
<1>5. \A x : x \in Range(w) <=> \E n \in 1..Len(s) - 1 : x = w[n]
  BY <1>4 DEF Range
<1>6. \A x : x \in Range(s) <=> \E n \in 1..Len(s) : x = s[n]
  BY <1>0 DEF Range
<1>7. Range(w) \subseteq Range(s)
  BY <1>0, <1>4, <1>5, <1>6
<1>8. \A n \in 1..Len(s) : s[n] \in Range(w) \/ n = i
  <2> SUFFICES ASSUME NEW n \in 1..Len(s), n # i
               PROVE  s[n] \in Range(w)
    OBVIOUS
  <2>1. CASE n < i
    BY <1>0, <1>4, <1>5, <2>1
  <2>2. CASE i < n
    <3>1. n - 1 \in 1..Len(s) - 1 /\ w[n - 1] = s[n]
      BY <1>0, <1>4, <2>2
    <3> QED BY <1>5, <3>1
  <2> QED BY <1>0, <2>1, <2>2
<1>9. ASSUME NoRepeats(s) PROVE NoRepeats(w) /\ s[i] \notin Range(w)
  <2>1. NoRepeats(w)
    BY <1>0, <1>4, <1>9 DEF NoRepeats
  <2>2. s[i] \notin Range(w)
    BY <1>0, <1>4, <1>5, <1>9 DEF NoRepeats
  <2> QED BY <2>1, <2>2
<1> QED BY <1>0, <1>4, <1>6, <1>7, <1>8, <1>9 DEF w

(* A sequence with one element more.                                       *)
LEMMA AppendElements ==
    ASSUME NEW R, NEW s \in Seq(R), NEW x \in R
    PROVE  /\ Append(s, x) \in Seq(R) /\ Range(Append(s, x)) = Range(s) \cup {x}
           /\ NoRepeats(s) /\ x \notin Range(s) => NoRepeats(Append(s, x))
<1>0. /\ Len(s) \in Nat /\ DOMAIN s = 1..Len(s) /\ DOMAIN Append(s, x) = 1..Len(s) + 1
      /\ Append(s, x)[Len(s) + 1] = x
      /\ \A n \in 1..Len(s) : Append(s, x)[n] = s[n]
  OBVIOUS
<1>1. Range(Append(s, x)) = Range(s) \cup {x}
  <2>1. \A y : y \in Range(Append(s, x)) <=> \E n \in 1..Len(s) + 1 : y = Append(s, x)[n]
    BY <1>0 DEF Range
  <2>2. \A y : y \in Range(s) <=> \E n \in 1..Len(s) : y = s[n]
    BY <1>0 DEF Range
  <2> QED BY <1>0, <2>1, <2>2
<1>2. NoRepeats(s) /\ x \notin Range(s) => NoRepeats(Append(s, x))
  BY <1>0 DEF NoRepeats, Range
<1> QED BY <1>1, <1>2

(* A sequence without the elements of a set.                               *)
LEMMA WithoutRange ==
    ASSUME NEW R, NEW s \in Seq(R), NEW gone
    PROVE  /\ Without(s, gone) \in Seq(R) /\ Range(Without(s, gone)) = Range(s) \ gone
           /\ NoRepeats(s) => NoRepeats(Without(s, gone))
<1>1. Range(s) = ToSet(s) /\ Range(Without(s, gone)) = ToSet(Without(s, gone))
  BY DEF Range, ToSet
<1> QED BY <1>1, WithoutElements

-------------------------------------------------------------------------------
(***************************************************************************)
(* The steps of the scheduler, whoever takes them.                         *)
(***************************************************************************)
BlockerKinds == {"Closed", "Suspended"}

SchedulerStep ==
    \/ RunPending \/ RunQueued \/ EndCheck
    \/ \E t \in running : Finish(t)
    \/ \E t \in Tasks : Schedule(t) \/ Abort(t)
    \/ \E l \in Levels : LockLevel(l) \/ UnlockLevel(l)
    \/ \E c \in Connections, by \in BlockerKinds :
          \/ \E request \in {"restart", "cancelled"} : BlockInterruptTasks(c, by, request)
          \/ Unblock(c, by)
    \/ CancelAll
    \/ AwaitAll
    \/ UNCHANGED schedVars

(* Every step is one of the scheduler or leaves it alone.                  *)
LEMMA StepOfScheduler ==
    ASSUME [Next]_vars
    PROVE  SchedulerStep
<1>0. Attempts \in Nat /\ Attempts > 0
  BY TaskSchedulerAssumption
<1>1. ASSUME NEW r \in Requests, Issue(r) PROVE SchedulerStep
  <2>1. <<r, 1>> \in Tasks /\ Schedule(<<r, 1>>)
    BY <1>0, <1>1 DEF Issue, Tasks
  <2> QED BY <2>1, Zenon DEF SchedulerStep
<1>2. ASSUME NEW r \in ClientRequests, NEW n \in 1..(Attempts - 1), Reissue(r, n)
      PROVE  SchedulerStep
  <2>1. <<r, n + 1>> \in Tasks
    BY <1>0 DEF ClientRequests, Tasks
  <2>2. Schedule(<<r, n + 1>>)
    BY <1>2 DEF Reissue
  <2> QED BY <2>1, <2>2, Zenon DEF SchedulerStep
<1>3. ASSUME NEW r \in ClientRequests, NEW n \in 1..Attempts, AbortRequest(r, n)
      PROVE  SchedulerStep
  <2>1. <<r, n>> \in Tasks /\ Abort(<<r, n>>)
    BY <1>3 DEF AbortRequest, ClientRequests, Tasks
  <2> QED BY <2>1, Zenon DEF SchedulerStep
<1>4. ASSUME NEW l \in Levels, Lock(l) \/ Unlock(l) PROVE SchedulerStep
  BY <1>4, Zenon DEF Lock, Unlock, SchedulerStep
<1>5. CASE Scheduling
  BY <1>5, Zenon DEF Scheduling, CheckTasks, SchedulerStep
<1>6. ASSUME NEW c \in Connections, OnBeforeSchemaChanges(c) \/ OnAfterSchemaChanges(c)
      PROVE  SchedulerStep
  <2>1. \/ UNCHANGED schedVars
        \/ BlockInterruptTasks(c, "Suspended", "restart")
        \/ Unblock(c, "Suspended")
    BY <1>6, Zenon DEF OnBeforeSchemaChanges, OnAfterSchemaChanges
  <2> QED BY <2>1 DEF SchedulerStep, BlockerKinds
<1>7. ASSUME NEW c \in Connections, \/ \E op \in Operations : BeginOperation(c, op)
                                    \/ SchemaEvent(c)
      PROVE  SchedulerStep
  BY <1>6, <1>7, Zenon DEF BeginOperation, SchemaEvent
<1>8. ASSUME NEW c \in Connections, OnConnectionClosed(c) \/ EndClose(c)
      PROVE  SchedulerStep
  <2>1. BlockInterruptTasks(c, "Closed", "cancelled") \/ Unblock(c, "Closed")
    BY <1>8, Zenon DEF OnConnectionClosed, EndClose
  <2> QED BY <2>1 DEF SchedulerStep, BlockerKinds
<1>9. ASSUME NEW c \in Connections, BeginClose(c) PROVE SchedulerStep
  BY <1>8, <1>9 DEF BeginClose
<1>10. CASE CloseConnections
  BY <1>8, <1>10 DEF CloseConnections
<1>11. CASE UNCHANGED schedVars \/ CancelAll \/ AwaitAll
  BY <1>11, Zenon DEF SchedulerStep
<1>12. CASE BeginDestruction \/ Delete
  BY <1>11, <1>12 DEF BeginDestruction, Delete
<1>13. CASE UNCHANGED vars
  BY <1>11, <1>13 DEF vars
<1> QED
  BY <1>1, <1>2, <1>3, <1>4, <1>5, <1>7, <1>8, <1>9, <1>10, <1>11, <1>12, <1>13
     DEF Next, Destruction

-------------------------------------------------------------------------------
(***************************************************************************)
(* Types.                                                                  *)
(***************************************************************************)
TypeInv == SchedulerTypeOK /\ IsFiniteSet(running)

CheckRecords ==
    [on : BOOLEAN, left : 0..Threads, holders : SUBSET AllTasks,
     taken : SUBSET Tasks, finished : AllTasks \cup {NoTask}]

LEMMA PingIsNoTask == Ping \notin Tasks /\ NoTask \notin AllTasks
<1>1. Tasks \subseteq Requests \X Nat
  BY DEF Tasks
<1> QED BY <1>1, TaskSchedulerAssumption DEF AllTasks

(* The pool has a number of threads.                                       *)
LEMMA ThreadsAreFinite == Threads \in Nat
<1> DEFINE Of(p) == {p} \X (1..Allocations[p])
           all == {Of(p) : p \in DOMAIN Allocations}
<1>1. IsFiniteSet(all)
  <2>1. IsFiniteSet(DOMAIN Allocations)
    BY TaskSchedulerAssumption
  <2> DEFINE f == [p \in DOMAIN Allocations |-> Of(p)]
  <2>2. f \in [DOMAIN Allocations -> all]
    OBVIOUS
  <2>3. \A S \in all : \E p \in DOMAIN Allocations : f[p] = S
    OBVIOUS
  <2> HIDE DEF f, all
  <2>4. f \in Surjection(DOMAIN Allocations, all)
    BY <2>2, <2>3 DEF Surjection
  <2> QED BY <2>1, <2>4, FS_Surjection
<1>2. \A S \in all : IsFiniteSet(S)
  <2> SUFFICES ASSUME NEW p \in DOMAIN Allocations PROVE IsFiniteSet(Of(p))
    OBVIOUS
  <2>1. Allocations[p] \in Nat
    BY TaskSchedulerAssumption
  <2>2. IsFiniteSet(1..Allocations[p])
    <3>1. 1 \in Int /\ Allocations[p] \in Int
      BY <2>1
    <3> QED BY <3>1, FS_Interval
  <2>3. IsFiniteSet({p})
    BY FS_Singleton
  <2> QED BY <2>2, <2>3, FS_Product
<1>3. IsFiniteSet(UNION all)
  BY <1>1, <1>2, FS_UNION
<1> QED BY <1>3, FS_CardinalityType DEF Threads

LEMMA NewCheckTyped ==
    ASSUME NEW run \in SUBSET AllTasks, IsFiniteSet(run), NEW pend \in Seq(Tasks),
           NEW task \in AllTasks \cup {NoTask}
    PROVE  NewCheck(run, pend, task) \in CheckRecords
<1>1. Cardinality(run) \in Nat
  BY FS_CardinalityType
<1>2. (IF Cardinality(run) >= Threads THEN 0 ELSE Threads - Cardinality(run)) \in 0..Threads
  BY <1>1, ThreadsAreFinite
<1>3. Range(pend) \subseteq AllTasks
  BY DEF Range, AllTasks
<1> QED BY <1>2, <1>3 DEF NewCheck, CheckRecords

LEMMA NoCheckTyped == NoCheck \in CheckRecords
BY ThreadsAreFinite DEF NoCheck, CheckRecords

(* Cancelling keeps the types.                                             *)
LEMMA CancelTyped ==
    ASSUME TypeInv, NEW w \in Waiters, NEW matching,
           NEW request \in {"restart", "cancelled"}, Cancel(w, matching, request)
    PROVE  /\ queue' \in Seq(Tasks) /\ pending' \in Seq(Tasks)
           /\ promise' \in [Tasks -> PromiseStates] /\ awaited' \in [Waiters -> SUBSET AllTasks]
<1>1. queue \in Seq(Tasks) /\ pending \in Seq(Tasks) /\ running \subseteq AllTasks
      /\ promise \in [Tasks -> PromiseStates] /\ awaited \in [Waiters -> SUBSET AllTasks]
  BY DEF TypeInv, SchedulerTypeOK
<1>2. queue' = Without(queue, matching) /\ pending' = Without(pending, matching)
  BY DEF Cancel
<1>3. queue' \in Seq(Tasks) /\ pending' \in Seq(Tasks)
  BY <1>1, <1>2, WithoutRange
<1>4. promise' \in [Tasks -> PromiseStates]
  <2> DEFINE removed == matching \cap (Range(queue) \cup Range(pending))
             executing == matching \cap running
             P(t) == IF t \in removed \cup executing /\ promise[t] = "open"
                     THEN request ELSE promise[t]
  <2>1. promise' = [t \in Tasks |-> P(t)]
    BY Zenon DEF Cancel
  <2>2. \A t \in Tasks : P(t) \in PromiseStates
    BY <1>1 DEF PromiseStates
  <2> HIDE DEF P
  <2> QED BY <2>1, <2>2
<1>5. awaited' \in [Waiters -> SUBSET AllTasks]
  <2>1. awaited' = [awaited EXCEPT ![w] = matching \cap running]
    BY Zenon DEF Cancel
  <2>2. matching \cap running \in SUBSET AllTasks
    BY <1>1
  <2> QED BY <1>1, <2>1, <2>2
<1> QED BY <1>3, <1>4, <1>5

LEMMA SchedulerTyped ==
    ASSUME TypeInv, SchedulerStep
    PROVE  TypeInv'
<1>0. /\ queue \in Seq(Tasks) /\ pending \in Seq(Tasks) /\ running \subseteq AllTasks
      /\ promise \in [Tasks -> PromiseStates] /\ blockers \subseteq Blockers
      /\ awaited \in [Waiters -> SUBSET AllTasks] /\ check \in CheckRecords
      /\ locked \subseteq Levels /\ IsFiniteSet(running)
  BY DEF TypeInv, SchedulerTypeOK, CheckRecords
<1> SUFFICES
      /\ queue' \in Seq(Tasks) /\ pending' \in Seq(Tasks) /\ running' \subseteq AllTasks
      /\ promise' \in [Tasks -> PromiseStates] /\ blockers' \subseteq Blockers
      /\ awaited' \in [Waiters -> SUBSET AllTasks] /\ check' \in CheckRecords
      /\ locked' \subseteq Levels /\ IsFiniteSet(running')
  BY DEF TypeInv, SchedulerTypeOK, CheckRecords
<1>1. CASE RunPending
  <2>1. PICK i \in Executable :
            running' = running \cup {pending[i]} /\ pending' = RemoveAt(pending, i)
    BY <1>1 DEF RunPending
  <2>2. i \in DOMAIN pending
    BY DEF Executable
  <2>3. pending' \in Seq(Tasks) /\ pending[i] \in Tasks
    BY <1>0, <2>1, <2>2, RemoveAtProperties
  <2>4. running' \subseteq AllTasks
    BY <1>0, <2>1, <2>3 DEF AllTasks
  <2>5. IsFiniteSet(running')
    BY <1>0, <2>1, FS_AddElement
  <2>6. check' \in CheckRecords
    BY <1>0, <1>1, ThreadsAreFinite DEF RunPending, CheckRecords
  <2> QED BY <1>0, <1>1, <2>3, <2>4, <2>5, <2>6 DEF RunPending
<1>2. CASE RunQueued
  <2>1. PICK i \in Eligible :
            /\ queue' = RemoveAt(queue, i)
            /\ running' = running \cup {queue[i]} \/ running' = running
            /\ pending' = Append(pending, queue[i]) \/ pending' = pending
            /\ check' = [check EXCEPT !.left = @ - 1, !.taken = @ \cup {queue[i]}]
    BY <1>2 DEF RunQueued
  <2>2. i \in DOMAIN queue
    BY DEF Eligible
  <2>3. queue' \in Seq(Tasks) /\ queue[i] \in Tasks
    BY <1>0, <2>1, <2>2, RemoveAtProperties
  <2>4. running' \subseteq AllTasks
    BY <1>0, <2>1, <2>3 DEF AllTasks
  <2>5. IsFiniteSet(running')
    <3>1. IsFiniteSet(running \cup {queue[i]})
      BY <1>0, FS_AddElement
    <3> QED BY <1>0, <2>1, <3>1
  <2>6. check' \in CheckRecords
    <3>1. check.left - 1 \in 0..Threads
      BY <1>0, <1>2, ThreadsAreFinite DEF RunQueued, CheckRecords
    <3>2. check.taken \cup {queue[i]} \in SUBSET Tasks
      BY <1>0, <2>3 DEF CheckRecords
    <3> QED BY <1>0, <2>1, <3>1, <3>2 DEF CheckRecords
  <2>7. pending' \in Seq(Tasks)
    <3>1. Append(pending, queue[i]) \in Seq(Tasks)
      BY <1>0, <2>3, AppendProperties
    <3> QED BY <1>0, <2>1, <3>1
  <2> QED BY <1>0, <1>2, <2>3, <2>4, <2>5, <2>6, <2>7 DEF RunQueued
<1>3. CASE EndCheck
  <2>1. running' \subseteq AllTasks /\ IsFiniteSet(running')
    BY <1>0, <1>3, FS_Singleton DEF EndCheck, AllTasks
  <2>2. promise' \in [Tasks -> PromiseStates]
    <3> DEFINE P(t) == IF t = check.finished /\ promise[t] = "open" THEN "resolved"
                       ELSE promise[t]
    <3>1. promise' = [t \in Tasks |-> P(t)]
      BY <1>3 DEF EndCheck
    <3>2. \A t \in Tasks : P(t) \in PromiseStates
      BY <1>0 DEF PromiseStates
    <3> HIDE DEF P
    <3> QED BY <3>1, <3>2
  <2>3. check' \in CheckRecords
    BY <1>3, NoCheckTyped DEF EndCheck
  <2> QED BY <1>0, <1>3, <2>1, <2>2, <2>3 DEF EndCheck
<1>4. ASSUME NEW t \in running, Finish(t)
      PROVE  /\ running' \subseteq AllTasks /\ IsFiniteSet(running')
             /\ awaited' \in [Waiters -> SUBSET AllTasks] /\ check' \in CheckRecords
             /\ UNCHANGED <<queue, pending, promise, blockers, locked>>
  <2>1. running' = running \ {t} /\ awaited' = [w \in Waiters |-> awaited[w] \ {t}]
        /\ check' = NewCheck(running', pending, t)
        /\ UNCHANGED <<queue, pending, promise, blockers, locked>>
    BY <1>4 DEF Finish
  <2>2. running' \subseteq AllTasks /\ IsFiniteSet(running')
    BY <1>0, <2>1, FS_RemoveElement
  <2>3. check' \in CheckRecords
    BY <1>0, <2>1, <2>2, NewCheckTyped
  <2> QED BY <1>0, <2>1, <2>2, <2>3
<1>5. ASSUME NEW t \in Tasks, Schedule(t) \/ Abort(t)
      PROVE  /\ queue' \in Seq(Tasks) /\ check' \in CheckRecords
             /\ promise' \in [Tasks -> PromiseStates]
             /\ UNCHANGED <<pending, running, blockers, awaited, locked>>
  <2>1. CASE Schedule(t)
    <3>1. queue' \in Seq(Tasks)
      BY <1>0, <2>1, AppendElements DEF Schedule
    <3>2. check' \in CheckRecords
      BY <1>0, <2>1, NewCheckTyped DEF Schedule
    <3> QED BY <1>0, <2>1, <3>1, <3>2 DEF Schedule, PromiseStates
  <2>2. CASE Abort(t)
    BY <1>0, <2>2 DEF Abort, PromiseStates
  <2> QED BY <1>5, <2>1, <2>2
<1>6. ASSUME NEW l \in Levels, LockLevel(l) \/ UnlockLevel(l)
      PROVE  /\ locked' \subseteq Levels
             /\ UNCHANGED <<queue, pending, running, promise, blockers, awaited, check>>
  BY <1>0, <1>6 DEF LockLevel, UnlockLevel
<1>7. ASSUME NEW c \in Connections, NEW by \in BlockerKinds, NEW request \in {"restart", "cancelled"},
             BlockInterruptTasks(c, by, request)
      PROVE  /\ queue' \in Seq(Tasks) /\ pending' \in Seq(Tasks)
             /\ promise' \in [Tasks -> PromiseStates] /\ blockers' \subseteq Blockers
             /\ awaited' \in [Waiters -> SUBSET AllTasks]
             /\ UNCHANGED <<running, check, locked>>
  <2>1. /\ Cancel(c, {t \in Held : c \in DependsOn(t)}, request)
        /\ blockers' = blockers \cup {<<by, c>>} /\ UNCHANGED <<running, check, locked>>
    BY <1>7 DEF BlockInterruptTasks
  <2>2. c \in Waiters
    BY DEF Waiters
  <2>3. blockers' \subseteq Blockers
    BY <1>0, <2>1 DEF Blockers, BlockerKinds
  <2> QED BY <2>1, <2>2, <2>3, CancelTyped
<1>8. ASSUME NEW c, NEW by, Unblock(c, by)
      PROVE  /\ blockers' \subseteq Blockers /\ check' \in CheckRecords
             /\ UNCHANGED <<queue, pending, running, promise, awaited, locked>>
  BY <1>0, <1>8, NewCheckTyped DEF Unblock
<1>9. CASE CancelAll
  <2>1. Cancel(Manager, Held, "cancelled") /\ Manager \in Waiters
        /\ UNCHANGED <<running, blockers, check, locked>>
    BY <1>9 DEF CancelAll, Waiters
  <2> QED BY <1>0, <2>1, CancelTyped
<1>10. CASE AwaitAll
  <2>1. running \cup Range(queue) \in SUBSET AllTasks
    BY <1>0 DEF Range, AllTasks
  <2>2. awaited' \in [Waiters -> SUBSET AllTasks]
    BY <1>0, <1>10, <2>1 DEF AwaitAll
  <2> QED BY <1>0, <1>10, <2>2 DEF AwaitAll
<1>11. CASE UNCHANGED schedVars
  BY <1>0, <1>11 DEF schedVars
<1> QED
  <2>1. CASE \E t \in running : Finish(t)
    BY <1>0, <1>4, <2>1
  <2>2. CASE \E t \in Tasks : Schedule(t) \/ Abort(t)
    BY <1>0, <1>5, <2>2
  <2>3. CASE \E l \in Levels : LockLevel(l) \/ UnlockLevel(l)
    BY <1>0, <1>6, <2>3
  <2>4. CASE \E c \in Connections, by \in BlockerKinds :
                \/ \E request \in {"restart", "cancelled"} : BlockInterruptTasks(c, by, request)
                \/ Unblock(c, by)
    BY <1>0, <1>7, <1>8, <2>4
  <2> QED
    BY <1>1, <1>2, <1>3, <1>9, <1>10, <1>11, <2>1, <2>2, <2>3, <2>4 DEF SchedulerStep

-------------------------------------------------------------------------------
(***************************************************************************)
(* Schema operations: how deep a connection is suspended, and what the     *)
(* operation under way has yet to raise.                                   *)
(***************************************************************************)
Depths ==
    {<<0, <<>>>>, <<1, <<"after">>>>, <<2, <<"after", "after">>>>,
     <<0, <<"before", "after">>>>,
     <<1, <<"before", "after", "after">>>>,
     <<2, <<"after", "before", "after", "after">>>>,
     <<1, <<"before", "after", "before", "after", "after">>>>}

(* A connection is suspended at least as deep as the events still to come  *)
(* will resume it.                                                         *)
ScriptInv ==
    \A c \in Connections : \E d \in Depths : script[c] = d[2] /\ suspended[c] >= d[1]

(* Each event leads from one depth to the next.                            *)
LEMMA EventsLeadOn ==
    ASSUME NEW d \in Depths
    PROVE  /\ d[1] \in Nat /\ d[2] \in Seq({"before", "after"})
           /\ d[2] = <<>> => d[1] = 0
           /\ d[2] # <<>> =>
                 \/ Head(d[2]) = "before" /\ <<d[1] + 1, Tail(d[2])>> \in Depths
                 \/ Head(d[2]) = "after" /\ d[1] > 0 /\ <<d[1] - 1, Tail(d[2])>> \in Depths
<1>1. CASE d = <<0, <<>>>>
  BY <1>1
<1>2. CASE d = <<1, <<"after">>>>
  BY <1>2 DEF Depths
<1>3. CASE d = <<2, <<"after", "after">>>>
  BY <1>3 DEF Depths
<1>4. CASE d = <<0, <<"before", "after">>>>
  BY <1>4 DEF Depths
<1>5. CASE d = <<1, <<"before", "after", "after">>>>
  BY <1>5 DEF Depths
<1>6. CASE d = <<2, <<"after", "before", "after", "after">>>>
  BY <1>6 DEF Depths
<1>7. CASE d = <<1, <<"before", "after", "before", "after", "after">>>>
  BY <1>7 DEF Depths
<1> QED BY <1>1, <1>2, <1>3, <1>4, <1>5, <1>6, <1>7, Zenon DEF Depths

(* The operations that resume their connection as often as they suspend it.*)
BalancedOperations == {"ClearECDbCache", "ImportSchemas", "DropSchemas"}

(* What an operation has yet to raise after its first event.               *)
LEMMA OperationsBegin ==
    ASSUME NEW op \in Operations
    PROVE  /\ \E d \in Depths : Tail(EventsOf[op]) = d[2] /\ d[1] <= 1
           /\ op \in BalancedOperations => <<1, Tail(EventsOf[op])>> \in Depths
<1>1. op \in DOMAIN EventsOf
  BY PresentationAssumption
<1>2. op \in {"ClearECDbCache", "ImportSchemas", "DropSchemas", "DropSchemasFails",
              "PullFails", "ApplySchemaChangesFails"}
  BY <1>1 DEF EventsOf
<1>3. CASE op = "ClearECDbCache"
  <2>1. Tail(EventsOf[op]) = <<"after">>
    BY <1>3 DEF EventsOf
  <2> QED BY <2>1 DEF Depths
<1>4. CASE op = "ImportSchemas"
  <2>1. Tail(EventsOf[op]) = <<"before", "after", "after">>
    BY <1>4 DEF EventsOf
  <2> QED BY <2>1 DEF Depths
<1>5. CASE op = "DropSchemas"
  <2>1. Tail(EventsOf[op]) = <<"before", "after", "before", "after", "after">>
    BY <1>5 DEF EventsOf
  <2> QED BY <2>1 DEF Depths
<1>6. CASE op = "DropSchemasFails"
  <2>1. Tail(EventsOf[op]) = <<>>
    BY <1>6 DEF EventsOf
  <2> QED BY <1>6, <2>1 DEF Depths, BalancedOperations
<1>7. CASE op = "PullFails"
  <2>1. Tail(EventsOf[op]) = <<"before", "after">>
    BY <1>7 DEF EventsOf
  <2> QED BY <1>7, <2>1 DEF Depths, BalancedOperations
<1>8. CASE op = "ApplySchemaChangesFails"
  <2>1. Tail(EventsOf[op]) = <<"before", "after">>
    BY <1>8 DEF EventsOf
  <2> QED BY <1>8, <2>1 DEF Depths, BalancedOperations
<1> QED BY <1>2, <1>3, <1>4, <1>5, <1>6, <1>7, <1>8

ConnectionInv == ConnectionsTypeOK /\ ScriptInv

(* What the steps do to the connections.  A step that begins an operation  *)
(* or is one of its events moves the connection from one depth to the next.*)
LEMMA BeginOperationTyped ==
    ASSUME ConnectionInv, NEW c \in Connections, NEW op \in Operations, BeginOperation(c, op)
    PROVE  ConnectionInv'
<1>0. suspended[c] \in Nat /\ ConnectionsTypeOK /\ ScriptInv
  BY DEF ConnectionInv, ConnectionsTypeOK
<1>1. /\ script' = [script EXCEPT ![c] = Tail(EventsOf[op])]
      /\ suspended' = [suspended EXCEPT ![c] = suspended[c] + 1]
      /\ UNCHANGED <<phase, manager>>
  BY DEF BeginOperation, OnBeforeSchemaChanges
<1>2. spent' \in [operations : 0..MaxOperations, events : 0..MaxEvents]
  <2>1. spent.operations < MaxOperations
        /\ spent' = [spent EXCEPT !.operations = spent.operations + 1]
    BY DEF BeginOperation, CountOperation
  <2>2. spent \in [operations : 0..MaxOperations, events : 0..MaxEvents]
    BY <1>0 DEF ConnectionsTypeOK
  <2>3. spent.operations + 1 \in 0..MaxOperations
    BY <2>1, <2>2, PresentationAssumption
  <2> QED BY <2>1, <2>2, <2>3
<1>3. PICK d \in Depths : Tail(EventsOf[op]) = d[2] /\ d[1] <= 1
  BY OperationsBegin
<1>4. d[1] \in Nat /\ d[2] \in Seq({"before", "after"})
  BY EventsLeadOn
<1>5. ConnectionsTypeOK'
  <2>1. Tail(EventsOf[op]) \in Seq({"before", "after"})
    BY <1>3, <1>4, Zenon
  <2>2. script' \in [Connections -> Seq({"before", "after"})]
    BY <1>0, <1>1, <2>1 DEF ConnectionsTypeOK
  <2>3. suspended' \in [Connections -> Nat]
    BY <1>0, <1>1 DEF ConnectionsTypeOK
  <2> QED BY <1>0, <1>1, <1>2, <2>2, <2>3 DEF ConnectionsTypeOK
<1>6. ScriptInv'
  <2> SUFFICES ASSUME NEW e \in Connections
               PROVE  \E x \in Depths : script'[e] = x[2] /\ suspended'[e] >= x[1]
    BY DEF ScriptInv
  <2>1. CASE e = c
    BY <1>0, <1>1, <1>3, <1>4, <2>1 DEF ConnectionsTypeOK
  <2>2. CASE e # c
    BY <1>0, <1>1, <2>2 DEF ConnectionsTypeOK, ScriptInv
  <2> QED BY <2>1, <2>2
<1> QED BY <1>5, <1>6 DEF ConnectionInv

LEMMA SchemaEventTyped ==
    ASSUME ConnectionInv, NEW c \in Connections, SchemaEvent(c)
    PROVE  ConnectionInv'
<1>0. suspended[c] \in Nat /\ ConnectionsTypeOK /\ ScriptInv
  BY DEF ConnectionInv, ConnectionsTypeOK
<1>1. PICK d \in Depths : script[c] = d[2] /\ suspended[c] >= d[1]
  BY <1>0 DEF ScriptInv
<1>2. /\ script[c] # <<>> /\ script' = [script EXCEPT ![c] = Tail(script[c])]
      /\ UNCHANGED <<phase, manager, spent>>
  BY DEF SchemaEvent
<1>3. PICK x \in Depths : /\ Tail(script[c]) = x[2]
                          /\ \/ Head(script[c]) = "before" /\ x[1] = d[1] + 1
                             \/ Head(script[c]) = "after" /\ d[1] > 0 /\ x[1] = d[1] - 1
  BY <1>1, <1>2, EventsLeadOn
<1>4. d[1] \in Nat /\ x[1] \in Nat /\ x[2] \in Seq({"before", "after"})
  BY EventsLeadOn
<1>5. /\ suspended' = [suspended EXCEPT ![c] = suspended'[c]]
      /\ suspended'[c] \in Nat /\ suspended'[c] >= x[1]
  <2>1. CASE Head(script[c]) = "before"
    <3>1. suspended' = [suspended EXCEPT ![c] = suspended[c] + 1]
      BY <2>1 DEF SchemaEvent, OnBeforeSchemaChanges
    <3>2. suspended'[c] = suspended[c] + 1
      BY <1>0, <3>1 DEF ConnectionsTypeOK
    <3>3. suspended' = [suspended EXCEPT ![c] = suspended'[c]]
      BY <3>1, <3>2
    <3>4. x[1] = d[1] + 1
      BY <1>3, <2>1
    <3> QED BY <1>0, <1>1, <1>4, <3>2, <3>3, <3>4
  <2>2. CASE Head(script[c]) = "after"
    <3>1. suspended' = [suspended EXCEPT ![c] = suspended[c] - 1]
      BY <2>2 DEF SchemaEvent, OnAfterSchemaChanges
    <3>2. suspended'[c] = suspended[c] - 1
      BY <1>0, <3>1 DEF ConnectionsTypeOK
    <3>3. suspended' = [suspended EXCEPT ![c] = suspended'[c]]
      BY <3>1, <3>2
    <3>4. d[1] > 0 /\ x[1] = d[1] - 1
      BY <1>3, <2>2
    <3> QED BY <1>0, <1>1, <1>4, <3>2, <3>3, <3>4
  <2> QED BY <1>3, <2>1, <2>2
<1>6. ConnectionsTypeOK'
  BY <1>0, <1>2, <1>3, <1>4, <1>5 DEF ConnectionsTypeOK
<1>7. ScriptInv'
  <2> SUFFICES ASSUME NEW e \in Connections
               PROVE  \E y \in Depths : script'[e] = y[2] /\ suspended'[e] >= y[1]
    BY DEF ScriptInv
  <2>1. CASE e = c
    BY <1>0, <1>2, <1>3, <1>5, <2>1 DEF ConnectionsTypeOK
  <2>2. CASE e # c
    BY <1>0, <1>2, <1>5, <2>2 DEF ConnectionsTypeOK, ScriptInv
  <2> QED BY <2>1, <2>2
<1> QED BY <1>6, <1>7 DEF ConnectionInv

LEMMA ConnectionsTyped ==
    ASSUME ConnectionInv, [Next]_vars
    PROVE  ConnectionInv'
<1>0. ConnectionsTypeOK /\ ScriptInv
  BY DEF ConnectionInv
<1>1. ASSUME UNCHANGED <<suspended, script>>,
             phase' \in [Connections -> {"open", "closing", "closed"}],
             manager' \in {"alive", "closing", "cancelled", "draining", "deleted"},
             spent' = spent \/ CountEvent
      PROVE  ConnectionInv'
  <2>1. spent' \in [operations : 0..MaxOperations, events : 0..MaxEvents]
    BY <1>0, <1>1, PresentationAssumption DEF CountEvent, ConnectionsTypeOK
  <2> QED BY <1>0, <1>1, <2>1 DEF ConnectionInv, ConnectionsTypeOK, ScriptInv
<1>2. ASSUME UNCHANGED <<phase, suspended, script, manager>>, spent' = spent \/ CountEvent
      PROVE  ConnectionInv'
  BY <1>0, <1>1, <1>2 DEF ConnectionsTypeOK
<1>3. ASSUME NEW r, NEW n, Issue(r) \/ Reissue(r, n) \/ AbortRequest(r, n)
      PROVE  ConnectionInv'
  BY <1>2, <1>3 DEF Issue, Reissue, AbortRequest, connVars
<1>4. ASSUME NEW l, Lock(l) \/ Unlock(l) PROVE ConnectionInv'
  BY <1>2, <1>4 DEF Lock, Unlock, connVars
<1>5. CASE Scheduling \/ UNCHANGED vars
  BY <1>2, <1>5 DEF Scheduling, vars, connVars
<1>6. ASSUME NEW c \in Connections, BeginClose(c) \/ EndClose(c) PROVE ConnectionInv'
  BY <1>0, <1>1, <1>6 DEF BeginClose, EndClose, OnConnectionClosed, ConnectionsTypeOK
<1>7. CASE BeginDestruction \/ Destruction
  <2>1. CASE CloseConnections
    BY <1>0, <1>1, <2>1 DEF CloseConnections, OnConnectionClosed, ConnectionsTypeOK
  <2>2. CASE BeginDestruction \/ CancelAll \/ AwaitAll \/ Delete
    BY <1>0, <1>1, <2>2 DEF BeginDestruction, CancelAll, AwaitAll, Delete, ConnectionsTypeOK
  <2> QED BY <1>7, <2>1, <2>2 DEF Destruction
<1> QED
  BY <1>3, <1>4, <1>5, <1>6, <1>7, BeginOperationTyped, SchemaEventTyped DEF Next

(***************************************************************************)
(* The scheduler and the connections keep their types.                     *)
(***************************************************************************)
LEMMA TypesAreInvariant == SafetySpec => [](TypeInv /\ ConnectionInv)
<1>1. Init => TypeInv /\ ConnectionInv
  <2> SUFFICES ASSUME Init PROVE TypeInv /\ ConnectionInv
    OBVIOUS
  <2>1. TypeInv
    <3>1. check \in CheckRecords
      BY NoCheckTyped DEF Init, SchedulerInit
    <3>2. IsFiniteSet(running)
      BY FS_EmptySet DEF Init, SchedulerInit
    <3>3. promise \in [Tasks -> PromiseStates]
      BY DEF Init, SchedulerInit, PromiseStates
    <3> QED
      BY <3>1, <3>2, <3>3 DEF Init, SchedulerInit, TypeInv, SchedulerTypeOK, CheckRecords
  <2>2. ConnectionsTypeOK
    BY PresentationAssumption DEF Init, ConnectionsTypeOK
  <2>3. ScriptInv
    <3>1. <<0, <<>>>> \in Depths
      BY DEF Depths
    <3> QED BY <3>1 DEF Init, ScriptInv
  <2> QED BY <2>1, <2>2, <2>3 DEF ConnectionInv
<1>2. TypeInv /\ ConnectionInv /\ [Next]_vars => (TypeInv /\ ConnectionInv)'
  BY StepOfScheduler, SchedulerTyped, ConnectionsTyped
<1> QED BY <1>1, <1>2, PTL DEF SafetySpec

THEOREM PresentationTypeCorrect == SafetySpec => []PresentationTypeOK
<1>1. TypeInv /\ ConnectionInv => PresentationTypeOK
  BY DEF TypeInv, ConnectionInv, PresentationTypeOK
<1> QED BY <1>1, TypesAreInvariant, PTL

-------------------------------------------------------------------------------
(***************************************************************************)
(* Destruction.  Once every connection is closed and every task cancelled, *)
(* nothing waits any more, the tasks that still run are those the manager  *)
(* awaits, and none is left when it has seen them complete.                *)
(***************************************************************************)
Gone == {"cancelled", "draining", "deleted"}

ShutInv ==
    /\ manager # "alive" => \A c \in Connections : script[c] = <<>>
    /\ manager \in Gone => /\ \A c \in Connections : phase[c] = "closed"
                           /\ queue = <<>> /\ pending = <<>>
    /\ manager = "cancelled" => running \subseteq awaited[Manager]
    /\ manager \in {"draining", "deleted"} => running = {} /\ ~check.on

LEMMA EmptyRange ==
    ASSUME NEW R, NEW s \in Seq(R), Range(s) = {}
    PROVE  s = <<>>
<1>1. DOMAIN s = 1..Len(s) /\ Len(s) \in Nat
  OBVIOUS
<1>2. \A i \in 1..Len(s) : FALSE
  BY <1>1 DEF Range
<1>3. Len(s) = 0
  BY <1>1, <1>2
<1> QED BY <1>3

LEMMA SchedulingAfterCancel ==
    ASSUME TypeInv, ShutInv, Scheduling, manager \in Gone
    PROVE  ShutInv'
<1>1. /\ queue = <<>> /\ pending = <<>> /\ UNCHANGED <<phase, script, manager>>
      /\ manager = "cancelled" => running \subseteq awaited[Manager]
      /\ manager \in {"draining", "deleted"} => running = {} /\ ~check.on
      /\ \A c \in Connections : script[c] = <<>> /\ phase[c] = "closed"
  BY DEF ShutInv, Scheduling, connVars, Gone
<1>2. Executable = {} /\ Eligible = {} /\ ~NeedsPing
  BY <1>1 DEF Executable, Eligible, NeedsPing
<1>3. CASE EndCheck
  <2>1. UNCHANGED <<queue, pending, running, awaited>> /\ check' = NoCheck
    BY <1>2, <1>3 DEF EndCheck
  <2> QED BY <1>1, <2>1 DEF ShutInv, NoCheck
<1>4. ASSUME NEW t \in running, Finish(t) PROVE ShutInv'
  <2>1. /\ UNCHANGED <<queue, pending>> /\ running' = running \ {t}
        /\ awaited' = [w \in Waiters |-> awaited[w] \ {t}]
    BY <1>4 DEF Finish
  <2>2. Manager \in Waiters
    BY DEF Waiters
  <2>3. manager = "cancelled"
    BY <1>1 DEF Gone
  <2> QED BY <1>1, <2>1, <2>2, <2>3 DEF ShutInv
<1>5. ~RunPending /\ ~RunQueued
  BY <1>2 DEF RunPending, RunQueued
<1> QED BY <1>3, <1>4, <1>5 DEF Scheduling, CheckTasks

LEMMA ShutInvKept ==
    ASSUME TypeInv, ConnectionInv, ShutInv, [Next]_vars
    PROVE  ShutInv'
<1>1. ASSUME manager' = "alive" PROVE ShutInv'
  BY <1>1 DEF ShutInv, Gone
<1>2. ASSUME manager' \notin Gone, UNCHANGED <<script, manager>> PROVE ShutInv'
  BY <1>2 DEF ShutInv, Gone
<1>3. ASSUME UNCHANGED <<queue, pending, running, awaited, check, phase, script, manager>>
      PROVE  ShutInv'
  BY <1>3, Zenon DEF ShutInv
<1>4. ASSUME NEW r, NEW n, Issue(r) \/ Reissue(r, n) PROVE ShutInv'
  BY <1>1, <1>4 DEF Issue, Reissue, connVars
<1>5. ASSUME NEW r, NEW n, AbortRequest(r, n) PROVE ShutInv'
  BY <1>3, <1>5 DEF AbortRequest, Abort
<1>6. ASSUME NEW l, Lock(l) \/ Unlock(l) PROVE ShutInv'
  BY <1>3, <1>6 DEF Lock, Unlock, LockLevel, UnlockLevel, connVars
<1>7. CASE Scheduling
  <2>1. UNCHANGED <<script, manager>>
    BY <1>7 DEF Scheduling, connVars
  <2> QED BY <1>2, <1>7, <2>1, SchedulingAfterCancel
<1>8. ASSUME NEW c \in Connections, NEW op, BeginOperation(c, op) PROVE ShutInv'
  BY <1>1, <1>8 DEF BeginOperation
<1>9. ASSUME NEW c \in Connections, SchemaEvent(c) PROVE ShutInv'
  BY <1>1, <1>9 DEF SchemaEvent, ShutInv
<1>10. ASSUME NEW c \in Connections, BeginClose(c) PROVE ShutInv'
  BY <1>1, <1>10 DEF BeginClose
<1>11. ASSUME NEW c \in Connections, EndClose(c) PROVE ShutInv'
  BY <1>2, <1>11 DEF EndClose, ShutInv
<1>12. CASE BeginDestruction
  BY <1>12 DEF BeginDestruction, Idle, ShutInv, Gone
<1>13. CASE CloseConnections
  BY <1>2, <1>13 DEF CloseConnections, Gone
<1>14. CASE CancelAll
  <2>1. queue \in Seq(Tasks) /\ pending \in Seq(Tasks) /\ awaited \in [Waiters -> SUBSET AllTasks]
    BY DEF TypeInv, SchedulerTypeOK
  <2>2. /\ queue' = Without(queue, Held) /\ pending' = Without(pending, Held)
        /\ awaited' = [awaited EXCEPT ![Manager] = Held \cap running]
        /\ UNCHANGED <<running, phase, script>> /\ manager = "closing" /\ manager' = "cancelled"
        /\ \A c \in Connections : phase[c] = "closed"
    BY <1>14, Zenon DEF CancelAll, Cancel
  <2>3. /\ Without(queue, Held) \in Seq(Tasks) /\ Range(Without(queue, Held)) = Range(queue) \ Held
        /\ Without(pending, Held) \in Seq(Tasks) /\ Range(Without(pending, Held)) = Range(pending) \ Held
    BY <2>1, WithoutRange
  <2>4. Range(queue) \ Held = {} /\ Range(pending) \ Held = {} /\ running \subseteq Held
    BY DEF Held
  <2>5. queue' = <<>> /\ pending' = <<>>
    BY <2>2, <2>3, <2>4, EmptyRange
  <2>6. running' \subseteq awaited'[Manager]
    BY <2>1, <2>2, <2>4 DEF Waiters
  <2>7. \A c \in Connections : script[c] = <<>>
    BY <2>2 DEF ShutInv
  <2> QED BY <2>2, <2>5, <2>6, <2>7 DEF ShutInv
<1>15. CASE AwaitAll
  <2>1. running = {} /\ ~check.on /\ manager' = "draining"
    BY <1>15 DEF AwaitAll, MutexFree, ShutInv
  <2> QED BY <1>15, <2>1 DEF AwaitAll, ShutInv, Gone
<1>16. CASE Delete
  BY <1>16 DEF Delete, schedVars, ShutInv, Gone
<1>17. CASE UNCHANGED vars
  BY <1>3, <1>17 DEF vars, schedVars, connVars
<1> QED
  BY <1>4, <1>5, <1>6, <1>7, <1>8, <1>9, <1>10, <1>11, <1>12, <1>13, <1>14, <1>15, <1>16, <1>17
     DEF Next, Destruction

-------------------------------------------------------------------------------
(***************************************************************************)
(* Where tasks are.  A task that has just finished is in none of the       *)
(* places and its result is still open, until the check that follows ends. *)
(***************************************************************************)
Apart(q, p, r) ==
    /\ NoRepeats(q) /\ NoRepeats(p)
    /\ Range(q) \cap Range(p) = {} /\ r \cap (Range(q) \cup Range(p)) = {}

TaskInv ==
    /\ Apart(queue, pending, running)
    /\ check.finished \notin Held
    /\ ~check.on => check.finished = NoTask
    /\ \A t \in Tasks : promise[t] = "open" /\ check.finished # t => t \in Held
    /\ \A t \in Tasks : t \in Held => promise[t] \notin {"none", "resolved"}
    /\ \A w \in Waiters : awaited[w] \subseteq running

(* What a step of CheckTasks starts was held before.                       *)
LEMMA StartKeepsTasks ==
    ASSUME TypeInv, TaskInv, RunPending \/ RunQueued
    PROVE  TaskInv'
<1>0. /\ queue \in Seq(Tasks) /\ pending \in Seq(Tasks)
      /\ Apart(queue, pending, running) /\ check \in CheckRecords
  BY DEF TypeInv, SchedulerTypeOK, TaskInv, CheckRecords
<1> SUFFICES /\ Apart(queue', pending', running') /\ Held' = Held /\ running \subseteq running'
             /\ check'.finished = check.finished /\ check'.on /\ UNCHANGED <<promise, awaited>>
  BY DEF TaskInv
<1>1. CASE RunPending
  <2>1. PICK i \in Executable :
            running' = running \cup {pending[i]} /\ pending' = RemoveAt(pending, i)
    BY <1>1 DEF RunPending
  <2>2. i \in DOMAIN pending
    BY DEF Executable
  <2>3. /\ Range(pending) = Range(pending') \cup {pending[i]}
        /\ NoRepeats(pending') /\ pending[i] \notin Range(pending')
    BY <1>0, <2>1, <2>2, RemoveAtProperties DEF Apart
  <2>4. UNCHANGED <<queue, promise, awaited>> /\ check' = [check EXCEPT !.left = @ - 1] /\ check.on
    BY <1>1 DEF RunPending
  <2>5. Apart(queue', pending', running') /\ Held' = Held
    BY <1>0, <2>1, <2>3, <2>4 DEF Apart, Held
  <2> QED BY <1>0, <2>1, <2>4, <2>5 DEF CheckRecords
<1>2. CASE RunQueued
  <2>1. PICK i \in Eligible :
            /\ queue' = RemoveAt(queue, i)
            /\ \/ running' = running \cup {queue[i]} /\ pending' = pending
               \/ pending' = Append(pending, queue[i]) /\ running' = running
            /\ check' = [check EXCEPT !.left = @ - 1, !.taken = @ \cup {queue[i]}]
    BY <1>2 DEF RunQueued
  <2>2. i \in DOMAIN queue
    BY DEF Eligible
  <2>3. /\ Range(queue) = Range(queue') \cup {queue[i]} /\ queue[i] \in Tasks
        /\ NoRepeats(queue') /\ queue[i] \notin Range(queue')
    BY <1>0, <2>1, <2>2, RemoveAtProperties DEF Apart
  <2>4. UNCHANGED <<promise, awaited>> /\ check.on
    BY <1>2 DEF RunQueued
  <2>5. Apart(queue', pending', running') /\ Held' = Held
    <3>1. CASE running' = running \cup {queue[i]} /\ pending' = pending
      BY <1>0, <2>3, <3>1 DEF Apart, Held
    <3>2. CASE pending' = Append(pending, queue[i]) /\ running' = running
      <4>1. Range(pending') = Range(pending) \cup {queue[i]}
        BY <1>0, <2>3, <3>2, AppendElements
      <4>2. queue[i] \notin Range(pending)
        BY <1>0, <2>3 DEF Apart
      <4>3. NoRepeats(pending')
        BY <1>0, <2>3, <3>2, <4>2, AppendElements DEF Apart
      <4> QED BY <1>0, <2>3, <3>2, <4>1, <4>2, <4>3 DEF Apart, Held
    <3> QED BY <2>1, <3>1, <3>2
  <2> QED BY <1>0, <2>1, <2>4, <2>5 DEF CheckRecords
<1> QED BY <1>1, <1>2

(* The end of a check resolves the task that finished.                     *)
LEMMA EndCheckKeepsTasks ==
    ASSUME TypeInv, TaskInv, EndCheck
    PROVE  TaskInv'
<1>0. /\ promise \in [Tasks -> PromiseStates] /\ queue \in Seq(Tasks) /\ pending \in Seq(Tasks)
      /\ Apart(queue, pending, running) /\ \A w \in Waiters : awaited[w] \subseteq running
  BY DEF TypeInv, SchedulerTypeOK, TaskInv
<1>1. /\ UNCHANGED <<queue, pending, awaited>>
      /\ running' = running \/ (running = {} /\ running' = {Ping})
      /\ check'.finished = NoTask
      /\ \A t \in Tasks : promise'[t] = IF t = check.finished /\ promise[t] = "open"
                                        THEN "resolved" ELSE promise[t]
  <2>1. /\ UNCHANGED <<queue, pending, awaited>> /\ check' = NoCheck
        /\ running' = IF NeedsPing THEN {Ping} ELSE running
        /\ promise' = [t \in Tasks |-> IF t = check.finished /\ promise[t] = "open"
                                       THEN "resolved" ELSE promise[t]]
    BY Zenon DEF EndCheck
  <2>2. check'.finished = NoTask
    BY <2>1 DEF NoCheck
  <2>3. running' = running \/ (running = {} /\ running' = {Ping})
    BY <2>1 DEF NeedsPing
  <2> QED BY <2>1, <2>2, <2>3
<1>2. Range(queue) \subseteq Tasks /\ Range(pending) \subseteq Tasks
  BY <1>0 DEF Range
<1>3. Apart(queue', pending', running')
  BY <1>0, <1>1, <1>2, PingIsNoTask DEF Apart
<1>4. \A t \in Tasks : t \in Held' <=> t \in Held
  BY <1>1, PingIsNoTask DEF Held
<1>5. NoTask \notin Held'
  <2>1. running \subseteq AllTasks
    BY DEF TypeInv, SchedulerTypeOK
  <2>2. Held' \subseteq AllTasks
    BY <1>1, <1>2, <2>1 DEF Held, AllTasks
  <2> QED BY <2>2, PingIsNoTask
<1>6. \A w \in Waiters : awaited'[w] \subseteq running'
  BY <1>0, <1>1
<1>7. ASSUME NEW t \in Tasks
      PROVE  /\ promise'[t] = "open" => t \in Held'
             /\ t \in Held' => promise'[t] \notin {"none", "resolved"}
  BY <1>1, <1>4 DEF TaskInv
<1> QED BY <1>1, <1>3, <1>5, <1>6, <1>7 DEF TaskInv

(* A cancelled task leaves the queue and the pending list, and its result  *)
(* is not open any more.                                                   *)
LEMMA CancelKeepsTasks ==
    ASSUME TypeInv, TaskInv, NEW w \in Waiters, NEW matching,
           NEW request \in {"restart", "cancelled"}, Cancel(w, matching, request),
           UNCHANGED <<running, check>>
    PROVE  TaskInv'
<1>0. /\ queue \in Seq(Tasks) /\ pending \in Seq(Tasks)
      /\ promise \in [Tasks -> PromiseStates] /\ awaited \in [Waiters -> SUBSET AllTasks]
      /\ Apart(queue, pending, running) /\ \A v \in Waiters : awaited[v] \subseteq running
  BY DEF TypeInv, SchedulerTypeOK, TaskInv
<1>1. /\ queue' = Without(queue, matching) /\ pending' = Without(pending, matching)
      /\ awaited' = [awaited EXCEPT ![w] = matching \cap running]
  BY Zenon DEF Cancel
<1>2. \A t \in Tasks : promise'[t] = IF t \in matching /\ t \in Held /\ promise[t] = "open"
                                    THEN request ELSE promise[t]
  <2> DEFINE removed == matching \cap (Range(queue) \cup Range(pending))
             executing == matching \cap running
  <2>1. promise' = [t \in Tasks |-> IF t \in removed \cup executing /\ promise[t] = "open"
                                    THEN request ELSE promise[t]]
    BY Zenon DEF Cancel
  <2>2. \A t \in Tasks : t \in removed \cup executing <=> t \in matching /\ t \in Held
    BY DEF Held
  <2> HIDE DEF removed, executing
  <2> QED BY <2>1, <2>2
<1>3. /\ Range(queue') = Range(queue) \ matching /\ Range(pending') = Range(pending) \ matching
      /\ NoRepeats(queue') /\ NoRepeats(pending')
  BY <1>0, <1>1, WithoutRange DEF Apart
<1>4. Apart(queue', pending', running')
  BY <1>0, <1>3 DEF Apart
<1>5. Held' \subseteq Held /\ \A t : t \in Held /\ t \notin matching => t \in Held'
  BY <1>3 DEF Held
<1>6. \A v \in Waiters : awaited'[v] \subseteq running'
  BY <1>0, <1>1
<1>7. ASSUME NEW t \in Tasks
      PROVE  /\ promise'[t] = "open" /\ check'.finished # t => t \in Held'
             /\ t \in Held' => promise'[t] \notin {"none", "resolved"}
  BY <1>2, <1>5 DEF TaskInv
<1> QED BY <1>4, <1>5, <1>6, <1>7 DEF TaskInv

(* The other steps.                                                        *)
LEMMA TaskInvKept ==
    ASSUME TypeInv, TaskInv, ShutInv, SchedulerStep
    PROVE  TaskInv'
<1>0. /\ queue \in Seq(Tasks) /\ pending \in Seq(Tasks) /\ running \subseteq AllTasks
      /\ promise \in [Tasks -> PromiseStates] /\ awaited \in [Waiters -> SUBSET AllTasks]
      /\ Apart(queue, pending, running) /\ \A w \in Waiters : awaited[w] \subseteq running
  BY DEF TypeInv, SchedulerTypeOK, TaskInv
<1>1. ASSUME NEW t \in running, Finish(t) PROVE TaskInv'
  <2>1. /\ running' = running \ {t} /\ awaited' = [w \in Waiters |-> awaited[w] \ {t}]
        /\ check'.finished = t /\ check'.on /\ check.finished = NoTask
        /\ UNCHANGED <<queue, pending, promise>>
    BY <1>1 DEF Finish, NewCheck, MutexFree, TaskInv
  <2>2. Apart(queue', pending', running')
    BY <1>0, <2>1 DEF Apart
  <2>3. Held' = Held \ {t} /\ t \notin Held'
    BY <1>0, <2>1 DEF Held, Apart
  <2>4. \A u \in Tasks : promise[u] = "open" => u \in Held
    <3>1. NoTask \notin Tasks
      BY PingIsNoTask DEF AllTasks
    <3> QED BY <2>1, <3>1 DEF TaskInv
  <2>5. \A w \in Waiters : awaited'[w] \subseteq running'
    BY <1>0, <2>1
  <2> QED BY <2>1, <2>2, <2>3, <2>4, <2>5 DEF TaskInv
<1>2. ASSUME NEW t \in Tasks, Schedule(t) PROVE TaskInv'
  <2>1. /\ queue' = Append(queue, t) /\ UNCHANGED <<pending, running, awaited>>
        /\ promise[t] = "none" /\ promise' = [promise EXCEPT ![t] = "open"]
        /\ check'.finished = NoTask /\ check'.on /\ check.finished = NoTask
    BY <1>2 DEF Schedule, NewCheck, MutexFree, TaskInv
  <2>2. t \notin Held
    BY <2>1 DEF TaskInv
  <2>3. Range(queue') = Range(queue) \cup {t} /\ NoRepeats(queue')
    BY <1>0, <2>1, <2>2, AppendElements DEF Apart, Held
  <2>4. Apart(queue', pending', running') /\ Held' = Held \cup {t}
    BY <1>0, <2>1, <2>2, <2>3 DEF Apart, Held
  <2>5. NoTask \notin Held' /\ NoTask \notin Tasks
    BY <2>1, <2>4, PingIsNoTask DEF TaskInv, AllTasks
  <2>6. \A u \in Tasks : promise'[u] = IF u = t THEN "open" ELSE promise[u]
    BY <1>0, <2>1
  <2> QED BY <1>0, <2>1, <2>4, <2>5, <2>6 DEF TaskInv
<1>3. ASSUME NEW t \in Tasks, Abort(t) PROVE TaskInv'
  <2>1. /\ UNCHANGED <<queue, pending, running, awaited, check>>
        /\ \A u \in Tasks : promise'[u] = IF u = t THEN "cancelled" ELSE promise[u]
    BY <1>0, <1>3 DEF Abort
  <2>2. Held' = Held
    BY <2>1 DEF Held
  <2> QED BY <2>1, <2>2 DEF TaskInv
<1>4. ASSUME UNCHANGED <<queue, pending, running, promise, awaited, check>> PROVE TaskInv'
  <2>1. Held' = Held
    BY <1>4 DEF Held
  <2> QED BY <1>4, <2>1 DEF TaskInv
<1>5. ASSUME NEW l, LockLevel(l) \/ UnlockLevel(l) PROVE TaskInv'
  BY <1>4, <1>5 DEF LockLevel, UnlockLevel
<1>6. ASSUME NEW c \in Connections, NEW by, NEW request \in {"restart", "cancelled"},
             BlockInterruptTasks(c, by, request)
      PROVE  TaskInv'
  <2>1. /\ Cancel(c, {t \in Held : c \in DependsOn(t)}, request) /\ c \in Waiters
        /\ UNCHANGED <<running, check>>
    BY <1>6 DEF BlockInterruptTasks, Waiters
  <2> QED BY <2>1, CancelKeepsTasks
<1>7. ASSUME NEW c, NEW by, Unblock(c, by) PROVE TaskInv'
  <2>1. /\ UNCHANGED <<queue, pending, running, promise, awaited>>
        /\ check'.finished = NoTask /\ check'.on /\ check.finished = NoTask
    BY <1>7 DEF Unblock, NewCheck, MutexFree, TaskInv
  <2>2. Held' = Held
    BY <2>1 DEF Held
  <2> QED BY <2>1, <2>2 DEF TaskInv
<1>8. CASE CancelAll
  <2>1. /\ Cancel(Manager, Held, "cancelled") /\ Manager \in Waiters
        /\ UNCHANGED <<running, check>>
    BY <1>8 DEF CancelAll, Waiters
  <2> QED BY <2>1, CancelKeepsTasks
<1>9. CASE AwaitAll
  <2>1. /\ UNCHANGED <<queue, pending, running, promise, check>> /\ queue = <<>>
        /\ awaited' = [awaited EXCEPT ![Manager] = running \cup Range(queue)]
    BY <1>9 DEF AwaitAll, ShutInv, Gone
  <2>2. Held' = Held /\ Range(queue) = {}
    BY <2>1 DEF Held, Range
  <2>3. \A w \in Waiters : awaited'[w] \subseteq running'
    BY <1>0, <2>1, <2>2
  <2> QED BY <2>1, <2>2, <2>3 DEF TaskInv
<1>10. CASE UNCHANGED schedVars
  BY <1>4, <1>10 DEF schedVars
<1> QED
  BY <1>1, <1>2, <1>3, <1>5, <1>6, <1>7, <1>8, <1>9, <1>10, StartKeepsTasks, EndCheckKeepsTasks
     DEF SchedulerStep

PresentationInv == TypeInv /\ ConnectionInv /\ ShutInv /\ TaskInv

LEMMA PresentationInvIsInvariant == SafetySpec => []PresentationInv
<1>1. Init => ShutInv /\ TaskInv
  <2> SUFFICES ASSUME Init PROVE ShutInv /\ TaskInv
    OBVIOUS
  <2>1. /\ queue = <<>> /\ pending = <<>> /\ running = {} /\ promise = [t \in Tasks |-> "none"]
        /\ awaited = [w \in Waiters |-> {}] /\ check = NoCheck /\ manager = "alive"
    BY DEF Init, SchedulerInit
  <2>2. ShutInv
    BY <2>1 DEF ShutInv, Gone
  <2>3. Range(queue) = {} /\ Range(pending) = {} /\ Held = {}
    BY <2>1 DEF Range, Held
  <2>4. Apart(queue, pending, running)
    BY <2>1, <2>3 DEF Apart, NoRepeats
  <2>5. TaskInv
    BY <2>1, <2>3, <2>4 DEF TaskInv, NoCheck
  <2> QED BY <2>2, <2>5
<1>2. PresentationInv /\ [Next]_vars => (ShutInv /\ TaskInv)'
  BY StepOfScheduler, TaskInvKept, ShutInvKept DEF PresentationInv
<1>3. ASSUME TypeInv /\ ConnectionInv PROVE ShutInv /\ TaskInv => PresentationInv
  BY <1>3 DEF PresentationInv
<1> QED BY <1>1, <1>2, <1>3, TypesAreInvariant, PTL DEF SafetySpec

(***************************************************************************)
(* A task is in one place, is held while its result is open, and is only   *)
(* awaited while it runs.                                                  *)
(***************************************************************************)
THEOREM TaskIsInOnePlace == SafetySpec => []TaskInOnePlace
<1>1. TypeInv /\ TaskInv => TaskInOnePlace
  <2> SUFFICES ASSUME TypeInv, TaskInv PROVE TaskInOnePlace
    OBVIOUS
  <2>1. Apart(queue, pending, running)
    BY DEF TaskInv
  <2>2. ASSUME NEW t \in Tasks PROVE Places(t) # {} <=> t \in Held
    <3>1. t \in Range(queue) <=> \E i \in DOMAIN queue : queue[i] = t
      BY DEF Range
    <3>2. t \in Range(pending) <=> \E i \in DOMAIN pending : pending[i] = t
      BY DEF Range
    <3> QED BY <3>1, <3>2 DEF Places, Held
  <2>3. ASSUME NEW t \in Tasks, NEW x \in Places(t), NEW y \in Places(t) PROVE x = y
    <3>1. \A i \in DOMAIN queue : queue[i] = t => t \in Range(queue)
      BY DEF Range
    <3>2. \A i \in DOMAIN pending : pending[i] = t => t \in Range(pending)
      BY DEF Range
    <3> QED BY <2>1, <2>3, <3>1, <3>2 DEF Places, Apart, NoRepeats
  <2>4. ASSUME NEW t \in Tasks PROVE Cardinality(Places(t)) <= 1
    <3>1. CASE Places(t) = {}
      BY <3>1, FS_EmptySet
    <3>2. CASE Places(t) # {}
      <4>1. PICK x : Places(t) = {x}
        BY <2>3, <3>2
      <4>2. Cardinality({x}) = 1
        BY FS_Singleton
      <4> QED BY <4>1, <4>2
    <3> QED BY <3>1, <3>2
  <2> QED BY <2>2, <2>4 DEF TaskInv, TaskInOnePlace
<1> QED BY <1>1, PresentationInvIsInvariant, PTL DEF PresentationInv

-------------------------------------------------------------------------------
(***************************************************************************)
(* Blockers.  One exists for a connection while it is closing, another     *)
(* while it is suspended.                                                  *)
(***************************************************************************)
BlockInv ==
    \A b \in blockers :
        /\ b[1] = "Closed" => phase[b[2]] = "closing"
        /\ b[1] = "Suspended" => suspended[b[2]] > 0

LEMMA BlockInvKept ==
    ASSUME TypeInv, ConnectionInv, BlockInv, [Next]_vars
    PROVE  BlockInv'
<1>0. /\ blockers \subseteq BlockerKinds \X Connections
      /\ phase \in [Connections -> {"open", "closing", "closed"}]
      /\ suspended \in [Connections -> Nat]
  BY DEF TypeInv, SchedulerTypeOK, Blockers, BlockerKinds, ConnectionInv, ConnectionsTypeOK
<1>1. ASSUME UNCHANGED <<blockers, phase, suspended>> PROVE BlockInv'
  BY <1>1 DEF BlockInv
<1>2. ASSUME NEW c \in Connections, OnBeforeSchemaChanges(c), UNCHANGED phase PROVE BlockInv'
  <2>1. suspended' = [suspended EXCEPT ![c] = suspended[c] + 1]
        /\ blockers' \subseteq blockers \cup {<<"Suspended", c>>}
    BY <1>2 DEF OnBeforeSchemaChanges, BlockInterruptTasks, schedVars
  <2>2. \A e \in Connections : suspended[e] > 0 => suspended'[e] > 0
    BY <1>0, <2>1
  <2>3. suspended'[c] > 0
    BY <1>0, <2>1
  <2> QED BY <1>0, <1>2, <2>1, <2>2, <2>3 DEF BlockInv
<1>3. ASSUME NEW c \in Connections, OnAfterSchemaChanges(c), UNCHANGED phase PROVE BlockInv'
  <2>1. suspended' = [suspended EXCEPT ![c] = suspended[c] - 1]
        /\ IF suspended'[c] > 0 THEN blockers' = blockers
           ELSE blockers' = blockers \ {<<"Suspended", c>>}
    BY <1>3 DEF OnAfterSchemaChanges, Unblock, schedVars
  <2> SUFFICES ASSUME NEW b \in blockers'
               PROVE  /\ b[1] = "Closed" => phase'[b[2]] = "closing"
                      /\ b[1] = "Suspended" => suspended'[b[2]] > 0
    BY DEF BlockInv
  <2>2. b \in blockers /\ b \in BlockerKinds \X Connections
    BY <1>0, <2>1
  <2>3. CASE b = <<"Suspended", c>>
    BY <2>1, <2>3
  <2>4. CASE b # <<"Suspended", c>>
    <3>1. b[1] = "Suspended" => b[2] # c
      BY <2>2, <2>4
    <3>2. b[1] = "Suspended" => suspended'[b[2]] = suspended[b[2]]
      BY <1>0, <2>1, <2>2, <3>1
    <3> QED BY <1>3, <2>2, <3>2 DEF BlockInv
  <2> QED BY <2>3, <2>4
<1>4. ASSUME NEW c \in Connections, OnConnectionClosed(c), UNCHANGED suspended PROVE BlockInv'
  <2>1. /\ phase' = [phase EXCEPT ![c] = "closing"]
        /\ blockers' = blockers \cup {<<"Closed", c>>}
    BY <1>4 DEF OnConnectionClosed, BlockInterruptTasks
  <2> QED BY <1>0, <1>4, <2>1 DEF BlockInv
<1>5. ASSUME NEW c \in Connections, EndClose(c) PROVE BlockInv'
  <2>1. /\ phase' = [phase EXCEPT ![c] = "closed"] /\ UNCHANGED suspended
        /\ blockers' = blockers \ {<<"Closed", c>>}
    BY <1>5 DEF EndClose, Unblock
  <2> SUFFICES ASSUME NEW b \in blockers'
               PROVE  /\ b[1] = "Closed" => phase'[b[2]] = "closing"
                      /\ b[1] = "Suspended" => suspended'[b[2]] > 0
    BY DEF BlockInv
  <2>2. b \in blockers /\ b \in BlockerKinds \X Connections /\ b # <<"Closed", c>>
    BY <1>0, <2>1
  <2>3. b[1] = "Closed" => b[2] # c
    BY <2>2
  <2>4. b[1] = "Closed" => phase'[b[2]] = phase[b[2]]
    BY <1>0, <2>1, <2>2, <2>3
  <2> QED BY <2>1, <2>2, <2>4 DEF BlockInv
<1>6. ASSUME NEW r, NEW n, Issue(r) \/ Reissue(r, n) \/ AbortRequest(r, n) PROVE BlockInv'
  BY <1>1, <1>6 DEF Issue, Reissue, AbortRequest, Schedule, Abort, connVars
<1>7. ASSUME NEW l, Lock(l) \/ Unlock(l) PROVE BlockInv'
  BY <1>1, <1>7 DEF Lock, Unlock, LockLevel, UnlockLevel, connVars
<1>8. CASE Scheduling
  <2>1. UNCHANGED <<phase, suspended>>
    BY <1>8 DEF Scheduling, connVars
  <2>2. UNCHANGED blockers
    BY <1>8 DEF Scheduling, CheckTasks, RunPending, RunQueued, EndCheck, Finish
  <2> QED BY <1>1, <2>1, <2>2
<1>9. ASSUME NEW c \in Connections, NEW op, BeginOperation(c, op) PROVE BlockInv'
  BY <1>2, <1>9 DEF BeginOperation
<1>10. ASSUME NEW c \in Connections, SchemaEvent(c) PROVE BlockInv'
  BY <1>2, <1>3, <1>10 DEF SchemaEvent
<1>11. ASSUME NEW c \in Connections, BeginClose(c) PROVE BlockInv'
  BY <1>4, <1>11 DEF BeginClose
<1>12. CASE CloseConnections
  BY <1>4, <1>12 DEF CloseConnections
<1>13. CASE BeginDestruction \/ CancelAll \/ AwaitAll \/ Delete
  BY <1>1, <1>13 DEF BeginDestruction, CancelAll, AwaitAll, Delete, schedVars
<1>14. CASE UNCHANGED vars
  BY <1>1, <1>14 DEF vars, schedVars, connVars
<1> QED
  BY <1>5, <1>6, <1>7, <1>8, <1>9, <1>10, <1>11, <1>12, <1>13, <1>14 DEF Next, Destruction

(* With the operations that resume what they suspend, a connection is as   *)
(* deeply suspended as the events still to come will resume it.            *)
BalanceInv == \A c \in Connections : <<suspended[c], script[c]>> \in Depths

LEMMA BalanceInvKept ==
    ASSUME Operations \subseteq BalancedOperations, ConnectionInv, BalanceInv, [Next]_vars
    PROVE  BalanceInv'
<1>0. suspended \in [Connections -> Nat] /\ DOMAIN script = Connections
  BY DEF ConnectionInv, ConnectionsTypeOK
<1>1. ASSUME UNCHANGED <<suspended, script>> PROVE BalanceInv'
  BY <1>1 DEF BalanceInv
<1>2. ASSUME NEW c \in Connections, NEW n, NEW s, <<n, s>> \in Depths,
             suspended' = [suspended EXCEPT ![c] = n], script' = [script EXCEPT ![c] = s]
      PROVE  BalanceInv'
  BY <1>0, <1>2 DEF BalanceInv
<1>3. ASSUME NEW c \in Connections, NEW op \in Operations, BeginOperation(c, op)
      PROVE  BalanceInv'
  <2>1. /\ suspended' = [suspended EXCEPT ![c] = suspended[c] + 1] /\ script[c] = <<>>
        /\ script' = [script EXCEPT ![c] = Tail(EventsOf[op])]
    BY <1>3 DEF BeginOperation, OnBeforeSchemaChanges, Idle
  <2>2. suspended[c] = 0
    <3>1. <<suspended[c], <<>>>> \in Depths
      BY <2>1 DEF BalanceInv
    <3> DEFINE d == <<suspended[c], <<>>>>
    <3>2. d[2] = <<>> => d[1] = 0
      BY <3>1, EventsLeadOn
    <3> QED BY <3>2
  <2>3. <<1, Tail(EventsOf[op])>> \in Depths
    BY OperationsBegin
  <2>4. suspended[c] + 1 = 1
    BY <2>2
  <2> QED BY <1>2, <2>1, <2>3, <2>4
<1>4. ASSUME NEW c \in Connections, SchemaEvent(c) PROVE BalanceInv'
  <2> DEFINE d == <<suspended[c], script[c]>>
  <2>1. d \in Depths /\ d[1] = suspended[c] /\ d[2] = script[c]
    BY DEF BalanceInv
  <2> HIDE DEF d
  <2>2. script[c] # <<>> /\ script' = [script EXCEPT ![c] = Tail(script[c])]
    BY <1>4 DEF SchemaEvent
  <2>3. \/ Head(script[c]) = "before" /\ <<suspended[c] + 1, Tail(script[c])>> \in Depths
        \/ Head(script[c]) = "after" /\ <<suspended[c] - 1, Tail(script[c])>> \in Depths
    BY <2>1, <2>2, EventsLeadOn
  <2>4. CASE Head(script[c]) = "before"
    <3>1. suspended' = [suspended EXCEPT ![c] = suspended[c] + 1]
      BY <1>4, <2>4 DEF SchemaEvent, OnBeforeSchemaChanges
    <3> QED BY <1>2, <2>2, <2>3, <2>4, <3>1
  <2>5. CASE Head(script[c]) = "after"
    <3>1. suspended' = [suspended EXCEPT ![c] = suspended[c] - 1]
      BY <1>4, <2>5 DEF SchemaEvent, OnAfterSchemaChanges
    <3> QED BY <1>2, <2>2, <2>3, <2>5, <3>1
  <2> QED BY <2>3, <2>4, <2>5
<1>5. ASSUME NEW r, NEW n, Issue(r) \/ Reissue(r, n) \/ AbortRequest(r, n) PROVE BalanceInv'
  BY <1>1, <1>5 DEF Issue, Reissue, AbortRequest, connVars
<1>6. ASSUME NEW l, Lock(l) \/ Unlock(l) PROVE BalanceInv'
  BY <1>1, <1>6 DEF Lock, Unlock, connVars
<1>7. CASE Scheduling \/ UNCHANGED vars
  BY <1>1, <1>7 DEF Scheduling, vars, connVars
<1>8. ASSUME NEW c \in Connections, BeginClose(c) \/ EndClose(c) PROVE BalanceInv'
  BY <1>1, <1>8 DEF BeginClose, EndClose
<1>9. CASE BeginDestruction \/ Destruction
  BY <1>1, <1>9 DEF BeginDestruction, Destruction, CloseConnections, CancelAll, AwaitAll, Delete
<1> QED
  BY <1>3, <1>4, <1>5, <1>6, <1>7, <1>8, <1>9 DEF Next

(***************************************************************************)
(* When the scheduler is deleted nobody uses it any more.  An operation    *)
(* that fails may leave its connection suspended, and with it a blocker    *)
(* that will call the scheduler, so there must have been none.             *)
(***************************************************************************)
THEOREM DeletedIsAtRest ==
    ASSUME Operations \subseteq BalancedOperations
    PROVE  SafetySpec => []DeletedAtRest
<1> DEFINE Inv == BlockInv /\ BalanceInv
<1>1. Init => Inv
  <2>1. <<0, <<>>>> \in Depths
    BY DEF Depths
  <2> QED BY <2>1 DEF Init, SchedulerInit, BlockInv, BalanceInv
<1>2. Inv /\ PresentationInv /\ [Next]_vars => Inv'
  BY BlockInvKept, BalanceInvKept DEF PresentationInv
<1>3. Inv /\ PresentationInv => DeletedAtRest
  <2> SUFFICES ASSUME Inv, PresentationInv, manager = "deleted"
               PROVE  /\ queue = <<>> /\ pending = <<>> /\ running = {}
                      /\ ~check.on /\ blockers = {}
    BY DEF DeletedAtRest
  <2>1. /\ queue = <<>> /\ pending = <<>> /\ running = {} /\ ~check.on
        /\ \A c \in Connections : phase[c] = "closed" /\ script[c] = <<>>
    BY DEF PresentationInv, ShutInv, Gone
  <2>2. \A c \in Connections : suspended[c] = 0
    <3> SUFFICES ASSUME NEW c \in Connections PROVE suspended[c] = 0
      OBVIOUS
    <3> DEFINE d == <<suspended[c], script[c]>>
    <3>1. d \in Depths
      BY DEF BalanceInv
    <3>2. d[2] = <<>> => d[1] = 0
      BY <3>1, EventsLeadOn
    <3> QED BY <2>1, <3>2
  <2>3. blockers \subseteq BlockerKinds \X Connections
    BY DEF PresentationInv, TypeInv, SchedulerTypeOK, Blockers, BlockerKinds
  <2>4. blockers = {}
    <3> SUFFICES ASSUME NEW b \in blockers PROVE FALSE
      OBVIOUS
    <3>1. b[1] \in BlockerKinds /\ b[2] \in Connections
      BY <2>3
    <3> QED BY <2>1, <2>2, <3>1 DEF BlockInv, BlockerKinds
  <2> QED BY <2>1, <2>4
<1> HIDE DEF Inv
<1> QED BY <1>1, <1>2, <1>3, PresentationInvIsInvariant, PTL DEF SafetySpec
===============================================================================
