---------------------------- MODULE TaskScheduler ----------------------------
(***************************************************************************)
(* The scheduler of presentation tasks: a queue ordered by priority, a     *)
(* list of tasks that wait for running ones to finish, the tasks handed to *)
(* the thread pool, and the blockers that keep tasks from starting.        *)
(*                                                                         *)
(* All of it is protected by one mutex.  An action is one critical         *)
(* section, except that CheckTasks, which every section that may let a     *)
(* task start ends with, is a sequence of steps during which the mutex is  *)
(* held (check.on): tasks execute meanwhile, locks of hierarchy levels     *)
(* come and go, and a thread that only waits for completions goes on.      *)
(***************************************************************************)
EXTENDS Integers, FiniteSets, Sequences, SequencesExt, Subsequences

CONSTANTS
    Requests,       (* what clients ask for, and the manager's own tasks     *)
    Attempts,       (* how often a request may be made in all                *)
    Connections,    (* the open iModels                                      *)
    AnyConnection,  (* the connection "*", which matches every other         *)
    Parents,        (* parent nodes of hierarchy levels                      *)
    Allocations,    (* m_threadAllocations: the threads of each priority     *)
    Ping,           (* the task that only lets time pass                     *)
    NoTask,
    Manager         (* the thread that destroys the manager                  *)

(* Client requests for a level of a hierarchy or for content, and the      *)
(* tasks by which the manager handles changes.                             *)
Kinds == {"Nodes", "Content", "InstancesChanged", "SettingChanged"}

ASSUME TaskSchedulerAssumption ==
    /\ Requests \subseteq [id : Nat, kind : Kinds, conn : Connections \cup {AnyConnection},
                            parent : Parents, priority : Nat]
    /\ \A r \in Requests : r.conn = AnyConnection <=> r.kind = "SettingChanged"
    /\ Attempts \in Nat \ {0} /\ AnyConnection \notin Connections /\ Manager \notin Connections
    /\ IsFiniteSet(DOMAIN Allocations) /\ DOMAIN Allocations \subseteq Nat
    /\ \A p \in DOMAIN Allocations : Allocations[p] \in Nat
    /\ \E p \in DOMAIN Allocations : Allocations[p] > 0
    /\ Ping \notin Requests \X Nat /\ NoTask \notin Requests \X Nat /\ Ping # NoTask

(* Each attempt at a request is a task of its own.                         *)
Tasks == Requests \X (1..Attempts)
AllTasks == Tasks \cup {Ping}
(* The threads of the pool: those of each priority, numbered.              *)
Threads == Cardinality(UNION {{p} \X (1..Allocations[p]) : p \in DOMAIN Allocations})
Levels == {<<r.conn, r.parent>> : r \in {q \in Requests : q.kind = "Nodes"}}

VARIABLES
    queue,      (* m_prioritizedQueue, in the order of Add                   *)
    pending,    (* m_pendingTasks                                            *)
    running,    (* m_runningTasks                                            *)
    promise,    (* the result of each task                                   *)
    blockers,   (* m_blockers                                                *)
    awaited,    (* the tasks whose completion each waiting thread awaits     *)
    check,      (* the CheckTasks under way                                  *)
    locked      (* the levels locked in the hierarchy cache                  *)

schedVars == <<queue, pending, running, promise, blockers, awaited, check, locked>>

PromiseStates == {"none", "open", "resolved", "cancelled", "restart"}
Blockers == {"Closed", "Suspended"} \X Connections
Waiters == Connections \cup {Manager}
NoCheck == [on |-> FALSE, left |-> 0, holders |-> {}, taken |-> {}, finished |-> NoTask]

SchedulerInit ==
    /\ queue = <<>> /\ pending = <<>> /\ running = {}
    /\ promise = [t \in Tasks |-> "none"]
    /\ blockers = {} /\ awaited = [w \in Waiters |-> {}]
    /\ check = NoCheck /\ locked = {}

-------------------------------------------------------------------------------
(***************************************************************************)
(* What a task depends on and which others it keeps from starting.         *)
(***************************************************************************)
DependsOn(t) ==
    IF t = Ping THEN {} ELSE IF t[1].conn = AnyConnection THEN Connections ELSE {t[1].conn}

PriorityOf(t) == IF t = Ping THEN 1000 ELSE t[1].priority

(* GetOtherTasksBlockingPredicate of t, asked about u.                     *)
Blocks(t, u) ==
    /\ t # Ping
    /\ CASE t[1].kind = "Nodes" -> u # Ping /\ u[1].kind = "Nodes" /\ u[1].parent = t[1].parent
         [] t[1].kind = "InstancesChanged" -> t[1].conn \in DependsOn(u)
         [] t[1].kind = "SettingChanged" -> TRUE
         [] OTHER -> FALSE

(* IsBlocked: requests for nodes wait while their level is locked.         *)
IsBlocked(t) == t[1].kind = "Nodes" /\ <<t[1].conn, t[1].parent>> \in locked

(* Fault: the manager's own tasks pass.                                    *)
FaultyBlockedByBlocker(t) ==
    \E b \in blockers : b[2] \in DependsOn(t) /\ t[1].kind \in {"Nodes", "Content"}

BlockedByBlocker(t) == \E b \in blockers : b[2] \in DependsOn(t)

-------------------------------------------------------------------------------
(***************************************************************************)
(* Thread allocations.  A task takes a thread of the highest slot it may   *)
(* use: those below its priority, and the first at or above it.            *)
(***************************************************************************)
SlotsFor(p) ==
    {s \in DOMAIN Allocations : \A q \in DOMAIN Allocations : p <= q => s <= q}
FreeSlots(free, p) == {s \in SlotsFor(p) : free[s] > 0}

TakeSlot(free, p) ==
    IF FreeSlots(free, p) = {} THEN free
    ELSE [free EXCEPT ![Max(FreeSlots(free, p))] = @ - 1]

(* What the tasks that run or wait in the pending list leave.              *)
SubtractAllocations(holders) ==
    FoldSet(LAMBDA t, free : TakeSlot(free, PriorityOf(t)), Allocations, holders)

-------------------------------------------------------------------------------
(***************************************************************************)
(* CheckTasks.  The tasks that keep others from starting, the holders of   *)
(* threads, are looked up once, when it begins.  The tasks then taken from *)
(* the queue hold threads too, so that the slots left are those that the   *)
(* holders and the tasks taken leave.                                      *)
(***************************************************************************)
NewCheck(run, pend, finished) ==
    [on |-> TRUE,
     left |-> IF Cardinality(run) >= Threads THEN 0 ELSE Threads - Cardinality(run),
     holders |-> run \cup Range(pend), taken |-> {}, finished |-> finished]

MutexFree == ~check.on

(* CreateTasksFilter *)
PassesFilter(t) ==
    /\ FreeSlots(SubtractAllocations(check.holders \cup check.taken), PriorityOf(t)) # {}
    /\ \A h \in check.holders : ~Blocks(h, t)
    /\ ~BlockedByBlocker(t)
    /\ ~IsBlocked(t)

(* Fault: running tasks are not asked.                                     *)
FaultyCanExecute(t) == ~BlockedByBlocker(t) /\ ~IsBlocked(t)
CanExecute(t) ==
    /\ ~BlockedByBlocker(t)
    /\ \A r \in running : ~Blocks(t, r)
    /\ ~IsBlocked(t)

Executable == {i \in DOMAIN pending : CanExecute(pending[i])}
Eligible == {i \in DOMAIN queue : PassesFilter(queue[i])}
(* The queue is searched from the highest priority to the lowest.          *)
IsFirst(i) ==
    \A j \in Eligible :
        \/ PriorityOf(queue[i]) > PriorityOf(queue[j])
        \/ PriorityOf(queue[i]) = PriorityOf(queue[j]) /\ i <= j

(* A pending task that may execute comes before any in the queue; its slot *)
(* has been taken already.                                                 *)
(* Fault: it stays in the list.                                            *)
FaultyRunPending ==
    /\ check.on /\ check.left > 0
    /\ \E i \in Executable : running' = running \cup {pending[i]}
    /\ check' = [check EXCEPT !.left = @ - 1]
    /\ UNCHANGED <<queue, pending, promise, blockers, awaited, locked>>

RunPending ==
    /\ check.on /\ check.left > 0
    /\ \E i \in Executable :
          /\ \A j \in Executable : i <= j
          /\ running' = running \cup {pending[i]}
          /\ pending' = RemoveAt(pending, i)
    /\ check' = [check EXCEPT !.left = @ - 1]
    /\ UNCHANGED <<queue, promise, blockers, awaited, locked>>

(* A queued task that would block a running one moves to the pending list. *)
RunQueued ==
    /\ check.on /\ check.left > 0 /\ Executable = {}
    /\ \E i \in Eligible :
          /\ IsFirst(i)
          /\ queue' = RemoveAt(queue, i)
          /\ IF CanExecute(queue[i])
             THEN running' = running \cup {queue[i]} /\ UNCHANGED pending
             ELSE pending' = Append(pending, queue[i]) /\ UNCHANGED running
          /\ check' = [check EXCEPT !.left = @ - 1,
                                    !.taken = @ \cup {queue[i]}]
    /\ UNCHANGED <<promise, blockers, awaited, locked>>

(* The end of CheckTasks: if nothing runs and something waits, a ping task *)
(* is executed.  Then the thread that finished a task resolves its result, *)
(* and the mutex is released.                                              *)
(* Fault: the queue is forgotten.                                          *)
FaultyNeedsPing == running = {} /\ blockers = {} /\ pending # <<>>
NeedsPing == running = {} /\ blockers = {} /\ (pending # <<>> \/ queue # <<>>)

EndCheck ==
    /\ check.on
    /\ check.left = 0 \/ (Executable = {} /\ Eligible = {})
    /\ running' = IF NeedsPing THEN {Ping} ELSE running
    /\ promise' = [t \in Tasks |->
                      IF t = check.finished /\ promise[t] = "open" THEN "resolved"
                      ELSE promise[t]]
    /\ check' = NoCheck
    /\ UNCHANGED <<queue, pending, blockers, awaited, locked>>

CheckTasks == RunPending \/ RunQueued \/ EndCheck

-------------------------------------------------------------------------------
(***************************************************************************)
(* Scheduling and executing.  _Schedule adds the task in one critical      *)
(* section and checks in the next: a section that comes in between finds   *)
(* the task in the queue, as it does here when it comes first.             *)
(***************************************************************************)
Schedule(t) ==
    /\ MutexFree /\ promise[t] = "none"
    /\ queue' = Append(queue, t)
    /\ check' = NewCheck(running, pending, NoTask)
    /\ promise' = [promise EXCEPT ![t] = "open"]
    /\ UNCHANGED <<pending, running, blockers, awaited, locked>>

(* A task has executed, or was found cancelled before it did: it leaves    *)
(* the running tasks, completes, and then tasks are checked.               *)
(* Fault: a cancelled one never completes.                                 *)
FaultyFinish(t) ==
    /\ MutexFree /\ t \in running
    /\ running' = running \ {t}
    /\ awaited' = IF t \in Tasks /\ promise[t] = "open"
                  THEN [w \in Waiters |-> awaited[w] \ {t}] ELSE awaited
    /\ check' = NewCheck(running', pending, t)
    /\ UNCHANGED <<queue, pending, promise, blockers, locked>>

Finish(t) ==
    /\ MutexFree /\ t \in running
    /\ running' = running \ {t}
    /\ awaited' = [w \in Waiters |-> awaited[w] \ {t}]
    /\ check' = NewCheck(running', pending, t)
    /\ UNCHANGED <<queue, pending, promise, blockers, locked>>

(* A client gives up its request: the task is cancelled where it is.       *)
Abort(t) ==
    /\ MutexFree /\ promise[t] = "open"
    /\ promise' = [promise EXCEPT ![t] = "cancelled"]
    /\ UNCHANGED <<queue, pending, running, blockers, awaited, check, locked>>

(* The tasks the scheduler has.                                            *)
Held == running \cup Range(pending) \cup Range(queue)

(* _Cancel: tasks in the queue and in the pending list are cancelled,      *)
(* completed and removed; running ones are cancelled, and w awaits them.   *)
Cancel(w, matching, request) ==
    LET removed == matching \cap (Range(queue) \cup Range(pending))
        executing == matching \cap running
    IN  /\ queue' = Without(queue, matching)
        /\ pending' = Without(pending, matching)
        /\ promise' = [t \in Tasks |->
                          IF t \in removed \cup executing /\ promise[t] = "open"
                          THEN request ELSE promise[t]]
        /\ awaited' = [awaited EXCEPT ![w] = executing]

(* BlockInterruptTasks: the tasks of a connection are cancelled and kept   *)
(* from starting.                                                          *)
BlockInterruptTasks(c, by, request) ==
    /\ MutexFree
    /\ Cancel(c, {t \in Held : c \in DependsOn(t)}, request)
    /\ blockers' = blockers \cup {<<by, c>>}
    /\ UNCHANGED <<running, check, locked>>

Unblock(c, by) ==
    /\ MutexFree
    /\ blockers' = blockers \ {<<by, c>>}
    /\ check' = NewCheck(running, pending, NoTask)
    /\ UNCHANGED <<queue, pending, running, promise, awaited, locked>>

(* A hierarchy level is locked and unlocked by whoever creates it, maybe   *)
(* another process that uses the same cache file; a lock expires.          *)
LockLevel(l) ==
    /\ l \notin locked
    /\ locked' = locked \cup {l}
    /\ UNCHANGED <<queue, pending, running, promise, blockers, awaited, check>>
UnlockLevel(l) ==
    /\ l \in locked
    /\ locked' = locked \ {l}
    /\ UNCHANGED <<queue, pending, running, promise, blockers, awaited, check>>

-------------------------------------------------------------------------------
(* The type invariant of the scheduler.                                    *)
SchedulerTypeOK ==
    /\ queue \in Seq(Tasks) /\ pending \in Seq(Tasks)
    /\ running \subseteq AllTasks
    /\ promise \in [Tasks -> PromiseStates]
    /\ blockers \subseteq Blockers
    /\ awaited \in [Waiters -> SUBSET AllTasks]
    /\ check \in [on : BOOLEAN, left : 0..Threads, holders : SUBSET AllTasks,
                  taken : SUBSET Tasks, finished : AllTasks \cup {NoTask}]
    /\ locked \subseteq Levels

(***************************************************************************)
(* A task is in one place: once in the queue, once in the pending list or  *)
(* running.  While its result is open it is in one of them, so that it     *)
(* will complete; and who awaits a task awaits one that will complete      *)
(* (CheckTasks, _Cancel).                                                  *)
(***************************************************************************)
Places(t) ==
    {<<"queue", i>> : i \in {j \in DOMAIN queue : queue[j] = t}}
        \cup {<<"pending", i>> : i \in {j \in DOMAIN pending : pending[j] = t}}
        \cup {<<"running", 0>> : r \in running \cap {t}}

TaskInOnePlace ==
    /\ \A t \in Tasks :
          /\ Cardinality(Places(t)) <= 1
          /\ promise[t] = "open" /\ check.finished # t => Places(t) # {}
          /\ Places(t) # {} => promise[t] \notin {"none", "resolved"}
    /\ \A w \in Waiters : awaited[w] \subseteq running

(***************************************************************************)
(* Once those who suspend or close a connection have waited for its tasks, *)
(* none of them runs until they are done (BlockInterruptTasks).            *)
(***************************************************************************)
QuietWhileBlocked ==
    \A b \in blockers :
        awaited[b[2]] = {} => \A t \in running : b[2] \notin DependsOn(t)

(* Two tasks that keep each other from starting never run together         *)
(* (CanExecute, ECPresentationManager's CreateNodesTaskParams).            *)
RivalsApart ==
    \A t, u \in running : t # u => ~(Blocks(t, u) /\ Blocks(u, t))
===============================================================================
