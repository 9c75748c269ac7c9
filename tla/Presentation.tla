----------------------------- MODULE Presentation -----------------------------
(***************************************************************************)
(* The presentation manager: the scheduler of its tasks, the connections   *)
(* to the iModels they read, the schema operations that suspend a          *)
(* connection and the destruction of the manager.                          *)
(*                                                                         *)
(* A connection is suspended and resumed by the events of the ECDb, raised *)
(* on the thread that changes its schemas; operations nest, so that one    *)
(* raises several pairs.  That thread waits for the tasks of the           *)
(* connection before it goes on, and so does the one that closes it.       *)
(***************************************************************************)
EXTENDS TaskScheduler

CONSTANTS
    Operations,     (* the schema operations that take place, by outcome     *)
    MaxOperations,  (* bound: how many there are                             *)
    MaxEvents       (* bound: how many requests given up, levels locked and  *)
                    (* iModels closed there are in all                       *)

(* The events each operation raises, those of the operations it calls      *)
(* included.  DropSchemas, the Pull of a schema synchronisation and the    *)
(* application of schema changes return early on an error.                 *)
(* Fault: only the inner event is raised.                                  *)
FaultyEventsOf ==
    [ImportSchemas |-> <<"before", "after", "after">>]

EventsOf ==
    [ClearECDbCache |-> <<"before", "after">>,
     ImportSchemas |-> <<"before", "before", "after", "after">>,
     DropSchemas |-> <<"before", "before", "after", "before", "after", "after">>,
     DropSchemasFails |-> <<"before">>,
     PullFails |-> <<"before", "before", "after">>,
     ApplySchemaChangesFails |-> <<"before", "before", "after">>]

ASSUME PresentationAssumption ==
    /\ Operations \subseteq DOMAIN EventsOf
    /\ MaxEvents \in Nat /\ MaxOperations \in Nat /\ Attempts > MaxOperations

VARIABLES
    phase,      (* m_isOpen of each connection, and the closing of it        *)
    suspended,  (* m_isSuspended of each connection                          *)
    script,     (* what the schema operation under way has yet to raise      *)
    manager,    (* how far the destruction of the manager has come           *)
    spent       (* how much of MaxOperations and of MaxEvents               *)

connVars == <<phase, suspended, script, manager, spent>>
vars == <<schedVars, connVars>>

Init ==
    /\ SchedulerInit
    /\ phase = [c \in Connections |-> "open"]
    /\ suspended = [c \in Connections |-> 0]
    /\ script = [c \in Connections |-> <<>>]
    /\ manager = "alive"
    /\ spent = [operations |-> 0, events |-> 0]

CountOperation ==
    spent.operations < MaxOperations /\ spent' = [spent EXCEPT !.operations = @ + 1]
CountEvent == spent.events < MaxEvents /\ spent' = [spent EXCEPT !.events = @ + 1]

-------------------------------------------------------------------------------
(***************************************************************************)
(* Requests.  A client asks while the connection is known, until the Closed*)
(* event has been handled.  When a suspension cancels its request, the     *)
(* request is made again; the manager's own tasks are not.                 *)
(***************************************************************************)
ClientRequests == {r \in Requests : r.kind \in {"Nodes", "Content"}}

Known(r) == r.conn \notin {c \in Connections : phase[c] = "closed"}

Issue(r) ==
    /\ manager = "alive" /\ Known(r)
    /\ Schedule(<<r, 1>>)
    /\ UNCHANGED connVars

Reissue(r, n) ==
    /\ manager = "alive" /\ phase[r.conn] = "open"
    /\ promise[<<r, n>>] = "restart"
    /\ Schedule(<<r, n + 1>>)
    /\ UNCHANGED connVars

AbortRequest(r, n) ==
    /\ CountEvent
    /\ Abort(<<r, n>>)
    /\ UNCHANGED <<phase, suspended, script, manager>>

Lock(l) ==
    /\ CountEvent /\ manager = "alive"
    /\ LockLevel(l)
    /\ UNCHANGED <<phase, suspended, script, manager>>

Unlock(l) == UnlockLevel(l) /\ UNCHANGED connVars

Scheduling ==
    /\ CheckTasks \/ \E t \in running : Finish(t)
    /\ UNCHANGED connVars

-------------------------------------------------------------------------------
(***************************************************************************)
(* Schema operations.  The thread of the connection is Idle when it is in  *)
(* none and waits for no task.                                             *)
(***************************************************************************)
Idle(c) == script[c] = <<>> /\ awaited[c] = {}

OnBeforeSchemaChanges(c) ==
    /\ suspended' = [suspended EXCEPT ![c] = @ + 1]
    /\ IF suspended[c] > 0 THEN UNCHANGED schedVars
       ELSE BlockInterruptTasks(c, "Suspended", "restart")

OnAfterSchemaChanges(c) ==
    /\ suspended' = [suspended EXCEPT ![c] = @ - 1]
    /\ IF suspended'[c] > 0 THEN UNCHANGED schedVars ELSE Unblock(c, "Suspended")

BeginOperation(c, op) ==
    /\ manager = "alive" /\ phase[c] = "open" /\ Idle(c)
    /\ CountOperation
    /\ OnBeforeSchemaChanges(c)
    /\ script' = [script EXCEPT ![c] = Tail(EventsOf[op])]
    /\ UNCHANGED <<phase, manager>>

SchemaEvent(c) ==
    /\ script[c] # <<>> /\ awaited[c] = {}
    /\ IF Head(script[c]) = "before" THEN OnBeforeSchemaChanges(c) ELSE OnAfterSchemaChanges(c)
    /\ script' = [script EXCEPT ![c] = Tail(@)]
    /\ UNCHANGED <<phase, manager, spent>>

-------------------------------------------------------------------------------
(***************************************************************************)
(* Closing: the owner of an iModel closes it, or the manager closes every  *)
(* connection before it is destroyed.                                      *)
(***************************************************************************)
OnConnectionClosed(c) ==
    /\ phase[c] = "open" /\ Idle(c)
    /\ phase' = [phase EXCEPT ![c] = "closing"]
    /\ BlockInterruptTasks(c, "Closed", "cancelled")

BeginClose(c) ==
    /\ CountEvent /\ manager = "alive"
    /\ OnConnectionClosed(c)
    /\ UNCHANGED <<suspended, script, manager>>

(* Fault: the blocker is not removed.                                      *)
FaultyEndClose(c) ==
    /\ phase[c] = "closing" /\ awaited[c] = {}
    /\ phase' = [phase EXCEPT ![c] = "closed"]
    /\ UNCHANGED <<schedVars, suspended, script, manager, spent>>

EndClose(c) ==
    /\ phase[c] = "closing" /\ awaited[c] = {}
    /\ Unblock(c, "Closed")
    /\ phase' = [phase EXCEPT ![c] = "closed"]
    /\ UNCHANGED <<suspended, script, manager, spent>>

(* The manager is destroyed by the thread of its owner, which is in no     *)
(* schema operation and closes nothing then.                               *)
BeginDestruction ==
    /\ manager = "alive"
    /\ \A c \in Connections : Idle(c) /\ phase[c] # "closing"
    /\ manager' = "closing"
    /\ UNCHANGED <<schedVars, phase, suspended, script, spent>>

CloseConnections ==
    /\ manager = "closing" /\ \A c \in Connections : phase[c] # "closing"
    /\ \E c \in Connections : OnConnectionClosed(c)
    /\ UNCHANGED <<suspended, script, manager, spent>>

(* ~ECPresentationTasksManager                                             *)
CancelAll ==
    /\ manager = "closing" /\ \A c \in Connections : phase[c] = "closed"
    /\ MutexFree
    /\ Cancel(Manager, Held, "cancelled")
    /\ manager' = "cancelled"
    /\ UNCHANGED <<running, blockers, check, locked, phase, suspended, script, spent>>

(* GetAllTasksCompletion leaves out the pending list.                      *)
AwaitAll ==
    /\ manager = "cancelled" /\ awaited[Manager] = {}
    /\ MutexFree
    /\ awaited' = [awaited EXCEPT ![Manager] = running \cup Range(queue)]
    /\ manager' = "draining"
    /\ UNCHANGED <<queue, pending, running, promise, blockers, check, locked,
                   phase, suspended, script, spent>>

Delete ==
    /\ manager = "draining" /\ awaited[Manager] = {}
    /\ manager' = "deleted"
    /\ UNCHANGED <<schedVars, phase, suspended, script, spent>>

Destruction == CloseConnections \/ CancelAll \/ AwaitAll \/ Delete

-------------------------------------------------------------------------------
Next ==
    \/ \E r \in Requests : Issue(r)
    \/ \E r \in ClientRequests, n \in 1..(Attempts - 1) : Reissue(r, n)
    \/ \E r \in ClientRequests, n \in 1..Attempts : AbortRequest(r, n)
    \/ \E l \in Levels : Lock(l) \/ Unlock(l)
    \/ Scheduling
    \/ \E c \in Connections :
          \/ \E op \in Operations : BeginOperation(c, op)
          \/ SchemaEvent(c)
          \/ BeginClose(c)
          \/ EndClose(c)
    \/ BeginDestruction
    \/ Destruction

(***************************************************************************)
(* Threads that have the mutex go on, threads that want it get it, tasks   *)
(* end, locks of levels expire, and schema operations go on.  Nothing says *)
(* that a client asks, gives up, begins an operation or closes.            *)
(***************************************************************************)
Fairness ==
    /\ WF_vars(Scheduling)
    /\ WF_vars(\E r \in ClientRequests, n \in 1..(Attempts - 1) : Reissue(r, n))
    /\ WF_vars(\E l \in Levels : Unlock(l))
    /\ WF_vars(\E c \in Connections : SchemaEvent(c) \/ EndClose(c))
    /\ WF_vars(Destruction)

SafetySpec == Init /\ [][Next]_vars
Spec == SafetySpec /\ Fairness

-------------------------------------------------------------------------------
(* The type invariant of the connections.                                  *)
ConnectionsTypeOK ==
    /\ phase \in [Connections -> {"open", "closing", "closed"}]
    /\ suspended \in [Connections -> Nat]
    /\ script \in [Connections -> Seq({"before", "after"})]
    /\ manager \in {"alive", "closing", "cancelled", "draining", "deleted"}
    /\ spent \in [operations : 0..MaxOperations, events : 0..MaxEvents]

PresentationTypeOK == SchedulerTypeOK /\ ConnectionsTypeOK

(***************************************************************************)
(* When the scheduler is deleted nobody uses it any more: no task is in it,*)
(* none runs, none is being checked, and no blocker is left to call it     *)
(* (~ECPresentationTasksManager, ~ECPresentationTasksBlocker).             *)
(***************************************************************************)
DeletedAtRest ==
    manager = "deleted" =>
        /\ queue = <<>> /\ pending = <<>> /\ running = {}
        /\ ~check.on /\ blockers = {}

(***************************************************************************)
(* A client's request is answered: it gets a result, is given up, or is    *)
(* cancelled because its iModel is closed, whatever suspends it meanwhile. *)
(***************************************************************************)
Answered(r) ==
    \E n \in 1..Attempts :
        \/ promise[<<r, n>>] \in {"resolved", "cancelled"}
        \/ promise[<<r, n>>] = "restart" /\ phase[r.conn] # "open"

RequestsAnswered ==
    \A r \in ClientRequests : promise[<<r, 1>>] # "none" ~> Answered(r)

(* Who closes an iModel or destroys the manager gets to the end of it.     *)
ClosingEnds ==
    /\ \A c \in Connections : phase[c] = "closing" ~> phase[c] = "closed"
    /\ manager = "closing" ~> manager = "deleted"
===============================================================================
