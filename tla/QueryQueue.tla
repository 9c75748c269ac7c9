------------------------------ MODULE QueryQueue ------------------------------
(***************************************************************************)
(* Concurrent ECSql queries over one open file: clients enqueue requests,  *)
(* executor threads run each on a read-only connection of its own, a       *)
(* monitor thread answers those that waited too long and stops an idle     *)
(* manager, and whoever drops the last reference to the manager destroys   *)
(* it, joining all its threads.                                            *)
(*                                                                         *)
(* An action is what one thread does between two points where another may *)
(* come in: a critical section of RunnableRequestQueue::m_mutex, or a read *)
(* of m_state or of the queue's size, which are made without that lock.    *)
(* The steps of a request's caller are in req[r].pc, those of the thread   *)
(* that destroys the manager in manager.                                   *)
(***************************************************************************)
EXTENDS Naturals, FiniteSets, Sequences, SequencesExt, Subsequences

CONSTANTS
    Requests,       (* the requests clients may enqueue                      *)
    Executors,      (* the worker threads; the pool has a connection for each *)
    Priorities,     (* the priorities of requests                            *)
    Tokens,         (* restart tokens                                        *)
    NoToken,        (* the empty restart token                               *)
    NoRequest,      (* no request                                            *)
    Delays,         (* {FALSE} if delays are ignored, which is the default   *)
    MaxQueueSize,   (* m_maxQueueSize                                        *)
    MaxCallers,     (* how many threads call Enqueue at the same time        *)
    AutoShutdown,   (* whether m_shutdownWhenIdleFor is set                  *)
    Mishaps         (* which of MishapKinds may happen                       *)

MishapKinds == {
    "LateInsert",        (* an idle manager stops while a caller has been       *)
                         (* admitted and has not inserted its request           *)
    "LateAtStop",        (* a request answered by Stop has exceeded its time    *)
    "CancelAfterStop",   (* a client cancels a request Stop has answered        *)
    "OpenFails"}         (* a connection of the pool cannot be opened           *)

ASSUME QueryQueueAssumption ==
    /\ Priorities \subseteq Nat /\ Priorities # {} /\ Delays \subseteq BOOLEAN
    /\ MaxQueueSize \in Nat \ {0} /\ MaxCallers \in Nat \ {0}
    /\ AutoShutdown \in BOOLEAN /\ Mishaps \subseteq MishapKinds
    /\ IsFiniteSet(Executors) /\ Executors # {}
    /\ NoToken \notin Tokens /\ NoRequest \notin Requests

VARIABLES
    req,           (* each request and how far its caller has got in Enqueue *)
    requests,      (* m_requests: taken from the end                         *)
    state,         (* m_state                                                *)
    lastDelayed,   (* m_lastDelayedQueryId                                   *)
    exec,          (* each executor thread and the request it holds          *)
    pool,          (* m_conns: connections opened, and null ones             *)
    monitor,       (* what the monitor thread does next                      *)
    manager,       (* the life of the ConcurrentQueryMgr                     *)
    thrown         (* the thread that met "already responded"                *)

vars == <<req, requests, state, lastDelayed, exec, pool, monitor, manager, thrown>>

Answers == {"None", "QueueFull", "ShuttingDown", "Cancel", "Timeout", "Result", "Exception"}
Inside == {"Counted", "Admitted", "Inserted"}    (* a caller within Enqueue  *)

(* The type invariant.                                                     *)
QueueTypeOK ==
    /\ req \in [Requests ->
                  [pc : {"New", "Submitted"} \cup Inside, priority : Priorities,
                   token : Tokens \cup {NoToken}, delayed : BOOLEAN, late : BOOLEAN,
                   cancelled : BOOLEAN, answer : Answers]]
    /\ requests \in Seq(Requests)
    /\ state \in {"Running", "Stop"}
    /\ lastDelayed \in Requests \cup {NoRequest}
    /\ exec \in [Executors -> [pc : {"Loop", "Blocked", "Taken", "Running", "Exited"},
                               req : Requests \cup {NoRequest}]]
    /\ pool \in [open : Nat, lost : Nat]
    /\ monitor \in {"Scan", "Check", "Sleep", "Exited"}
    /\ manager \in {"Live", "Dropped", "Stopping", "Stopped", "Joining", "Gone"}
    /\ thrown \in {"Nobody", "Client", "Monitor"}

(* What is not known of a request before it is made or after it is gone.   *)
Blank == [pc |-> "New", priority |-> CHOOSE p \in Priorities : TRUE, token |-> NoToken,
          delayed |-> FALSE, late |-> FALSE, cancelled |-> FALSE, answer |-> "None"]

Init ==
    /\ req = [r \in Requests |-> Blank]
    /\ requests = <<>> /\ state = "Running" /\ lastDelayed = NoRequest
    /\ exec = [e \in Executors |-> [pc |-> "Loop", req |-> NoRequest]]
    /\ pool = [open |-> 0, lost |-> 0]
    /\ monitor = "Scan" /\ manager = "Live" /\ thrown = "Nobody"

Waiting == ToSet(requests)
Open(r) == req[r].answer = "None"
Callers == {r \in Requests : req[r].pc \in Inside}
Blocked == {e \in Executors : exec[e].pc = "Blocked"}
Running == {e \in Executors : exec[e].pc = "Running"}

(* Stop has gone through the queue.                                        *)
Stopped == state = "Stop" /\ manager # "Stopping"

(* SetResponse on all requests of a set, and the same when they are then   *)
(* destroyed.                                                              *)
SetResponse(rs, answer) ==
    [r \in Requests |-> IF r \in rs THEN [req[r] EXCEPT !.answer = answer] ELSE req[r]]
FaultyAnswered(answer, pc) == [Blank EXCEPT !.answer = pc, !.pc = answer]  (* Fault *)
Answered(answer, pc) == [Blank EXCEPT !.answer = answer, !.pc = pc]
Finish(rs, answer) ==
    [r \in Requests |-> IF r \in rs THEN Answered(answer, req[r].pc) ELSE req[r]]

(* What notify_all does to the threads in WaitForDequeue.                  *)
NotifyAll == exec' = [e \in Executors |-> IF e \in Blocked THEN [exec[e] EXCEPT !.pc = "Loop"]
                                                           ELSE exec[e]]

-------------------------------------------------------------------------------
(***************************************************************************)
(* Enqueue, on the thread of its caller.  WithInstance has given the       *)
(* caller a reference to the manager, which it keeps until Enqueue ends.   *)
(*                                                                         *)
(* The size of the queue is read without its lock.  While another caller   *)
(* is inserting, the begin and end of the vector may be read from before   *)
(* and after it grew: their distance is then no smaller than the size.     *)
(***************************************************************************)
FaultySeemsFull(r) == {Len(requests) > MaxQueueSize}     (* Fault: off by one *)

SeemsFull(r) ==
    {Len(requests) >= MaxQueueSize}
      \cup (IF \E q \in Requests \ {r} : req[q].pc = "Admitted" THEN {TRUE} ELSE {})

CountQueue(r) ==
    /\ req[r].pc = "New" /\ manager = "Live" /\ Cardinality(Callers) < MaxCallers
    /\ \E p \in Priorities, t \in Tokens \cup {NoToken}, d \in Delays, full \in SeemsFull(r) :
          req' = [req EXCEPT ![r] =
                    IF full THEN Answered("QueueFull", "Submitted")
                    ELSE [Blank EXCEPT !.pc = "Counted", !.priority = p,
                                       !.token = t, !.delayed = d]]
    /\ UNCHANGED <<requests, state, lastDelayed, exec, pool, monitor, manager, thrown>>

RejectStopped(r) ==
    /\ req[r].pc = "Counted" /\ state = "Stop"
    /\ req' = [req EXCEPT ![r] = Answered("ShuttingDown", "Submitted")]
    /\ UNCHANGED <<requests, state, lastDelayed, exec, pool, monitor, manager, thrown>>

Admit(r) ==
    /\ req[r].pc = "Counted" /\ state # "Stop"
    /\ req' = [req EXCEPT ![r].pc = "Admitted"]
    /\ UNCHANGED <<requests, state, lastDelayed, exec, pool, monitor, manager, thrown>>

(* What QueryHelper::Execute may answer: rows, all or some, or an error    *)
(* are a result, and an error may come before a cancellation is seen.  The *)
(* time limit may be over at any moment.                                   *)
Outcomes(r) ==
    {"Result", "Timeout"}
      \cup (IF req[r].cancelled THEN {"Cancel"} ELSE {})
      \cup (IF state = "Stop" THEN {"ShuttingDown"} ELSE {})

(* A request for the primary connection runs on the thread of its caller.  *)
ExecuteSynchronously(r) ==
    /\ req[r].pc = "Counted" /\ state # "Stop"
    /\ \E answer \in Outcomes(r) :
          req' = [req EXCEPT ![r] = Answered(answer, "Submitted")]
    /\ UNCHANGED <<requests, state, lastDelayed, exec, pool, monitor, manager, thrown>>

FaultySorted(r, queue) == Append(queue, r)          (* Fault: no priorities *)

(* Before the first request of a higher priority, else at the end.         *)
Sorted(r, queue) ==
    LET higher == SelectInSeq(queue, LAMBDA q : req[q].priority > req[r].priority)
    IN  IF higher = 0 THEN Append(queue, r) ELSE InsertAt(queue, higher, r)

SameToken(r, q) == req[q].token = req[r].token /\ req[r].token # NoToken

(***************************************************************************)
(* The requests with the token of a new one are cancelled: those that wait *)
(* are answered and removed, those that run are interrupted.  A request    *)
(* Stop has answered ends this, and the insertion, with an exception.      *)
(***************************************************************************)
FirstAnswered(r) == SelectInSeq(requests, LAMBDA q : SameToken(r, q) /\ ~Open(q))

FaultyReplacedBy(r) == {}                  (* Fault: they stay in the queue. *)

ReplacedBy(r) ==
    {requests[i] : i \in {i \in DOMAIN requests :
        SameToken(r, requests[i]) /\ (FirstAnswered(r) = 0 \/ i < FirstAnswered(r))}}

InterruptedBy(r) == {exec[e].req : e \in {e \in Running : SameToken(r, exec[e].req)}}

InsertSorted(r) ==
    LET throws == FirstAnswered(r) # 0
        kept == Without(requests, ReplacedBy(r))
    IN  /\ req[r].pc = "Admitted"
        /\ requests' = IF throws THEN kept ELSE Sorted(r, kept)
        /\ thrown' = IF throws THEN "Client" ELSE thrown
        /\ req' = [q \in Requests |->
              CASE q = r -> IF throws THEN Answered("Exception", "Submitted")
                            ELSE [req[q] EXCEPT !.pc = "Inserted"]
                [] q \in ReplacedBy(r) -> Answered("Cancel", req[q].pc)
                [] q \in InterruptedBy(r) /\ ~throws -> [req[q] EXCEPT !.cancelled = TRUE]
                [] OTHER -> req[q]]
        /\ UNCHANGED <<state, lastDelayed, exec, pool, monitor, manager>>

(* Fault: nobody is woken.                                                 *)
FaultyNotifyOne(r) ==
    /\ req[r].pc = "Inserted"
    /\ req' = [req EXCEPT ![r].pc = "Submitted"]
    /\ UNCHANGED <<requests, state, lastDelayed, exec, pool, monitor, manager, thrown>>

NotifyOne(r) ==
    /\ req[r].pc = "Inserted"
    /\ req' = [req EXCEPT ![r].pc = "Submitted"]
    /\ \/ /\ Blocked = {}
          /\ UNCHANGED exec
       \/ \E e \in Blocked : exec' = [exec EXCEPT ![e].pc = "Loop"]
    /\ UNCHANGED <<requests, state, lastDelayed, pool, monitor, manager, thrown>>

(***************************************************************************)
(* Future::Cancel, by a client that was given the future of its request.   *)
(***************************************************************************)
CancelRequest(r) ==
    /\ req[r].pc = "Submitted" /\ r \in Waiting
    /\ Open(r) \/ "CancelAfterStop" \in Mishaps
    /\ thrown' = IF Open(r) THEN thrown ELSE "Client"
    /\ req' = IF Open(r) THEN Finish({r}, "Cancel") ELSE req
    /\ requests' = IF Open(r) THEN Without(requests, {r}) ELSE requests
    /\ UNCHANGED <<state, lastDelayed, exec, pool, monitor, manager>>

-------------------------------------------------------------------------------
(***************************************************************************)
(* Time: a delay ends, a request that waits exceeds its time limit.  What  *)
(* executors hold is out of the monitor's sight.                           *)
(***************************************************************************)
DelayEnds(r) ==
    /\ r \in Waiting /\ req[r].delayed
    /\ req' = [req EXCEPT ![r].delayed = FALSE]
    /\ UNCHANGED <<requests, state, lastDelayed, exec, pool, monitor, manager, thrown>>

TimeExceeded(r) ==
    /\ r \in Waiting /\ ~req[r].late /\ (Open(r) \/ "LateAtStop" \in Mishaps)
    /\ req' = [req EXCEPT ![r].late = TRUE]
    /\ UNCHANGED <<requests, state, lastDelayed, exec, pool, monitor, manager, thrown>>

-------------------------------------------------------------------------------
(***************************************************************************)
(* An executor thread: WaitForDequeue with Dequeue, GetConnection, and the *)
(* query itself.                                                           *)
(***************************************************************************)
WaitInQueue(e) ==
    /\ exec[e].pc = "Loop" /\ requests = <<>> /\ state = "Running"
    /\ exec' = [exec EXCEPT ![e].pc = "Blocked"]
    /\ UNCHANGED <<req, requests, state, lastDelayed, pool, monitor, manager, thrown>>

Exit(e) ==
    /\ exec[e].pc = "Loop" /\ state = "Stop"
    /\ exec' = [exec EXCEPT ![e].pc = "Exited"]
    /\ UNCHANGED <<req, requests, state, lastDelayed, pool, monitor, manager, thrown>>

(* A request whose delay has not passed goes back behind the next one, or  *)
(* to the end when only one is left.                                       *)
FaultyPutBack(r, rest) == rest                      (* Fault: it does not *)

PutBack(r, rest) ==
    IF Len(rest) > 1 THEN InsertAt(rest, Len(rest), r) ELSE Append(rest, r)

Dequeue(e) ==
    LET r == Last(requests)
    IN  /\ exec[e].pc = "Loop" /\ requests # <<>> /\ state = "Running"
        /\ \/ /\ ~req[r].delayed
              /\ requests' = Front(requests)
              /\ exec' = [exec EXCEPT ![e] = [pc |-> "Taken", req |-> r]]
              /\ req' = [req EXCEPT ![r].late = FALSE]
              /\ UNCHANGED lastDelayed
           \/ /\ req[r].delayed
              /\ requests' = PutBack(r, Front(requests))
              /\ lastDelayed' = r
              /\ UNCHANGED <<req, exec>>
        /\ UNCHANGED <<state, pool, monitor, manager, thrown>>

(* A free connection, or a new one while the pool has room.                *)
PoolHasRoom == pool.open + pool.lost < Cardinality(Executors)

GetConnection(e) ==
    /\ exec[e].pc = "Taken"
    /\ exec' = [exec EXCEPT ![e].pc = "Running"]
    /\ \/ /\ Cardinality(Running) < pool.open
          /\ UNCHANGED pool
       \/ /\ Cardinality(Running) = pool.open /\ PoolHasRoom
          /\ pool' = [pool EXCEPT !.open = @ + 1]
    /\ UNCHANGED <<req, requests, state, lastDelayed, monitor, manager, thrown>>

(* The null pointer takes a place in the pool; the thread tries again.     *)
OpenFails(e) ==
    /\ exec[e].pc = "Taken" /\ "OpenFails" \in Mishaps
    /\ Cardinality(Running) = pool.open /\ PoolHasRoom
    /\ pool' = [pool EXCEPT !.lost = @ + 1]
    /\ UNCHANGED <<req, requests, state, lastDelayed, exec, monitor, manager, thrown>>

Execute(e) ==
    /\ exec[e].pc = "Running"
    /\ \E answer \in Outcomes(exec[e].req) : req' = Finish({exec[e].req}, answer)
    /\ exec' = [exec EXCEPT ![e] = [pc |-> "Loop", req |-> NoRequest]]
    /\ UNCHANGED <<requests, state, lastDelayed, pool, monitor, manager, thrown>>

-------------------------------------------------------------------------------
(***************************************************************************)
(* The monitor thread.                                                     *)
(***************************************************************************)
TimedOut == {r \in Waiting : req[r].late}

ScanThrows == \E r \in TimedOut : ~Open(r)

(* Fault: those answered stay in the queue.                                *)
FaultyRemoveTimedOut ==
    /\ monitor = "Scan"
    /\ req' = SetResponse(TimedOut, "Timeout")
    /\ thrown' = IF ScanThrows THEN "Monitor" ELSE thrown
    /\ monitor' = "Check"
    /\ UNCHANGED <<requests, state, lastDelayed, exec, pool, manager>>

(* When SetResponse throws, the exception leaves the thread and the process *)
(* ends.                                                                   *)
RemoveTimedOut ==
    /\ monitor = "Scan"
    /\ thrown' = IF ScanThrows THEN "Monitor" ELSE thrown
    /\ req' = IF ScanThrows THEN req ELSE Finish(TimedOut, "Timeout")
    /\ requests' = IF ScanThrows THEN requests ELSE Without(requests, TimedOut)
    /\ monitor' = "Check"
    /\ UNCHANGED <<state, lastDelayed, exec, pool, manager>>

StayUp ==
    /\ monitor = "Check"
    /\ monitor' = "Sleep"
    /\ UNCHANGED <<req, requests, state, lastDelayed, exec, pool, manager, thrown>>

(* IfReadyForAutoShutdown, with Stop inside the lock it holds; a detached  *)
(* thread then calls Shutdown.                                             *)
ShutdownWhenIdle ==
    /\ monitor = "Check" /\ AutoShutdown /\ requests = <<>> /\ state = "Running"
    /\ (\E r \in Requests : req[r].pc = "Admitted") => "LateInsert" \in Mishaps
    /\ state' = "Stop" /\ NotifyAll
    /\ monitor' = "Sleep"
    /\ UNCHANGED <<req, requests, lastDelayed, pool, manager, thrown>>

WakeMonitor ==
    /\ monitor = "Sleep"
    /\ monitor' = IF manager = "Stopped" THEN "Exited" ELSE "Scan"
    /\ UNCHANGED <<req, requests, state, lastDelayed, exec, pool, manager, thrown>>

-------------------------------------------------------------------------------
(***************************************************************************)
(* Shutdown and destruction.  Dropping the app data lets no new caller in; *)
(* the manager is destroyed by whoever held it last.                       *)
(***************************************************************************)
Shutdown ==
    /\ manager = "Live"
    /\ manager' = "Dropped"
    /\ UNCHANGED <<req, requests, state, lastDelayed, exec, pool, monitor, thrown>>

(* The manager stopped itself, and the detached thread comes to run.       *)
DetachedShutdown == state = "Stop" /\ Shutdown

(* Fault: a caller's reference to the manager does not count.              *)
FaultyBeginStop ==
    /\ manager = "Dropped"
    /\ state' = "Stop"
    /\ manager' = IF state = "Stop" THEN "Stopped" ELSE "Stopping"
    /\ UNCHANGED <<req, requests, lastDelayed, exec, pool, monitor, thrown>>

(* The last reference is gone: ~Impl calls Stop, which first sets the state. *)
BeginStop ==
    /\ manager = "Dropped" /\ Callers = {}
    /\ state' = "Stop"
    /\ manager' = IF state = "Stop" THEN "Stopped" ELSE "Stopping"
    /\ UNCHANGED <<req, requests, lastDelayed, exec, pool, monitor, thrown>>

(* Fault: the threads in WaitForDequeue are not woken.                     *)
FaultyStopRequests ==
    /\ manager = "Stopping"
    /\ req' = SetResponse(Waiting, "ShuttingDown")
    /\ manager' = "Stopped"
    /\ UNCHANGED <<requests, state, lastDelayed, exec, pool, monitor, thrown>>

(* The requests are answered and stay in the queue.                        *)
StopRequests ==
    /\ manager = "Stopping"
    /\ TimedOut # {} => "LateAtStop" \in Mishaps
    /\ req' = SetResponse(Waiting, "ShuttingDown")
    /\ NotifyAll
    /\ manager' = "Stopped"
    /\ UNCHANGED <<requests, state, lastDelayed, pool, monitor, thrown>>

JoinMonitor ==
    /\ manager = "Stopped" /\ monitor = "Exited"
    /\ manager' = "Joining"
    /\ UNCHANGED <<req, requests, state, lastDelayed, exec, pool, monitor, thrown>>

JoinExecutors ==
    /\ manager = "Joining" /\ \A e \in Executors : exec[e].pc = "Exited"
    /\ manager' = "Gone" /\ requests' = <<>>
    /\ UNCHANGED <<req, state, lastDelayed, exec, pool, monitor, thrown>>

Ended == manager = "Gone" /\ UNCHANGED vars

-------------------------------------------------------------------------------
Caller(r) ==
    \/ RejectStopped(r) \/ Admit(r) \/ ExecuteSynchronously(r)
    \/ InsertSorted(r) \/ NotifyOne(r)

Executor(e) ==
    \/ WaitInQueue(e) \/ Exit(e) \/ Dequeue(e)
    \/ GetConnection(e) \/ OpenFails(e) \/ Execute(e)

Monitor == RemoveTimedOut \/ StayUp \/ ShutdownWhenIdle \/ WakeMonitor
Destroy == BeginStop \/ StopRequests \/ JoinMonitor \/ JoinExecutors

Next ==
    /\ thrown # "Monitor"
    /\ \/ \E r \in Requests : CountQueue(r) \/ Caller(r) \/ CancelRequest(r)
       \/ \E r \in Requests : DelayEnds(r) \/ TimeExceeded(r)
       \/ \E e \in Executors : Executor(e)
       \/ Monitor \/ Shutdown \/ Destroy \/ Ended

(***************************************************************************)
(* Threads run, and the mutex does not pass one over for ever; a delay     *)
(* ends; a query ends, because its progress handler interrupts it when its *)
(* time is over.  Clients need not enqueue, cancel or shut down.           *)
(***************************************************************************)
Fairness ==
    /\ \A r \in Requests : WF_vars(Caller(r)) /\ WF_vars(DelayEnds(r))
    /\ \A e \in Executors : WF_vars(Executor(e))
    /\ WF_vars(Monitor) /\ WF_vars(DetachedShutdown) /\ WF_vars(Destroy)

SafetySpec == Init /\ [][Next]_vars
Spec == SafetySpec /\ Fairness

-------------------------------------------------------------------------------
(***************************************************************************)
(* A request is answered once: no thread meets the exception of            *)
(* SetResponse, which leaves a caller without its answer or ends the       *)
(* process (RunnableRequestBase::SetResponse).                             *)
(***************************************************************************)
AnsweredOnce == thrown = "Nobody"

(* The unlocked check lets the queue exceed its limit, but by no more than *)
(* the callers that are within Enqueue at the same time.                   *)
QueueBounded == Len(requests) + Cardinality({r \in Requests : req[r].pc = "Admitted"})
                    <= MaxQueueSize + MaxCallers - 1

(* A request without an answer is in exactly one place from its insertion  *)
(* on: once in the queue, or with one executor.  An answered one stays in  *)
(* the queue only after Stop.                                              *)
HeldInOnePlace ==
    \A r \in Requests :
        LET places == {i \in DOMAIN requests : requests[i] = r}
                        \cup {e \in Executors : exec[e].req = r}
        IN  /\ req[r].pc \in {"Inserted", "Submitted"} /\ Open(r) => Cardinality(places) = 1
            /\ ~Open(r) /\ ~Stopped => places = {}

(* Of the requests with one restart token at most one waits: a newer one   *)
(* takes the place of the older (InsertSorted).                            *)
OneWaitsPerToken ==
    \A q, r \in Waiting : SameToken(q, r) => q = r

(* No wake-up is lost: while requests wait some thread is awake, or the    *)
(* caller who inserted one is about to notify.                             *)
NoLostWakeup ==
    requests # <<>> /\ state = "Running" =>
        Blocked # Executors \/ \E r \in Requests : req[r].pc = "Inserted"

(* As long as no delay has put a request back, an executor takes one of    *)
(* the highest priority that waits (Dequeue, InsertSorted).                *)
HighestFirst ==
    [][\A e \in Executors :
          exec[e].pc = "Loop" /\ exec'[e].pc = "Taken" /\ lastDelayed = NoRequest =>
              \A q \in Waiting : req[q].priority <= req[exec'[e].req].priority]_vars

(* Every request a client has enqueued is answered.                        *)
EveryRequestAnswered ==
    \A r \in Requests : req[r].pc # "New" ~> ~Open(r)

(* A manager that is dropped is destroyed, with all its threads.           *)
ShutdownEnds == manager = "Dropped" ~> manager = "Gone"
===============================================================================
