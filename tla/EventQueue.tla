----------------------------- MODULE EventQueue ------------------------------
(***************************************************************************)
(* The events queue of the virtual desktop controller and the threads that *)
(* serve it.                                                                *)
(*                                                                          *)
(*   EventsHandlerThread        receive, handle, delete, in an endless loop *)
(*   EventsQueueMonitoringService, IdeaThreadpoolService                    *)
(*                              twice a minute, adjust the number of        *)
(*                              threads to the length of the queue          *)
(*   SQS (external)             a FIFO queue with message groups, a         *)
(*                              visibility timeout and a dead letter queue  *)
(*                                                                          *)
(* A thread receives one message per call (provision_new_thread), so the   *)
(* rest of a batch is not modelled.  What a handler does is                 *)
(* VirtualDesktopSession's subject; here it succeeds, fails or rejects.    *)
(***************************************************************************)
EXTENDS Naturals, Sequences, FiniteSets, SequencesExt

CONSTANTS
    Messages,               \* the events that may be published, each once
    Groups,                 \* message groups
    GroupOf,                \* [Messages -> Groups]
    KindsOf,                \* [Messages -> SUBSET Kinds], what a message may be
    Threads,                \* thread identities
    NoThread,
    MinThreads, MaxThreads, \* request_handler_threads.min and .max
    MessageCountPerThread,  \* MESSAGE_COUNT_PER_THREAD, 3 in the code
    MaxReceiveCount,        \* 60 in the deployed queue
    MaxPublished,           \* bound: messages published
    MaxFaults,              \* bound: crashes, and timeouts of busy threads
    MaxStops                \* bound: orderly stops of the controller

(* What a message turns out to be: an event, an event from a sender its      *)
(* handler does not accept, a message with a bad checksum or without a known *)
(* type, and one that is no event at all.                                    *)
Kinds == {"event", "untrusted", "unknown", "garbled"}

ASSUME QueueParameters ==
    /\ GroupOf \in [Messages -> Groups]
    /\ KindsOf \in [Messages -> SUBSET Kinds]
    /\ IsFiniteSet(Threads) /\ NoThread \notin Threads
    /\ MinThreads \in Nat \ {0} /\ MaxThreads \in Nat
    /\ MinThreads <= MaxThreads /\ MaxThreads <= Cardinality(Threads)
    /\ MessageCountPerThread \in Nat \ {0}
    /\ MaxReceiveCount \in Nat \ {0}
    /\ {MaxPublished, MaxFaults, MaxStops} \subseteq Nat

VARIABLES
    kind,       \* what the published messages are
    queue,      \* per group, the messages SQS keeps, oldest first
    holder,     \* per group, the thread whose receipt for the head is valid
    receives,   \* how often a message was received
    published,  \* history: per group, everything that was sent
    outcome,    \* history: what became of a message
    succeeded,  \* history: successful handler runs per message, capped at 2
    thread,     \* what a thread is doing, and the message it is doing it with
    exit,       \* the threads whose exit event is set
    all,        \* _all_threads
    active,     \* _active_threads
    service,    \* the pool's service thread and stop()
    toStop,     \* stop(): the threads it has not yet told to exit
    faults, stops

sqs  == <<kind, queue, holder, receives, published, outcome>>
pool == <<exit, all, active, service, toStop>>
vars == <<sqs, succeeded, thread, pool, faults, stops>>

Dead == [at |-> "dead"]
Head1(g) == queue[g][1]
Alive(t) == thread[t] # Dead
Busy == {"handling", "deleting"}
Occupied(t, g) == thread[t].at \in Busy /\ GroupOf[thread[t].msg] = g

Init ==
    /\ kind = [m \in Messages |-> "none"]
    /\ queue = [g \in Groups |-> <<>>]
    /\ holder = [g \in Groups |-> NoThread]
    /\ receives = [m \in Messages |-> 0]
    /\ published = [g \in Groups |-> <<>>]
    /\ outcome = [m \in Messages |-> "unsent"]
    /\ succeeded = [m \in Messages |-> 0]
    /\ thread = [t \in Threads |-> Dead]
    /\ exit = {}
    /\ all = {}
    /\ active = <<>>
    /\ service = "starting"
    /\ toStop = {}
    /\ faults = 0
    /\ stops = 0

-----------------------------------------------------------------------------
(* SQS.                                                                     *)

Publish(m) ==
    /\ outcome[m] = "unsent"
    /\ Cardinality({n \in Messages : outcome[n] # "unsent"}) < MaxPublished
    /\ \E k \in KindsOf[m] : kind' = [kind EXCEPT ![m] = k]
    /\ outcome' = [outcome EXCEPT ![m] = "pending"]
    /\ queue' = [queue EXCEPT ![GroupOf[m]] = Append(@, m)]
    /\ published' = [published EXCEPT ![GroupOf[m]] = Append(@, m)]
    /\ UNCHANGED <<holder, receives, succeeded, thread, pool, faults, stops>>

(* Mutant: the redrive policy is not applied.                               *)
ReceivableAgain(g) == queue[g] # <<>> /\ holder[g] = NoThread

(* A group hands out its oldest message, and nothing while that message is  *)
(* in flight.                                                               *)
Visible(g) == queue[g] # <<>> /\ holder[g] = NoThread
Receivable(g) == Visible(g) /\ receives[Head1(g)] < MaxReceiveCount

(* The visibility timeout ends and the message can be received again: after *)
(* a thread kept it on purpose or died, or while a thread is still at work  *)
(* with it, which is the hazard.                                            *)
Redeliver(g) ==
    /\ holder[g] # NoThread /\ ~Occupied(holder[g], g)
    /\ holder' = [holder EXCEPT ![g] = NoThread]
    /\ UNCHANGED <<kind, queue, receives, published, outcome, succeeded, thread, pool, faults, stops>>

TimeoutWhileBusy(g) ==
    /\ holder[g] # NoThread /\ Occupied(holder[g], g)
    /\ faults < MaxFaults
    /\ faults' = faults + 1
    /\ holder' = [holder EXCEPT ![g] = NoThread]
    /\ UNCHANGED <<kind, queue, receives, published, outcome, succeeded, thread, pool, stops>>

RemoveHead(g, o) ==
    /\ queue' = [queue EXCEPT ![g] = Tail(@)]
    /\ holder' = [holder EXCEPT ![g] = NoThread]
    /\ outcome' = [outcome EXCEPT ![Head1(g)] = o]
    /\ UNCHANGED <<kind, receives, published>>

(* Mutant: the dead letter queue takes only what no handler carried out.    *)
DeadLetterUnhandled(g) ==
    /\ Visible(g)
    /\ receives[Head1(g)] = MaxReceiveCount /\ succeeded[Head1(g)] = 0
    /\ RemoveHead(g, "given_up")
    /\ UNCHANGED <<succeeded, thread, pool, faults, stops>>

DeadLetter(g) ==
    /\ Visible(g)
    /\ receives[Head1(g)] = MaxReceiveCount
    /\ RemoveHead(g, "given_up")
    /\ UNCHANGED <<succeeded, thread, pool, faults, stops>>

-----------------------------------------------------------------------------
(* EventsHandlerThread.                                                     *)

(* Mutant: the exit event is not looked at.                                 *)
NextPollAlways(t) == [at |-> "polling"]

(* _monitor_queue looks at its exit event only between two polls.           *)
NextPoll(t) == IF t \in exit THEN Dead ELSE [at |-> "polling"]

EndPoll(t) == thread' = [thread EXCEPT ![t] = NextPoll(t)]

(* The long poll ended without a message.                                   *)
ReceiveNothing(t) ==
    /\ thread[t].at = "polling"
    /\ \A g \in Groups : ~Receivable(g)
    /\ EndPoll(t)
    /\ UNCHANGED <<sqs, succeeded, pool, faults, stops>>

(* A message with a bad checksum, without a type or with an unknown type is *)
(* deleted without a handler; one that is no event at all makes the poll    *)
(* raise before anything is deleted.                                        *)
Receive(t, g) ==
    /\ thread[t].at = "polling"
    /\ Receivable(g)
    /\ receives' = [receives EXCEPT ![Head1(g)] = @ + 1]
    /\ holder' = [holder EXCEPT ![g] = t]
    /\ thread' = [thread EXCEPT ![t] =
           CASE kind[Head1(g)] \in {"event", "untrusted"} ->
                    [at |-> "handling", msg |-> Head1(g)]
             [] kind[Head1(g)] = "unknown" -> [at |-> "deleting", msg |-> Head1(g)]
             [] kind[Head1(g)] = "garbled" -> NextPoll(t)]
    /\ UNCHANGED <<kind, queue, published, outcome, succeeded, pool, faults, stops>>

(* handle_event returns: the message is to be deleted.                      *)
HandlerReturns(t) ==
    /\ thread[t].at = "handling"
    /\ kind[thread[t].msg] = "event"
    /\ succeeded' = [succeeded EXCEPT ![thread[t].msg] = IF @ < 2 THEN @ + 1 ELSE 2]
    /\ thread' = [thread EXCEPT ![t].at = "deleting"]
    /\ UNCHANGED <<sqs, pool, faults, stops>>

(* MESSAGE_SOURCE_VALIDATION_FAILED: deleted although nothing was done.     *)
HandlerRejects(t) ==
    /\ thread[t].at = "handling"
    /\ kind[thread[t].msg] = "untrusted"
    /\ thread' = [thread EXCEPT ![t].at = "deleting"]
    /\ UNCHANGED <<sqs, succeeded, pool, faults, stops>>

(* Mutant: an exception does not keep the message from being deleted.       *)
HandlerRaisesDelete(t) ==
    /\ thread[t].at = "handling"
    /\ kind[thread[t].msg] = "event"
    /\ thread' = [thread EXCEPT ![t].at = "deleting"]
    /\ UNCHANGED <<sqs, succeeded, pool, faults, stops>>

(* DO_NOT_DELETE_MESSAGE and every other exception: the message stays in    *)
(* flight until its visibility timeout.                                     *)
HandlerRaises(t) ==
    /\ thread[t].at = "handling"
    /\ kind[thread[t].msg] = "event"
    /\ EndPoll(t)
    /\ UNCHANGED <<sqs, succeeded, pool, faults, stops>>

(* Mutant: the message is never deleted after its handler returned.         *)
DeleteNothing(t) ==
    /\ thread[t].at = "deleting"
    /\ EndPoll(t)
    /\ UNCHANGED <<sqs, succeeded, pool, faults, stops>>

(* delete_message_batch.  SQS does nothing for a receipt that is no longer  *)
(* valid, and the code does not look at the answer.                         *)
Delete(t) ==
    /\ thread[t].at = "deleting"
    /\ LET m == thread[t].msg
           g == GroupOf[m]
       IN  IF holder[g] = t /\ Head1(g) = m
           THEN RemoveHead(g, IF succeeded[m] > 0 THEN "done" ELSE "rejected")
           ELSE UNCHANGED sqs
    /\ EndPoll(t)
    /\ UNCHANGED <<succeeded, pool, faults, stops>>

-----------------------------------------------------------------------------
(* IdeaThreadpoolService.                                                   *)

(* Mutant: an idle queue needs no thread.                                   *)
RequiredOrNone(n) ==
    LET wanted == (n + MessageCountPerThread - 1) \div MessageCountPerThread
    IN  IF wanted < MaxThreads THEN wanted ELSE MaxThreads

(* calculate_number_of_threads_required, for n messages: the number SQS     *)
(* reports is approximate, so n need not be the length of the queue.        *)
Required(n) ==
    LET wanted == (n + MessageCountPerThread - 1) \div MessageCountPerThread
        atLeast == IF wanted > MinThreads THEN wanted ELSE MinThreads
    IN  IF atLeast < MaxThreads THEN atLeast ELSE MaxThreads

(* Mutant: a thread that was told to exit is taken for gone.                *)
CleanedOfLeaving == {t \in all : Alive(t) /\ t \notin exit}

(* _cleanup_inactive_threads *)
Cleaned == {t \in all : Alive(t)}

(* _enforce_thread_count: a thread that was told to exit counts until it is *)
(* dead, but is not told again.                                             *)
Enforce(known, count) ==
    LET n == Cardinality(known)
        surplus == Len(active) - count
        new == SubSeq(SetToSeq(Threads \ known), 1, count - n)
    IN  \/ /\ n = count \/ (n > count /\ Len(active) <= count)
           /\ UNCHANGED <<active, exit, thread>>
           /\ all' = known
        \/ /\ n > count /\ Len(active) > count
           /\ active' = SubSeq(active, 1, count)
           /\ exit' = exit \cup {active[i] : i \in (count + 1)..Len(active)}
           /\ all' = known
           /\ UNCHANGED thread
        \/ /\ n < count
           /\ all' = known \cup Range(new)
           /\ active' = active \o new
           /\ exit' = exit \ Range(new)
           /\ thread' = [t \in Threads |-> IF t \in Range(new) THEN [at |-> "polling"]
                                            ELSE thread[t]]

AdjustThreadCounts ==
    /\ service \in {"starting", "running"}
    /\ \E n \in 0..Cardinality(Messages) : Enforce(Cleaned, Required(n))
    /\ service' = "running"
    /\ UNCHANGED <<sqs, succeeded, toStop, faults, stops>>

(* stop(): the service thread has ended; one thread after the other is told *)
(* to exit and waited for.                                                  *)
StopPool ==
    /\ service \in {"starting", "running"}
    /\ stops < MaxStops
    /\ stops' = stops + 1
    /\ service' = "stopping"
    /\ toStop' = all
    /\ UNCHANGED <<sqs, succeeded, thread, exit, all, active, faults>>

StopThread(t) ==
    /\ service = "stopping"
    /\ t \in toStop
    /\ \A u \in all \ toStop : ~Alive(u)
    /\ toStop' = toStop \ {t}
    /\ exit' = exit \cup {t}
    /\ UNCHANGED <<sqs, succeeded, thread, all, active, service, faults, stops>>

StopEnds ==
    /\ service = "stopping"
    /\ toStop = {}
    /\ \A t \in all : ~Alive(t)
    /\ service' = "stopped"
    /\ UNCHANGED <<sqs, succeeded, thread, exit, all, active, toStop, faults, stops>>

(* The process dies: every thread with it, in the middle of anything.       *)
Crash ==
    /\ service \in {"starting", "running", "stopping"}
    /\ faults < MaxFaults
    /\ faults' = faults + 1
    /\ service' = "stopped"
    /\ thread' = [t \in Threads |-> Dead]
    /\ toStop' = {}
    /\ UNCHANGED <<sqs, succeeded, exit, all, active, stops>>

(* A new process: an empty pool.                                            *)
Start ==
    /\ service = "stopped"
    /\ service' = "starting"
    /\ all' = {}
    /\ active' = <<>>
    /\ exit' = {}
    /\ UNCHANGED <<sqs, succeeded, thread, toStop, faults, stops>>

-----------------------------------------------------------------------------
ThreadStep(t) ==
    \/ ReceiveNothing(t)
    \/ \E g \in Groups : Receive(t, g)
    \/ HandlerReturns(t) \/ HandlerRejects(t) \/ HandlerRaises(t)
    \/ Delete(t)

Next ==
    \/ \E m \in Messages : Publish(m)
    \/ \E g \in Groups : Redeliver(g) \/ TimeoutWhileBusy(g) \/ DeadLetter(g)
    \/ \E t \in Threads : ThreadStep(t) \/ StopThread(t)
    \/ AdjustThreadCounts \/ StopPool \/ StopEnds \/ Crash \/ Start

Spec == Init /\ [][Next]_vars

(* The loops of the threads and of the pool go on, a call of stop()         *)
(* proceeds, a stopped controller is replaced, and SQS honours its timeout  *)
(* and its redrive policy.                                                  *)
Fairness ==
    /\ \A t \in Threads : WF_vars(ThreadStep(t)) /\ WF_vars(StopThread(t))
    /\ \A g \in Groups : WF_vars(Redeliver(g)) /\ WF_vars(DeadLetter(g))
    /\ WF_vars(AdjustThreadCounts) /\ WF_vars(StopEnds) /\ WF_vars(Start)

FairSpec == Spec /\ Fairness

-----------------------------------------------------------------------------
ThreadStates ==
    [at : {"dead", "polling"}] \cup [at : Busy, msg : Messages]

TypeOK ==
    /\ kind \in [Messages -> Kinds \cup {"none"}]
    /\ queue \in [Groups -> Seq(Messages)]
    /\ holder \in [Groups -> Threads \cup {NoThread}]
    /\ receives \in [Messages -> 0..MaxReceiveCount]
    /\ published \in [Groups -> Seq(Messages)]
    /\ outcome \in [Messages -> {"unsent", "pending", "done", "rejected", "given_up"}]
    /\ succeeded \in [Messages -> 0..2]
    /\ thread \in [Threads -> ThreadStates]
    /\ exit \subseteq Threads
    /\ all \subseteq Threads
    /\ active \in Seq(Threads)
    /\ service \in {"starting", "running", "stopping", "stopped"}
    /\ toStop \subseteq Threads
    /\ faults \in 0..MaxFaults
    /\ stops \in 0..MaxStops

(* The queue with its threads implements OrderedDelivery: whatever times    *)
(* out, crashes or is scaled down, the events of a group take effect in     *)
(* order, none is deleted before a handler carried it out, and an event the *)
(* handler rejected takes no effect (poll_and_process_queue).               *)
Delivery == INSTANCE OrderedDelivery
                WITH acted <- {m \in Messages : succeeded[m] > 0}
ImplementsOrderedDelivery == Delivery!Spec

(* Without a crash and without a visibility timeout that ends before the     *)
(* handler, no event is handled twice: scaling down and stopping the pool   *)
(* let a thread finish the message it has (_monitor_queue, stop).           *)
ExactlyOnceWithoutFaults ==
    faults = 0 => \A m \in Messages : succeeded[m] <= 1

(* After the first adjustment the pool always keeps at least the minimum of  *)
(* threads that are alive and not told to exit, however the adjustments,     *)
(* which count threads that are already leaving, follow each other           *)
(* (_enforce_thread_count).                                                  *)
MinThreadsServe ==
    service = "running" =>
        Cardinality({t \in all : Alive(t) /\ t \notin exit}) >= MinThreads

(* A live thread is known to the pool, so that stop() waits for it, and the  *)
(* pool never has more than the maximum (_all_threads against               *)
(* _active_threads).                                                         *)
LiveThreadsAreKnown ==
    /\ {t \in Threads : Alive(t)} \subseteq all
    /\ Cardinality(all) <= MaxThreads

(* Every published event is settled: handled, rejected or given up, also    *)
(* when the pool was scaled down or replaced meanwhile.                     *)
EveryMessageSettles ==
    \A m \in Messages : outcome[m] = "pending" ~> Delivery!Settled(m)

(* stop() ends, although it waits for one thread after the other.           *)
StopCompletes == service = "stopping" ~> service = "stopped"
=============================================================================
