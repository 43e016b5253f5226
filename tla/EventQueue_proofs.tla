-------------------------- MODULE EventQueue_proofs ---------------------------
(***************************************************************************)
(* What holds of EventQueue for every set of messages, groups and threads   *)
(* and every bound, however often handlers raise or outlive the visibility  *)
(* timeout and whenever the pool is scaled, stopped or killed.              *)
(***************************************************************************)
EXTENDS EventQueue, FiniteSetTheorems, SequenceTheorems, TLAPS

-----------------------------------------------------------------------------
(* The inductive invariant *)

\* The pool knows its living threads; the threads it counts on are different
\* threads, alive and not told to exit; a stopped controller has none.
Serves(t) == t \in all /\ Alive(t) /\ t \notin exit
PoolInv ==
    /\ {t \in Threads : Alive(t)} \subseteq all
    /\ Cardinality(all) <= MaxThreads
    /\ service = "stopped" => \A t \in Threads : ~Alive(t)
    /\ service \in {"starting", "running"} =>
        /\ \A i \in 1..Len(active) : Serves(active[i])
        /\ \A i, j \in 1..Len(active) : active[i] = active[j] => i = j
    /\ service = "starting" => all = {}
    /\ service = "running" => Len(active) >= MinThreads

Outcomes == {"unsent", "pending", "done", "rejected", "given_up"}

\* The queue q is the rest of what was published to group g: everything
\* before it is settled, everything in it is pending.
IsRest(q, p, out, g) ==
    /\ Len(q) <= Len(p)
    /\ \A i \in 1..Len(q) : q[i] = p[Len(p) - Len(q) + i]
    /\ \A i \in 1..Len(p) :
        /\ GroupOf[p[i]] = g
        /\ out[p[i]] # "unsent"
        /\ out[p[i]] = "pending" <=> i > Len(p) - Len(q)
    /\ \A i, j \in 1..Len(p) : p[i] = p[j] => i = j
QueueInv ==
    \A g \in Groups :
        /\ IsRest(queue[g], published[g], outcome, g)
        /\ holder[g] # NoThread => queue[g] # <<>>

\* What became of a message agrees with what it is and who carried it out.
MessageInv ==
    \A m \in Messages :
        /\ outcome[m] = "unsent" => succeeded[m] = 0
        /\ outcome[m] # "unsent" => kind[m] \in Kinds
        /\ outcome[m] = "done" => succeeded[m] > 0
        /\ outcome[m] = "rejected" => kind[m] # "event"

\* The message a thread is busy with is the oldest of its group until it is
\* settled, also when its receipt is no longer valid; an event is about to be
\* deleted only after a handler carried it out.
WorkInv ==
    \A t \in Threads : thread[t].at \in Busy =>
        LET m == thread[t].msg
            g == GroupOf[m]
        IN  /\ outcome[m] # "unsent"
            /\ outcome[m] = "pending" => queue[g] # <<>> /\ Head1(g) = m
            /\ thread[t].at = "handling" => kind[m] \in {"event", "untrusted"}
            /\ thread[t].at = "deleting" /\ kind[m] = "event" => succeeded[m] > 0

\* Without faults a busy thread has the receipt of its message, and a message
\* that was carried out is with the thread that is about to delete it.
OnceInv ==
    faults = 0 =>
        /\ \A t \in Threads : thread[t].at \in Busy =>
              holder[GroupOf[thread[t].msg]] = t /\ outcome[thread[t].msg] = "pending"
        /\ \A t \in Threads : thread[t].at = "handling" => succeeded[thread[t].msg] = 0
        /\ \A m \in Messages :
              /\ succeeded[m] <= 1
              /\ outcome[m] = "pending" /\ succeeded[m] > 0 =>
                    \E t \in Threads : thread[t].at = "deleting" /\ thread[t].msg = m

IInv == TypeOK /\ PoolInv /\ QueueInv /\ MessageInv /\ WorkInv /\ OnceInv

-----------------------------------------------------------------------------
(* Queues *)

\* Publishing: SQS puts the message behind the others of its group.
LEMMA RestOfAppend ==
    ASSUME NEW q \in Seq(Messages), NEW p \in Seq(Messages),
           NEW out \in [Messages -> Outcomes], NEW g \in Groups,
           NEW m \in Messages, GroupOf[m] = g, out[m] = "unsent",
           IsRest(q, p, out, g)
    PROVE  IsRest(Append(q, m), Append(p, m), [out EXCEPT ![m] = "pending"], g)
<1> DEFINE q1 == Append(q, m)
           p1 == Append(p, m)
           o1 == [out EXCEPT ![m] = "pending"]
<1>1. /\ Len(q) \in Nat /\ Len(p) \in Nat
      /\ Len(q1) = Len(q) + 1 /\ Len(p1) = Len(p) + 1
      /\ \A i \in 1..Len(q) : q1[i] = q[i]
      /\ \A i \in 1..Len(p) : p1[i] = p[i] /\ p[i] \in Messages
      /\ p1[Len(p) + 1] = m /\ q1[Len(q) + 1] = m
  BY AppendProperties, LenProperties, ElementOfSeq
<1>2. \A i \in 1..Len(p) : p[i] # m /\ o1[p[i]] = out[p[i]]
  BY <1>1 DEF IsRest
<1>3. o1[m] = "pending"
  OBVIOUS
<1> HIDE DEF q1, p1, o1
<1>4. Len(q1) <= Len(p1)
  BY <1>1 DEF IsRest
<1>5. \A i \in 1..Len(q1) : q1[i] = p1[Len(p1) - Len(q1) + i]
  <2> SUFFICES ASSUME NEW i \in 1..Len(q1) PROVE q1[i] = p1[Len(p1) - Len(q1) + i]
    OBVIOUS
  <2>1. CASE i = Len(q) + 1
    BY <1>1, <2>1
  <2>2. CASE i \in 1..Len(q)
    <3>1. Len(p) - Len(q) + i \in 1..Len(p)
      BY <1>1, <2>2 DEF IsRest
    <3> QED
      BY <1>1, <2>2, <3>1 DEF IsRest
  <2> QED
    BY <1>1, <2>1, <2>2
<1>6. ASSUME NEW i \in 1..Len(p1)
      PROVE  /\ GroupOf[p1[i]] = g
             /\ o1[p1[i]] # "unsent"
             /\ o1[p1[i]] = "pending" <=> i > Len(p1) - Len(q1)
  <2>1. CASE i = Len(p) + 1
    BY <1>1, <1>3, <2>1 DEF IsRest
  <2>2. CASE i \in 1..Len(p)
    BY <1>1, <1>2, <2>2 DEF IsRest
  <2> QED
    BY <1>1, <2>1, <2>2
<1>7. ASSUME NEW i \in 1..Len(p1), NEW j \in 1..Len(p1), p1[i] = p1[j]
      PROVE  i = j
  <2>1. CASE i \in 1..Len(p) /\ j \in 1..Len(p)
    BY <1>1, <1>7, <2>1 DEF IsRest
  <2>2. CASE i \notin 1..Len(p) \/ j \notin 1..Len(p)
    BY <1>1, <1>2, <1>7, <2>2
  <2> QED
    BY <2>1, <2>2
<1> QED
  BY <1>4, <1>5, <1>6, <1>7 DEF IsRest, q1, p1, o1

\* Deleting or giving up: SQS takes the oldest message of a group away.
LEMMA RestOfTail ==
    ASSUME NEW q \in Seq(Messages), NEW p \in Seq(Messages),
           NEW out \in [Messages -> Outcomes], NEW g \in Groups,
           NEW o \in {"done", "rejected", "given_up"},
           q # <<>>, IsRest(q, p, out, g)
    PROVE  IsRest(Tail(q), p, [out EXCEPT ![q[1]] = o], g)
<1> DEFINE q1 == Tail(q)
           o1 == [out EXCEPT ![q[1]] = o]
           s == Len(p) - Len(q)
<1>1. /\ Len(q) \in Nat /\ Len(p) \in Nat /\ Len(q) >= 1
      /\ Len(q1) = Len(q) - 1
      /\ \A i \in 1..Len(q1) : q1[i] = q[i + 1]
      /\ \A i \in 1..Len(p) : p[i] \in Messages
      /\ q[1] \in Messages
  BY HeadTailProperties, LenProperties, ElementOfSeq, EmptySeq
<1>2. s + 1 \in 1..Len(p) /\ q[1] = p[s + 1]
  BY <1>1 DEF IsRest
<1>3. /\ o1[p[s + 1]] = o
      /\ \A i \in 1..Len(p) : i # s + 1 => o1[p[i]] = out[p[i]]
  BY <1>1, <1>2 DEF IsRest
<1> HIDE DEF q1, o1
<1>4. \A i \in 1..Len(q1) : q1[i] = p[Len(p) - Len(q1) + i]
  <2> SUFFICES ASSUME NEW i \in 1..Len(q1) PROVE q1[i] = p[Len(p) - Len(q1) + i]
    OBVIOUS
  <2>1. i + 1 \in 1..Len(q) /\ Len(p) - Len(q1) + i = s + (i + 1)
    BY <1>1
  <2> QED
    BY <1>1, <2>1 DEF IsRest
<1>5. ASSUME NEW i \in 1..Len(p)
      PROVE  /\ GroupOf[p[i]] = g
             /\ o1[p[i]] # "unsent"
             /\ o1[p[i]] = "pending" <=> i > Len(p) - Len(q1)
  BY <1>1, <1>2, <1>3 DEF IsRest
<1> QED
  BY <1>1, <1>4, <1>5 DEF IsRest, q1, o1

\* What happens to a message does not concern the other groups.
LEMMA RestOfOthers ==
    ASSUME NEW q \in Seq(Messages), NEW p \in Seq(Messages),
           NEW out \in [Messages -> Outcomes], NEW g \in Groups,
           NEW m \in Messages, NEW o, GroupOf[m] # g,
           IsRest(q, p, out, g)
    PROVE  IsRest(q, p, [out EXCEPT ![m] = o], g)
<1>1. \A i \in 1..Len(p) : p[i] \in Messages /\ [out EXCEPT ![m] = o][p[i]] = out[p[i]]
  BY ElementOfSeq DEF IsRest
<1> QED
  BY <1>1 DEF IsRest

\* The head of a group's queue is the first message of the group that is not
\* settled.
LEMMA RestHead ==
    ASSUME NEW q \in Seq(Messages), NEW p \in Seq(Messages),
           NEW out \in [Messages -> Outcomes], NEW g \in Groups,
           q # <<>>, IsRest(q, p, out, g)
    PROVE  /\ q[1] \in Messages /\ GroupOf[q[1]] = g /\ out[q[1]] = "pending"
           /\ Len(p) - Len(q) + 1 \in 1..Len(p) /\ q[1] = p[Len(p) - Len(q) + 1]
<1>1. Len(q) \in Nat /\ Len(p) \in Nat /\ Len(q) >= 1 /\ q[1] \in Messages
  BY LenProperties, EmptySeq, ElementOfSeq
<1>2. Len(p) - Len(q) + 1 \in 1..Len(p) /\ q[1] = p[Len(p) - Len(q) + 1]
  BY <1>1 DEF IsRest
<1> QED
  BY <1>1, <1>2 DEF IsRest

\* A new message does not change which one is the oldest.
LEMMA AppendKeepsHead ==
    ASSUME NEW q \in Seq(Messages), NEW m \in Messages
    PROVE  /\ Append(q, m) \in Seq(Messages) /\ Append(q, m) # <<>>
           /\ q # <<>> => Append(q, m)[1] = q[1]
<1>1. Append(q, m) \in Seq(Messages) /\ Append(q, m) # <<>>
  BY AppendProperties
<1>2. ASSUME q # <<>> PROVE Append(q, m)[1] = q[1]
  <2>1. Len(q) \in Nat /\ Len(q) >= 1
    BY <1>2, LenProperties, EmptySeq
  <2> QED
    BY <2>1, AppendProperties
<1> QED
  BY <1>1, <1>2

-----------------------------------------------------------------------------
(* Threads *)

\* A busy thread has a message, and is alive.
LEMMA BusyThread ==
    ASSUME TypeOK, NEW t \in Threads, thread[t].at \in Busy
    PROVE  /\ thread[t].msg \in Messages
           /\ GroupOf[thread[t].msg] \in Groups
           /\ thread[t] = [at |-> thread[t].at, msg |-> thread[t].msg]
           /\ thread[t] # Dead
<1>1. thread[t] \in ThreadStates
  BY DEF TypeOK
<1>2. thread[t] \in [at : Busy, msg : Messages]
  BY <1>1 DEF ThreadStates, Busy
<1> QED
  BY <1>2, QueueParameters DEF Dead, Busy

\* A poll ends: the thread has no message, and it is dead only if it was told to exit.
LEMMA EndOfPoll ==
    ASSUME TypeOK, NEW t \in Threads, EndPoll(t)
    PROVE  /\ thread' \in [Threads -> ThreadStates]
           /\ thread'[t].at \notin Busy
           /\ t \notin exit => thread'[t] # Dead
           /\ \A u \in Threads : u # t => thread'[u] = thread[u]
<1>1. Dead \in ThreadStates /\ [at |-> "polling"] \in ThreadStates
  BY DEF Dead, ThreadStates
<1>2. Dead.at = "dead" /\ [at |-> "polling"].at = "polling" /\ [at |-> "polling"] # Dead
  BY DEF Dead
<1>3. NextPoll(t) \in {Dead, [at |-> "polling"]} /\ (t \notin exit => NextPoll(t) # Dead)
  BY <1>2 DEF NextPoll
<1>4. thread \in [Threads -> ThreadStates]
  BY DEF TypeOK
<1> QED
  BY <1>1, <1>2, <1>3, <1>4 DEF EndPoll, Busy

\* A handler is done with its message.
LEMMA ToDeleting ==
    ASSUME TypeOK, NEW t \in Threads, thread[t].at = "handling",
           thread' = [thread EXCEPT ![t].at = "deleting"]
    PROVE  /\ thread' \in [Threads -> ThreadStates]
           /\ thread'[t].at = "deleting" /\ thread'[t].msg = thread[t].msg
           /\ thread'[t] # Dead
           /\ \A u \in Threads : u # t => thread'[u] = thread[u]
<1>1. thread \in [Threads -> ThreadStates]
  BY DEF TypeOK
<1>2. thread[t].msg \in Messages /\ thread[t] = [at |-> "handling", msg |-> thread[t].msg]
  BY BusyThread DEF Busy
<1>3. thread'[t] = [at |-> "deleting", msg |-> thread[t].msg]
  BY <1>1, <1>2
<1>4. thread'[t] \in ThreadStates /\ thread'[t] # Dead
  BY <1>2, <1>3 DEF ThreadStates, Busy, Dead
<1>5. \A u \in Threads : u # t => thread'[u] = thread[u]
  BY <1>1
<1>6. thread' \in [Threads -> ThreadStates]
  <2>1. thread' = [u \in Threads |-> IF u = t THEN thread'[t] ELSE thread[u]]
    BY <1>1
  <2> QED
    BY <2>1, <1>1, <1>4
<1> QED
  BY <1>3, <1>4, <1>5, <1>6

-----------------------------------------------------------------------------
(* What leaves a part of the invariant alone *)

\* No thread starts, and only threads that were told to exit die.
LEMMA PoolFrame ==
    ASSUME TypeOK, PoolInv, UNCHANGED <<exit, all, active, service>>,
           \A u \in Threads : /\ thread[u] = Dead => thread'[u] = Dead
                              /\ thread'[u] = Dead => thread[u] = Dead \/ u \in exit
    PROVE  PoolInv'
<1>1. \A i \in 1..Len(active) : active[i] \in Threads
  BY ElementOfSeq DEF TypeOK
<1>2. service \in {"starting", "running"} => \A i \in 1..Len(active) : Serves(active[i])'
  BY <1>1 DEF PoolInv, Serves, Alive
<1>3. ({t \in Threads : Alive(t)} \subseteq all)'
  BY DEF PoolInv, Alive
<1>4. (service = "stopped" => \A t \in Threads : ~Alive(t))'
  BY DEF PoolInv, Alive
<1> QED
  BY <1>2, <1>3, <1>4 DEF PoolInv

\* No message is published or settled.
LEMMA QueueFrame ==
    ASSUME QueueInv, UNCHANGED <<queue, published, outcome>>,
           \A g \in Groups : holder'[g] # NoThread => queue[g] # <<>>
    PROVE  QueueInv'
  BY DEF QueueInv

\* The messages keep their state; more of them may have been carried out.
LEMMA MessageFrame ==
    ASSUME TypeOK, MessageInv, UNCHANGED <<kind, outcome>>, TypeOK',
           \A m \in Messages : /\ succeeded[m] > 0 => succeeded'[m] > 0
                               /\ outcome[m] = "unsent" => succeeded'[m] = succeeded[m]
    PROVE  MessageInv'
  BY DEF MessageInv

\* The oldest message of a group.
LEMMA OldestMessage ==
    ASSUME TypeOK, QueueInv, NEW g \in Groups, queue[g] # <<>>
    PROVE  /\ Head1(g) \in Messages /\ GroupOf[Head1(g)] = g
           /\ outcome[Head1(g)] = "pending"
<1>1. /\ queue[g] \in Seq(Messages) /\ published[g] \in Seq(Messages)
      /\ outcome \in [Messages -> Outcomes]
  BY DEF TypeOK, Outcomes
<1>2. IsRest(queue[g], published[g], outcome, g)
  BY DEF QueueInv
<1> QED
  BY <1>1, <1>2, RestHead DEF Head1

\* The oldest message of a group is settled.
LEMMA HeadRemoved ==
    ASSUME TypeOK, QueueInv, NEW g \in Groups, queue[g] # <<>>,
           NEW o \in {"done", "rejected", "given_up"}, RemoveHead(g, o)
    PROVE  /\ QueueInv'
           /\ queue' \in [Groups -> Seq(Messages)]
           /\ holder' \in [Groups -> Threads \cup {NoThread}]
           /\ outcome' \in [Messages -> Outcomes]
           /\ outcome'[Head1(g)] = o
           /\ \A m \in Messages : m # Head1(g) => outcome'[m] = outcome[m]
           /\ \A h \in Groups : h # g => queue'[h] = queue[h] /\ holder'[h] = holder[h]
<1>1. /\ queue \in [Groups -> Seq(Messages)] /\ published \in [Groups -> Seq(Messages)]
      /\ outcome \in [Messages -> Outcomes] /\ holder \in [Groups -> Threads \cup {NoThread}]
  BY DEF TypeOK, Outcomes
<1>2. Head1(g) \in Messages /\ GroupOf[Head1(g)] = g
  BY OldestMessage
<1>3. Tail(queue[g]) \in Seq(Messages)
  BY <1>1, HeadTailProperties
<1>4. /\ queue' \in [Groups -> Seq(Messages)] /\ queue'[g] = Tail(queue[g])
      /\ \A h \in Groups : h # g => queue'[h] = queue[h]
  BY <1>1, <1>3 DEF RemoveHead
<1>5. /\ outcome' \in [Messages -> Outcomes] /\ outcome'[Head1(g)] = o
      /\ \A m \in Messages : m # Head1(g) => outcome'[m] = outcome[m]
  BY <1>1, <1>2 DEF RemoveHead, Outcomes
<1>6. /\ holder' \in [Groups -> Threads \cup {NoThread}] /\ holder'[g] = NoThread
      /\ \A h \in Groups : h # g => holder'[h] = holder[h]
  BY <1>1 DEF RemoveHead
<1>7. published' = published /\ outcome' = [outcome EXCEPT ![queue[g][1]] = o]
  BY DEF RemoveHead, Head1
<1>8. IsRest(queue'[g], published'[g], outcome', g)
  <2>1. IsRest(Tail(queue[g]), published[g], [outcome EXCEPT ![queue[g][1]] = o], g)
    BY RestOfTail, <1>1 DEF QueueInv
  <2> QED
    BY <2>1, <1>4, <1>7
<1>9. ASSUME NEW h \in Groups, h # g
      PROVE  IsRest(queue'[h], published'[h], outcome', h)
  <2>1. IsRest(queue[h], published[h], [outcome EXCEPT ![Head1(g)] = o], h)
    BY RestOfOthers, <1>1, <1>2, <1>9 DEF QueueInv
  <2> QED
    BY <2>1, <1>4, <1>7, <1>9 DEF Head1
<1>10. QueueInv'
  BY <1>4, <1>6, <1>8, <1>9 DEF QueueInv
<1> QED
  BY <1>4, <1>5, <1>6, <1>10

-----------------------------------------------------------------------------
(* Every action preserves the invariant: SQS *)

\* send_message: a new message is pending and no thread has it yet.
LEMMA PublishStep ==
    ASSUME IInv, NEW m \in Messages, Publish(m)
    PROVE  IInv'
<1> DEFINE g == GroupOf[m]
<1>1. /\ TypeOK /\ PoolInv /\ QueueInv /\ MessageInv /\ WorkInv /\ OnceInv
      /\ g \in Groups /\ outcome[m] = "unsent"
  BY QueueParameters DEF IInv, Publish
<1>2. /\ queue \in [Groups -> Seq(Messages)] /\ published \in [Groups -> Seq(Messages)]
      /\ outcome \in [Messages -> Outcomes] /\ kind \in [Messages -> Kinds \cup {"none"}]
  BY <1>1 DEF TypeOK, Outcomes
<1>3. /\ Append(queue[g], m) \in Seq(Messages) /\ Append(queue[g], m) # <<>>
      /\ queue[g] # <<>> => Append(queue[g], m)[1] = queue[g][1]
      /\ Append(published[g], m) \in Seq(Messages)
  BY <1>1, <1>2, AppendKeepsHead
<1>4. /\ queue' \in [Groups -> Seq(Messages)] /\ queue'[g] = Append(queue[g], m)
      /\ published' \in [Groups -> Seq(Messages)] /\ published'[g] = Append(published[g], m)
      /\ \A h \in Groups : h # g => queue'[h] = queue[h] /\ published'[h] = published[h]
  BY <1>1, <1>2, <1>3 DEF Publish
<1>5. /\ outcome' = [outcome EXCEPT ![m] = "pending"]
      /\ outcome' \in [Messages -> Outcomes] /\ outcome'[m] = "pending"
      /\ \A n \in Messages : n # m => outcome'[n] = outcome[n]
  BY <1>2 DEF Publish, Outcomes
<1>6. /\ kind' \in [Messages -> Kinds \cup {"none"}] /\ kind'[m] \in Kinds
      /\ \A n \in Messages : n # m => kind'[n] = kind[n]
  <2>1. PICK k \in KindsOf[m] : kind' = [kind EXCEPT ![m] = k]
    BY DEF Publish
  <2>2. k \in Kinds
    BY QueueParameters
  <2> QED
    BY <1>2, <2>1, <2>2
<1>7. UNCHANGED <<holder, receives, succeeded, thread, exit, all, active, service, toStop, faults, stops>>
  BY DEF Publish, pool
<1>8. TypeOK'
  BY <1>1, <1>4, <1>5, <1>6, <1>7 DEF TypeOK, Outcomes
<1>9. PoolInv'
  BY <1>1, <1>7, PoolFrame
<1>10. QueueInv'
  <2>1. IsRest(queue'[g], published'[g], outcome', g)
    <3>1. IsRest(queue[g], published[g], outcome, g)
      BY <1>1 DEF QueueInv
    <3>2. IsRest(Append(queue[g], m), Append(published[g], m), [outcome EXCEPT ![m] = "pending"], g)
      BY RestOfAppend, <1>1, <1>2, <3>1
    <3> QED
      BY <1>4, <1>5, <3>2
  <2>2. ASSUME NEW h \in Groups, h # g
        PROVE  IsRest(queue'[h], published'[h], outcome', h)
    BY RestOfOthers, <1>1, <1>2, <1>4, <1>5, <2>2 DEF QueueInv
  <2> QED
    BY <1>1, <1>3, <1>4, <1>7, <2>1, <2>2 DEF QueueInv
<1>11. MessageInv'
  BY <1>1, <1>5, <1>6, <1>7 DEF MessageInv
<1>12. WorkInv'
  <2> SUFFICES ASSUME NEW t \in Threads, thread[t].at \in Busy
               PROVE  LET n == thread[t].msg
                          h == GroupOf[n]
                      IN  /\ outcome'[n] # "unsent"
                          /\ outcome'[n] = "pending" => queue'[h] # <<>> /\ queue'[h][1] = n
                          /\ thread[t].at = "handling" => kind'[n] \in {"event", "untrusted"}
                          /\ thread[t].at = "deleting" /\ kind'[n] = "event" => succeeded[n] > 0
    BY <1>7 DEF WorkInv, Head1
  <2> DEFINE n == thread[t].msg
             h == GroupOf[n]
  <2>1. n \in Messages /\ h \in Groups
    BY BusyThread, <1>1
  <2>2. /\ outcome[n] # "unsent"
        /\ outcome[n] = "pending" => queue[h] # <<>> /\ queue[h][1] = n
        /\ thread[t].at = "handling" => kind[n] \in {"event", "untrusted"}
        /\ thread[t].at = "deleting" /\ kind[n] = "event" => succeeded[n] > 0
    BY <1>1 DEF WorkInv, Head1
  <2>3. n # m
    BY <1>1, <2>2
  <2>4. queue[h] # <<>> => queue'[h] # <<>> /\ queue'[h][1] = queue[h][1]
    BY <1>3, <1>4, <2>1
  <2> QED
    BY <1>5, <1>6, <2>1, <2>2, <2>3, <2>4
<1>13. OnceInv'
  <2>1. \A t \in Threads : thread[t].at \in Busy =>
            thread[t].msg \in Messages /\ outcome[thread[t].msg] # "unsent"
    BY <1>1, BusyThread DEF WorkInv
  <2> QED
    BY <1>1, <1>5, <1>7, <2>1 DEF OnceInv, MessageInv
<1> QED
  BY <1>8, <1>9, <1>10, <1>11, <1>12, <1>13 DEF IInv

\* The visibility timeout ends: only a fault takes the receipt from a thread
\* that is still at work.
LEMMA RedeliverStep ==
    ASSUME IInv, NEW g \in Groups, Redeliver(g) \/ TimeoutWhileBusy(g)
    PROVE  IInv'
<1>1. TypeOK /\ PoolInv /\ QueueInv /\ MessageInv /\ WorkInv /\ OnceInv
  BY DEF IInv
<1>2. /\ UNCHANGED <<kind, queue, receives, published, outcome, succeeded, thread, exit, all,
                     active, service, toStop, stops>>
      /\ holder' = [holder EXCEPT ![g] = NoThread]
      /\ faults' = faults \/ (faults < MaxFaults /\ faults' = faults + 1)
  BY DEF Redeliver, TimeoutWhileBusy, pool
<1>3. /\ holder \in [Groups -> Threads \cup {NoThread}] /\ faults \in 0..MaxFaults /\ MaxFaults \in Nat
      /\ holder' \in [Groups -> Threads \cup {NoThread}] /\ faults' \in 0..MaxFaults
      /\ holder'[g] = NoThread /\ \A h \in Groups : h # g => holder'[h] = holder[h]
  BY <1>1, <1>2, QueueParameters DEF TypeOK
<1>4. TypeOK'
  BY <1>1, <1>2, <1>3 DEF TypeOK
<1>5. PoolInv'
  BY <1>1, <1>2, PoolFrame
<1>6. QueueInv'
  BY <1>1, <1>2, <1>3, QueueFrame DEF QueueInv
<1>7. MessageInv'
  BY <1>1, <1>2 DEF MessageInv
<1>8. WorkInv'
  BY <1>1, <1>2 DEF WorkInv, Head1
<1>9. OnceInv'
  <2> SUFFICES ASSUME faults' = 0
               PROVE  \A t \in Threads : thread[t].at \in Busy => holder'[GroupOf[thread[t].msg]] = t
    BY <1>1, <1>2, <1>3 DEF OnceInv
  <2>1. faults = 0 /\ Redeliver(g)
    BY <1>2, <1>3 DEF TimeoutWhileBusy
  <2> SUFFICES ASSUME NEW t \in Threads, thread[t].at \in Busy
               PROVE  holder'[GroupOf[thread[t].msg]] = t
    OBVIOUS
  <2>2. GroupOf[thread[t].msg] \in Groups /\ holder[GroupOf[thread[t].msg]] = t
    BY <1>1, <2>1, BusyThread DEF OnceInv
  <2>3. GroupOf[thread[t].msg] # g
    BY <2>1, <2>2 DEF Redeliver, Occupied
  <2> QED
    BY <1>3, <2>2, <2>3
<1> QED
  BY <1>4, <1>5, <1>6, <1>7, <1>8, <1>9 DEF IInv

\* Whoever is busy with a message other than the one that is settled goes on with it.
LEMMA WorkAfterRemoval ==
    ASSUME TypeOK, QueueInv, WorkInv, NEW g \in Groups, queue[g] # <<>>,
           NEW o \in {"done", "rejected", "given_up"}, RemoveHead(g, o), succeeded' = succeeded,
           \A u \in Threads : thread'[u].at \in Busy => thread'[u] = thread[u]
    PROVE  WorkInv'
<1> SUFFICES ASSUME NEW t \in Threads, thread[t].at \in Busy
             PROVE  LET n == thread[t].msg
                        h == GroupOf[n]
                    IN  /\ outcome'[n] # "unsent"
                        /\ outcome'[n] = "pending" => queue'[h] # <<>> /\ queue'[h][1] = n
                        /\ thread[t].at = "handling" => kind'[n] \in {"event", "untrusted"}
                        /\ thread[t].at = "deleting" /\ kind'[n] = "event" => succeeded'[n] > 0
  BY DEF WorkInv, Head1
<1> DEFINE n == thread[t].msg
           h == GroupOf[n]
<1>1. n \in Messages /\ h \in Groups
  BY BusyThread
<1>2. /\ outcome[n] # "unsent"
      /\ outcome[n] = "pending" => queue[h] # <<>> /\ Head1(h) = n
      /\ thread[t].at = "handling" => kind[n] \in {"event", "untrusted"}
      /\ thread[t].at = "deleting" /\ kind[n] = "event" => succeeded[n] > 0
  BY DEF WorkInv
<1>3. kind' = kind
  BY DEF RemoveHead
<1>4. CASE n = Head1(g)
  BY <1>2, <1>3, <1>4, HeadRemoved
<1>5. CASE n # Head1(g)
  <2>1. outcome'[n] = outcome[n]
    BY <1>1, <1>5, HeadRemoved
  <2>2. CASE h = g
    BY <1>2, <1>3, <1>5, <2>1, <2>2
  <2>3. CASE h # g
    <3>1. queue'[h] = queue[h]
      BY <1>1, <2>3, HeadRemoved
    <3> QED
      BY <1>2, <1>3, <2>1, <3>1 DEF Head1
  <2> QED
    BY <2>2, <2>3
<1> QED
  BY <1>4, <1>5

\* The redrive policy gives a message up; without faults no thread has it, for
\* nobody holds its receipt.
LEMMA DeadLetterStep ==
    ASSUME IInv, NEW g \in Groups, DeadLetter(g)
    PROVE  IInv'
<1>1. /\ TypeOK /\ PoolInv /\ QueueInv /\ MessageInv /\ WorkInv /\ OnceInv
      /\ queue[g] # <<>> /\ holder[g] = NoThread /\ RemoveHead(g, "given_up")
  BY DEF IInv, DeadLetter, Visible
<1>2. UNCHANGED <<kind, receives, published, succeeded, thread, exit, all, active, service, toStop,
                  faults, stops>>
  BY DEF DeadLetter, pool, RemoveHead
<1>3. /\ QueueInv'
      /\ queue' \in [Groups -> Seq(Messages)]
      /\ holder' \in [Groups -> Threads \cup {NoThread}]
      /\ outcome' \in [Messages -> Outcomes]
      /\ outcome'[Head1(g)] = "given_up"
      /\ \A m \in Messages : m # Head1(g) => outcome'[m] = outcome[m]
      /\ \A h \in Groups : h # g => queue'[h] = queue[h] /\ holder'[h] = holder[h]
      /\ Head1(g) \in Messages /\ GroupOf[Head1(g)] = g /\ outcome[Head1(g)] = "pending"
  BY <1>1, HeadRemoved, OldestMessage
<1>4. TypeOK'
  BY <1>1, <1>2, <1>3 DEF TypeOK, Outcomes
<1>5. PoolInv'
  BY <1>1, <1>2, PoolFrame
<1>6. MessageInv'
  BY <1>1, <1>2, <1>3 DEF MessageInv
<1>7. WorkInv'
  BY <1>1, <1>2, WorkAfterRemoval
<1>8. OnceInv'
  <2> SUFFICES ASSUME faults = 0 PROVE OnceInv'
    BY <1>2 DEF OnceInv
  <2>1. ASSUME NEW t \in Threads, thread[t].at \in Busy
        PROVE  /\ holder'[GroupOf[thread[t].msg]] = t
               /\ outcome'[thread[t].msg] = "pending"
    <3>1. thread[t].msg \in Messages /\ GroupOf[thread[t].msg] \in Groups
      BY <1>1, <2>1, BusyThread
    <3>2. holder[GroupOf[thread[t].msg]] = t /\ outcome[thread[t].msg] = "pending"
      BY <1>1, <2>1 DEF OnceInv
    <3>3. t # NoThread
      BY QueueParameters
    <3>4. GroupOf[thread[t].msg] # g /\ thread[t].msg # Head1(g)
      BY <1>1, <1>3, <3>2, <3>3
    <3> QED
      BY <1>3, <3>1, <3>2, <3>4
  <2>2. \A m \in Messages : outcome'[m] = "pending" => outcome[m] = "pending"
    BY <1>3
  <2> QED
    BY <1>1, <1>2, <2>1, <2>2 DEF OnceInv
<1> QED
  BY <1>3, <1>4, <1>5, <1>6, <1>7, <1>8 DEF IInv

-----------------------------------------------------------------------------
(* Every action preserves the invariant: EventsHandlerThread *)

\* Threads go on with their message or end their poll without having carried anything out.
LEMMA WorkFrame ==
    ASSUME WorkInv, UNCHANGED <<kind, queue, outcome, succeeded>>,
           \A u \in Threads : thread'[u].at \in Busy => thread'[u] = thread[u]
    PROVE  WorkInv'
  BY DEF WorkInv, Head1

\* Threads end their poll, but not those that are about to delete: nothing is
\* carried out again.
LEMMA OnceFrame ==
    ASSUME OnceInv, UNCHANGED <<holder, outcome, succeeded, faults>>,
           \A u \in Threads :
               thread'[u].at \in Busy \/ thread[u].at = "deleting" => thread'[u] = thread[u]
    PROVE  OnceInv'
  BY DEF OnceInv, Busy

\* A poll without a message, and a handler that raised
\* (poll_and_process_queue): the thread ends its poll and deletes nothing.
LEMMA EmptyHandedStep ==
    ASSUME IInv, NEW t \in Threads, ReceiveNothing(t) \/ HandlerRaises(t)
    PROVE  IInv'
<1>1. /\ TypeOK /\ PoolInv /\ QueueInv /\ MessageInv /\ WorkInv /\ OnceInv
      /\ EndPoll(t) /\ thread[t].at \in {"polling", "handling"}
  BY DEF IInv, ReceiveNothing, HandlerRaises
<1>2. UNCHANGED <<kind, queue, holder, receives, published, outcome, succeeded, exit, all, active,
                  service, toStop, faults, stops>>
  BY DEF ReceiveNothing, HandlerRaises, sqs, pool
<1>3. /\ thread' \in [Threads -> ThreadStates] /\ thread'[t].at \notin Busy
      /\ t \notin exit => thread'[t] # Dead
      /\ \A u \in Threads : u # t => thread'[u] = thread[u]
  BY <1>1, EndOfPoll
<1>4. thread[t] # Dead
  BY <1>1 DEF Dead
<1>5. TypeOK'
  BY <1>1, <1>2, <1>3 DEF TypeOK
<1>6. PoolInv'
  BY <1>1, <1>2, <1>3, <1>4, PoolFrame
<1>7. QueueInv'
  BY <1>1, <1>2, QueueFrame DEF QueueInv
<1>8. MessageInv'
  BY <1>1, <1>2 DEF MessageInv
<1>9. WorkInv'
  BY <1>1, <1>2, <1>3, WorkFrame
<1>10. OnceInv'
  <2>1. \A u \in Threads :
            thread'[u].at \in Busy \/ thread[u].at = "deleting" => thread'[u] = thread[u]
    BY <1>1, <1>3
  <2> QED
    BY <1>1, <1>2, <2>1, OnceFrame
<1> QED
  BY <1>5, <1>6, <1>7, <1>8, <1>9, <1>10 DEF IInv

\* A thread receives the oldest message of a group; without faults nobody else
\* has it and nobody has carried it out.
LEMMA ReceiveStep ==
    ASSUME IInv, NEW t \in Threads, NEW g \in Groups, Receive(t, g)
    PROVE  IInv'
<1> DEFINE m == Head1(g)
<1>1. /\ TypeOK /\ PoolInv /\ QueueInv /\ MessageInv /\ WorkInv /\ OnceInv
      /\ queue[g] # <<>> /\ holder[g] = NoThread /\ receives[m] < MaxReceiveCount
      /\ thread[t].at = "polling"
  BY DEF IInv, Receive, Receivable, Visible
<1>2. UNCHANGED <<kind, queue, published, outcome, succeeded, exit, all, active, service, toStop,
                  faults, stops>>
  BY DEF Receive, pool
<1>3. /\ m \in Messages /\ GroupOf[m] = g /\ outcome[m] = "pending"
      /\ kind[m] \in Kinds
  BY <1>1, OldestMessage DEF MessageInv
<1>4. /\ holder' \in [Groups -> Threads \cup {NoThread}] /\ holder'[g] = t
      /\ \A h \in Groups : h # g => holder'[h] = holder[h]
  BY <1>1 DEF TypeOK, Receive
<1>5. receives' \in [Messages -> 0..MaxReceiveCount]
  <2>1. receives \in [Messages -> 0..MaxReceiveCount] /\ MaxReceiveCount \in Nat
    BY <1>1, QueueParameters DEF TypeOK
  <2>2. receives[m] + 1 \in 0..MaxReceiveCount
    BY <1>1, <1>3, <2>1
  <2>3. receives' = [receives EXCEPT ![m] = receives[m] + 1]
    BY DEF Receive
  <2> HIDE DEF m
  <2> QED
    BY <2>1, <2>2, <2>3
<1>6. /\ thread'[t] \in ThreadStates
      /\ thread'[t] = Dead => t \in exit
      /\ thread'[t].at \in Busy => thread'[t].msg = m
      /\ thread'[t].at = "handling" => kind[m] \in {"event", "untrusted"}
      /\ thread'[t].at = "deleting" => kind[m] = "unknown"
  <2> DEFINE got == CASE kind[m] \in {"event", "untrusted"} -> [at |-> "handling", msg |-> m]
                      [] kind[m] = "unknown" -> [at |-> "deleting", msg |-> m]
                      [] kind[m] = "garbled" -> NextPoll(t)
  <2>1. thread'[t] = got
    BY <1>1 DEF TypeOK, Receive
  <2>2. CASE kind[m] \in {"event", "untrusted"}
    <3>1. thread'[t] = [at |-> "handling", msg |-> m]
      BY <2>1, <2>2
    <3> QED
      BY <1>3, <2>2, <3>1 DEF ThreadStates, Busy, Dead
  <2>3. CASE kind[m] = "unknown"
    <3>1. thread'[t] = [at |-> "deleting", msg |-> m]
      BY <2>1, <2>3
    <3> QED
      BY <1>3, <2>3, <3>1 DEF ThreadStates, Busy, Dead
  <2>4. CASE kind[m] = "garbled"
    <3>1. thread'[t] = NextPoll(t)
      BY <2>1, <2>4
    <3> QED
      BY <2>4, <3>1 DEF NextPoll, ThreadStates, Busy, Dead
  <2> QED
    BY <1>3, <2>2, <2>3, <2>4 DEF Kinds
<1>7. /\ thread' \in [Threads -> ThreadStates]
      /\ \A u \in Threads : u # t => thread'[u] = thread[u]
  <2>1. PICK s : thread' = [thread EXCEPT ![t] = s]
    BY DEF Receive
  <2>2. thread \in [Threads -> ThreadStates]
    BY <1>1 DEF TypeOK
  <2> QED
    BY <1>6, <2>1, <2>2
<1>8. thread[t] # Dead /\ thread[t].at \notin Busy
  BY <1>1 DEF Dead, Busy
<1>9. TypeOK'
  BY <1>1, <1>2, <1>4, <1>5, <1>7 DEF TypeOK
<1>10. PoolInv'
  BY <1>1, <1>2, <1>6, <1>7, <1>8, PoolFrame
<1>11. QueueInv'
  <2>1. \A h \in Groups : holder'[h] # NoThread => queue[h] # <<>>
    BY <1>1, <1>4 DEF QueueInv
  <2> QED
    BY <1>1, <1>2, <2>1, QueueFrame
<1>12. MessageInv'
  BY <1>1, <1>2 DEF MessageInv
<1>13. WorkInv'
  BY <1>1, <1>2, <1>3, <1>6, <1>7 DEF WorkInv, Head1
<1>14. OnceInv'
  <2> SUFFICES ASSUME faults = 0 PROVE OnceInv'
    BY <1>2 DEF OnceInv
  <2>1. NoThread \notin Threads
    BY QueueParameters
  <2>2. succeeded[m] = 0
    <3>1. ~ \E u \in Threads : thread[u].at = "deleting" /\ thread[u].msg = m
      BY <1>1, <1>3, <2>1 DEF OnceInv, Busy
    <3>2. succeeded[m] \in 0..2
      BY <1>1, <1>3 DEF TypeOK
    <3>3. ~(succeeded[m] > 0)
      BY <1>1, <1>3, <3>1 DEF OnceInv
    <3> QED
      BY <3>2, <3>3
  <2>3. ASSUME NEW u \in Threads, thread'[u].at \in Busy
        PROVE  /\ holder'[GroupOf[thread'[u].msg]] = u /\ outcome'[thread'[u].msg] = "pending"
               /\ thread'[u].at = "handling" => succeeded'[thread'[u].msg] = 0
    <3>1. CASE u = t
      BY <1>2, <1>3, <1>4, <1>6, <2>2, <2>3, <3>1
    <3>2. CASE u # t
      <4>1. thread'[u] = thread[u] /\ thread[u].at \in Busy
        BY <1>7, <2>3, <3>2
      <4>2. GroupOf[thread[u].msg] \in Groups
        BY <1>1, <4>1, BusyThread
      <4>3. /\ holder[GroupOf[thread[u].msg]] = u /\ outcome[thread[u].msg] = "pending"
            /\ thread[u].at = "handling" => succeeded[thread[u].msg] = 0
        BY <1>1, <4>1 DEF OnceInv
      <4>4. GroupOf[thread[u].msg] # g
        BY <1>1, <2>1, <4>3
      <4> QED
        BY <1>2, <1>4, <4>1, <4>2, <4>3, <4>4
    <3> QED
      BY <3>1, <3>2
  <2>4. \A u \in Threads : thread[u].at = "deleting" => thread'[u] = thread[u]
    BY <1>1, <1>7
  <2> QED
    BY <1>1, <1>2, <2>3, <2>4 DEF OnceInv, Busy
<1> QED
  BY <1>9, <1>10, <1>11, <1>12, <1>13, <1>14 DEF IInv

\* handle_event returned: its thread alone has the message, if there was no
\* fault, and deletes it next.
LEMMA HandlerReturnsStep ==
    ASSUME IInv, NEW t \in Threads, HandlerReturns(t)
    PROVE  IInv'
<1> DEFINE m == thread[t].msg
<1>1. /\ TypeOK /\ PoolInv /\ QueueInv /\ MessageInv /\ WorkInv /\ OnceInv
      /\ thread[t].at = "handling" /\ thread[t].at \in Busy /\ kind[m] = "event"
  BY DEF IInv, HandlerReturns, Busy
<1>2. UNCHANGED <<kind, queue, holder, receives, published, outcome, exit, all, active, service,
                  toStop, faults, stops>>
  BY DEF HandlerReturns, sqs, pool
<1>3. m \in Messages /\ GroupOf[m] \in Groups /\ thread[t] # Dead
  BY <1>1, BusyThread
<1>4. /\ thread' \in [Threads -> ThreadStates]
      /\ thread'[t].at = "deleting" /\ thread'[t].msg = m /\ thread'[t] # Dead
      /\ \A u \in Threads : u # t => thread'[u] = thread[u]
  BY <1>1, ToDeleting DEF HandlerReturns
<1>5. /\ succeeded \in [Messages -> 0..2] /\ succeeded' \in [Messages -> 0..2]
      /\ succeeded'[m] > 0 /\ (succeeded[m] = 0 => succeeded'[m] = 1)
      /\ \A n \in Messages : n # m => succeeded'[n] = succeeded[n]
  <2>1. succeeded \in [Messages -> 0..2]
    BY <1>1 DEF TypeOK
  <2>2. PICK v : /\ succeeded' = [succeeded EXCEPT ![m] = v]
                 /\ v = IF succeeded[m] < 2 THEN succeeded[m] + 1 ELSE 2
    BY DEF HandlerReturns
  <2>3. v \in 1..2 /\ (succeeded[m] = 0 => v = 1)
    BY <1>3, <2>1, <2>2
  <2> HIDE DEF m
  <2> QED
    BY <1>3, <2>1, <2>2, <2>3
<1>6. TypeOK'
  BY <1>1, <1>2, <1>4, <1>5 DEF TypeOK
<1>7. PoolInv'
  BY <1>1, <1>2, <1>3, <1>4, PoolFrame
<1>8. QueueInv'
  BY <1>1, <1>2, QueueFrame DEF QueueInv
<1>9. MessageInv'
  <2>1. outcome[m] # "unsent"
    BY <1>1 DEF WorkInv
  <2> QED
    BY <1>1, <1>2, <1>5, <2>1 DEF MessageInv
<1>10. WorkInv'
  <2>1. ASSUME NEW u \in Threads, thread'[u].at \in Busy
        PROVE  LET n == thread'[u].msg
                   h == GroupOf[n]
               IN  /\ outcome[n] # "unsent"
                   /\ outcome[n] = "pending" => queue[h] # <<>> /\ queue[h][1] = n
                   /\ thread'[u].at = "handling" => kind[n] \in {"event", "untrusted"}
                   /\ thread'[u].at = "deleting" /\ kind[n] = "event" => succeeded'[n] > 0
    <3>1. CASE u = t
      BY <1>1, <1>4, <1>5, <3>1 DEF WorkInv, Head1
    <3>2. CASE u # t
      <4>1. thread'[u] = thread[u] /\ thread[u].at \in Busy
        BY <1>4, <2>1, <3>2
      <4>2. thread[u].msg \in Messages
        BY <1>1, <4>1, BusyThread
      <4>3. succeeded[thread[u].msg] > 0 => succeeded'[thread[u].msg] > 0
        BY <1>5, <4>2
      <4> QED
        BY <1>1, <4>1, <4>3 DEF WorkInv, Head1
    <3> QED
      BY <3>1, <3>2
  <2> QED
    BY <1>2, <2>1 DEF WorkInv, Head1
<1>11. OnceInv'
  <2> SUFFICES ASSUME faults = 0 PROVE OnceInv'
    BY <1>2 DEF OnceInv
  <2>1. holder[GroupOf[m]] = t /\ outcome[m] = "pending" /\ succeeded'[m] = 1
    BY <1>1, <1>5 DEF OnceInv
  <2>2. ASSUME NEW u \in Threads, thread'[u].at \in Busy
        PROVE  /\ holder[GroupOf[thread'[u].msg]] = u /\ outcome[thread'[u].msg] = "pending"
               /\ thread'[u].at = "handling" => succeeded'[thread'[u].msg] = 0
    <3>1. CASE u = t
      BY <1>4, <2>1, <3>1
    <3>2. CASE u # t
      <4>1. thread'[u] = thread[u] /\ thread[u].at \in Busy
        BY <1>4, <2>2, <3>2
      <4>2. thread[u].msg \in Messages
        BY <1>1, <4>1, BusyThread
      <4>3. /\ holder[GroupOf[thread[u].msg]] = u /\ outcome[thread[u].msg] = "pending"
            /\ thread[u].at = "handling" => succeeded[thread[u].msg] = 0
        BY <1>1, <4>1 DEF OnceInv
      <4>4. thread[u].msg # m
        BY <2>1, <3>2, <4>3
      <4> QED
        BY <1>5, <4>1, <4>2, <4>3, <4>4
    <3> QED
      BY <3>1, <3>2
  <2>3. ASSUME NEW n \in Messages
        PROVE  /\ succeeded'[n] <= 1
               /\ outcome[n] = "pending" /\ succeeded'[n] > 0 =>
                     \E u \in Threads : thread'[u].at = "deleting" /\ thread'[u].msg = n
    <3>1. CASE n = m
      BY <1>4, <2>1, <3>1
    <3>2. CASE n # m
      <4>1. \A u \in Threads : thread[u].at = "deleting" => thread'[u] = thread[u]
        BY <1>1, <1>4
      <4> QED
        BY <1>1, <1>5, <3>2, <4>1 DEF OnceInv
    <3> QED
      BY <3>1, <3>2
  <2> QED
    BY <1>2, <2>2, <2>3 DEF OnceInv, Busy
<1> QED
  BY <1>6, <1>7, <1>8, <1>9, <1>10, <1>11 DEF IInv

\* MESSAGE_SOURCE_VALIDATION_FAILED: deleted without having been carried out.
LEMMA HandlerRejectsStep ==
    ASSUME IInv, NEW t \in Threads, HandlerRejects(t)
    PROVE  IInv'
<1> DEFINE m == thread[t].msg
<1>1. /\ TypeOK /\ PoolInv /\ QueueInv /\ MessageInv /\ WorkInv /\ OnceInv
      /\ thread[t].at = "handling" /\ thread[t].at \in Busy /\ kind[m] = "untrusted"
  BY DEF IInv, HandlerRejects, Busy
<1>2. UNCHANGED <<kind, queue, holder, receives, published, outcome, succeeded, exit, all, active,
                  service, toStop, faults, stops>>
  BY DEF HandlerRejects, sqs, pool
<1>3. thread[t] # Dead
  BY <1>1, BusyThread
<1>4. /\ thread' \in [Threads -> ThreadStates]
      /\ thread'[t].at = "deleting" /\ thread'[t].msg = m /\ thread'[t] # Dead
      /\ \A u \in Threads : u # t => thread'[u] = thread[u]
  BY <1>1, ToDeleting DEF HandlerRejects
<1>5. TypeOK'
  BY <1>1, <1>2, <1>4 DEF TypeOK
<1>6. PoolInv'
  BY <1>1, <1>2, <1>3, <1>4, PoolFrame
<1>7. QueueInv'
  BY <1>1, <1>2, QueueFrame DEF QueueInv
<1>8. MessageInv'
  BY <1>1, <1>2 DEF MessageInv
<1>9. WorkInv'
  BY <1>1, <1>2, <1>4 DEF WorkInv, Head1
<1>10. OnceInv'
  BY <1>1, <1>2, <1>4 DEF OnceInv, Busy
<1> QED
  BY <1>5, <1>6, <1>7, <1>8, <1>9, <1>10 DEF IInv

\* delete_message_batch: with a valid receipt the oldest message is settled,
\* with an old one nothing happens, which takes a fault.
LEMMA DeleteStep ==
    ASSUME IInv, NEW t \in Threads, Delete(t)
    PROVE  IInv'
<1> DEFINE m == thread[t].msg
           g == GroupOf[m]
           o == IF succeeded[m] > 0 THEN "done" ELSE "rejected"
<1>1. /\ TypeOK /\ PoolInv /\ QueueInv /\ MessageInv /\ WorkInv /\ OnceInv
      /\ thread[t].at = "deleting" /\ thread[t].at \in Busy /\ EndPoll(t)
  BY DEF IInv, Delete, Busy
<1>2. UNCHANGED <<succeeded, exit, all, active, service, toStop, faults, stops>>
  BY DEF Delete, pool
<1>3. m \in Messages /\ g \in Groups /\ thread[t] # Dead
  BY <1>1, BusyThread
<1>4. /\ thread' \in [Threads -> ThreadStates] /\ thread'[t].at \notin Busy
      /\ t \notin exit => thread'[t] # Dead
      /\ \A u \in Threads : u # t => thread'[u] = thread[u]
  BY <1>1, EndOfPoll
<1>5. \A u \in Threads : thread'[u].at \in Busy => thread'[u] = thread[u] /\ u # t
  BY <1>4
<1>6. PoolInv'
  BY <1>1, <1>2, <1>3, <1>4, PoolFrame
<1>7. CASE holder[g] = t /\ Head1(g) = m
  <2>1. t # NoThread
    BY QueueParameters
  <2>2. queue[g] # <<>>
    BY <1>1, <1>3, <1>7, <2>1 DEF QueueInv
  <2>3. RemoveHead(g, o) /\ o \in {"done", "rejected"}
    BY <1>7 DEF Delete
  <2> HIDE DEF o
  <2>4. /\ QueueInv'
        /\ queue' \in [Groups -> Seq(Messages)]
        /\ holder' \in [Groups -> Threads \cup {NoThread}]
        /\ outcome' \in [Messages -> Outcomes]
        /\ outcome'[m] = o
        /\ \A n \in Messages : n # m => outcome'[n] = outcome[n]
        /\ \A h \in Groups : h # g => queue'[h] = queue[h] /\ holder'[h] = holder[h]
    BY <1>1, <1>3, <1>7, <2>2, <2>3, HeadRemoved
  <2>5. UNCHANGED <<kind, receives, published>>
    BY <2>3 DEF RemoveHead
  <2>6. TypeOK'
    BY <1>1, <1>2, <1>4, <2>4, <2>5 DEF TypeOK, Outcomes
  <2>7. MessageInv'
    <3>1. kind[m] = "event" => succeeded[m] > 0
      BY <1>1 DEF WorkInv
    <3>2. kind[m] \in Kinds
      BY <1>1, <1>3 DEF WorkInv, MessageInv
    <3>3. /\ outcome'[m] # "unsent"
          /\ outcome'[m] = "done" => succeeded[m] > 0
          /\ outcome'[m] = "rejected" => kind[m] # "event"
      BY <2>3, <2>4, <3>1 DEF o
    <3> QED
      BY <1>1, <1>2, <2>4, <2>5, <3>2, <3>3 DEF MessageInv
  <2>8. WorkInv'
    BY <1>1, <1>2, <1>3, <1>5, <2>2, <2>3, WorkAfterRemoval
  <2>9. OnceInv'
    <3> SUFFICES ASSUME faults = 0 PROVE OnceInv'
      BY <1>2 DEF OnceInv
    <3>1. ASSUME NEW u \in Threads, thread'[u].at \in Busy
          PROVE  /\ holder'[GroupOf[thread'[u].msg]] = u /\ outcome'[thread'[u].msg] = "pending"
                 /\ thread'[u].at = "handling" => succeeded[thread'[u].msg] = 0
      <4>1. thread'[u] = thread[u] /\ thread[u].at \in Busy /\ u # t
        BY <1>5, <3>1
      <4>2. thread[u].msg \in Messages /\ GroupOf[thread[u].msg] \in Groups
        BY <1>1, <4>1, BusyThread
      <4>3. /\ holder[GroupOf[thread[u].msg]] = u /\ outcome[thread[u].msg] = "pending"
            /\ thread[u].at = "handling" => succeeded[thread[u].msg] = 0
        BY <1>1, <4>1 DEF OnceInv
      <4>4. GroupOf[thread[u].msg] # g /\ thread[u].msg # m
        BY <1>7, <4>1, <4>3
      <4> QED
        BY <2>4, <4>1, <4>2, <4>3, <4>4
    <3>2. ASSUME NEW n \in Messages
          PROVE  /\ succeeded[n] <= 1
                 /\ outcome'[n] = "pending" /\ succeeded[n] > 0 =>
                       \E u \in Threads : thread'[u].at = "deleting" /\ thread'[u].msg = n
      <4>1. outcome'[n] = "pending" => n # m /\ outcome[n] = "pending"
        BY <2>3, <2>4
      <4>2. \A u \in Threads : thread[u].msg = n /\ n # m => thread'[u] = thread[u]
        BY <1>4
      <4> QED
        BY <1>1, <4>1, <4>2 DEF OnceInv
    <3> QED
      BY <1>2, <3>1, <3>2 DEF OnceInv, Busy
  <2> QED
    BY <1>6, <2>4, <2>6, <2>7, <2>8, <2>9 DEF IInv
<1>8. CASE ~(holder[g] = t /\ Head1(g) = m)
  <2>1. UNCHANGED <<kind, queue, holder, receives, published, outcome>>
    BY <1>8 DEF Delete, sqs
  <2>2. TypeOK'
    BY <1>1, <1>2, <1>4, <2>1 DEF TypeOK
  <2>3. QueueInv'
    BY <1>1, <2>1, QueueFrame DEF QueueInv
  <2>4. MessageInv'
    BY <1>1, <1>2, <2>1 DEF MessageInv
  <2>5. WorkInv'
    BY <1>1, <1>2, <1>5, <2>1, WorkFrame
  <2>6. faults # 0
    BY <1>1, <1>8 DEF OnceInv, WorkInv
  <2>7. OnceInv'
    BY <1>2, <2>6 DEF OnceInv
  <2> QED
    BY <1>6, <2>2, <2>3, <2>4, <2>5, <2>7 DEF IInv
<1> QED
  BY <1>7, <1>8

-----------------------------------------------------------------------------
(* Every action preserves the invariant: IdeaThreadpoolService *)

\* No thread receives, finishes or loses a message.
LEMMA MessagesFrame ==
    ASSUME QueueInv, MessageInv, WorkInv, UNCHANGED <<sqs, succeeded>>,
           \A u \in Threads : thread'[u].at \in Busy => thread'[u] = thread[u]
    PROVE  QueueInv' /\ MessageInv' /\ WorkInv'
<1>1. UNCHANGED <<kind, queue, holder, receives, published, outcome, succeeded>>
  BY DEF sqs
<1>2. QueueInv'
  BY <1>1, QueueFrame DEF QueueInv
<1>3. MessageInv'
  BY <1>1 DEF MessageInv
<1>4. WorkInv'
  BY <1>1, WorkFrame
<1> QED
  BY <1>2, <1>3, <1>4

\* stop() and the start of a new controller touch no message.
LEMMA StopAndStartStep ==
    ASSUME IInv,
           \/ StopPool \/ StopEnds \/ Start
           \/ \E t \in Threads : StopThread(t)
    PROVE  IInv'
<1>1. /\ TypeOK /\ PoolInv /\ QueueInv /\ MessageInv /\ WorkInv /\ OnceInv
      /\ UNCHANGED <<sqs, succeeded, thread, faults>>
  BY DEF IInv, StopPool, StopEnds, Start, StopThread
<1>2. QueueInv' /\ MessageInv' /\ WorkInv' /\ OnceInv'
  BY <1>1, MessagesFrame, OnceFrame DEF sqs
<1>3. TypeOK'
  <2>1. /\ exit' \subseteq Threads /\ all' \subseteq Threads /\ toStop' \subseteq Threads
        /\ active' \in Seq(Threads) /\ service' \in {"starting", "running", "stopping", "stopped"}
    <3>1. CASE StopPool
      BY <1>1, <3>1 DEF TypeOK, StopPool
    <3>2. CASE StopEnds
      BY <1>1, <3>2 DEF TypeOK, StopEnds
    <3>3. CASE Start
      BY <1>1, <3>3, EmptySeq DEF TypeOK, Start
    <3>4. CASE \E t \in Threads : StopThread(t)
      BY <1>1, <3>4 DEF TypeOK, StopThread
    <3> QED
      BY <3>1, <3>2, <3>3, <3>4
  <2>2. stops' \in 0..MaxStops
    BY <1>1, QueueParameters DEF TypeOK, StopPool, StopEnds, Start, StopThread
  <2> QED
    BY <1>1, <2>1, <2>2 DEF TypeOK, sqs
<1>4. PoolInv'
  <2>1. CASE StopPool
    BY <1>1, <2>1 DEF PoolInv, StopPool, Alive
  <2>2. CASE StopEnds
    BY <1>1, <2>2 DEF PoolInv, StopEnds, Alive
  <2>3. CASE Start
    <3>1. Len(active') = 0 /\ Cardinality(all') = 0 /\ MaxThreads \in Nat
      BY <2>3, EmptySeq, FS_EmptySet, QueueParameters DEF Start
    <3> QED
      BY <1>1, <2>3, <3>1 DEF PoolInv, Start, Alive
  <2>4. CASE \E t \in Threads : StopThread(t)
    BY <1>1, <2>4 DEF PoolInv, StopThread, Alive
  <2> QED
    BY <2>1, <2>2, <2>3, <2>4
<1> QED
  BY <1>2, <1>3, <1>4 DEF IInv

\* The process dies: no thread is alive, and that was a fault.
LEMMA CrashStep ==
    ASSUME IInv, Crash
    PROVE  IInv'
<1>1. /\ TypeOK /\ PoolInv /\ QueueInv /\ MessageInv /\ WorkInv
      /\ UNCHANGED <<sqs, succeeded, exit, all, active, stops>>
      /\ service' = "stopped" /\ toStop' = {} /\ faults' = faults + 1 /\ faults < MaxFaults
      /\ thread' = [u \in Threads |-> Dead]
  BY DEF IInv, Crash
<1>2. Dead \in ThreadStates /\ Dead.at \notin Busy
  BY DEF Dead, ThreadStates, Busy
<1>3. /\ thread' \in [Threads -> ThreadStates]
      /\ \A u \in Threads : thread'[u] = Dead /\ thread'[u].at \notin Busy
  BY <1>1, <1>2
<1>4. faults' \in 0..MaxFaults /\ faults' # 0
  BY <1>1, QueueParameters DEF TypeOK
<1>5. TypeOK'
  BY <1>1, <1>3, <1>4 DEF TypeOK, sqs
<1>6. PoolInv'
  BY <1>1, <1>3 DEF PoolInv, Alive
<1>7. QueueInv' /\ MessageInv' /\ WorkInv'
  BY <1>1, <1>3, MessagesFrame
<1> QED
  BY <1>4, <1>5, <1>6, <1>7 DEF IInv, OnceInv

\* calculate_number_of_threads_required stays between the two limits.
LEMMA RequiredBounds ==
    ASSUME NEW n \in Nat
    PROVE  /\ Required(n) \in Nat
           /\ MinThreads <= Required(n) /\ Required(n) <= MaxThreads
<1>1. MinThreads \in Nat /\ MaxThreads \in Nat /\ MinThreads <= MaxThreads
  BY QueueParameters
<1>2. MessageCountPerThread \in Nat \ {0}
  BY QueueParameters
<1> DEFINE wanted == (n + MessageCountPerThread - 1) \div MessageCountPerThread
<1>3. wanted \in Int
  BY <1>2
<1>4. Required(n) = LET atLeast == IF wanted > MinThreads THEN wanted ELSE MinThreads
                    IN  IF atLeast < MaxThreads THEN atLeast ELSE MaxThreads
  BY DEF Required
<1> HIDE DEF wanted
<1> QED
  BY <1>1, <1>3, <1>4

\* SetToSeq lists a finite set without repetition.
LEMMA Listing ==
    ASSUME NEW S, IsFiniteSet(S)
    PROVE  /\ SetToSeq(S) \in [1..Cardinality(S) -> S]
           /\ \A i, j \in 1..Cardinality(S) : SetToSeq(S)[i] = SetToSeq(S)[j] => i = j
<1>1. \E f \in [1..Cardinality(S) -> S] : IsInjective(f)
  BY FS_CardinalityType DEF ExistsBijection, Bijection, Injection
<1>2. SetToSeq(S) \in [1..Cardinality(S) -> S] /\ IsInjective(SetToSeq(S))
  BY <1>1 DEF SetToSeq
<1> QED
  BY <1>2 DEF IsInjective

\* The first elements of a list without repetition.
LEMMA Prefix ==
    ASSUME NEW S, NEW n \in Nat, NEW f \in [1..n -> S], NEW k \in Nat, k <= n, 1 <= k,
           \A i, j \in 1..n : f[i] = f[j] => i = j
    PROVE  /\ SubSeq(f, 1, k) \in Seq(S) /\ Len(SubSeq(f, 1, k)) = k
           /\ DOMAIN SubSeq(f, 1, k) = 1..k
           /\ \A i \in 1..k : SubSeq(f, 1, k)[i] \in S
           /\ \A i, j \in 1..k : SubSeq(f, 1, k)[i] = SubSeq(f, 1, k)[j] => i = j
<1>1. \A i \in 1..k : f[i] \in S
  OBVIOUS
<1>2. /\ SubSeq(f, 1, k) \in Seq(S) /\ Len(SubSeq(f, 1, k)) = k
      /\ \A i \in 1..k : SubSeq(f, 1, k)[i] = f[i]
  BY <1>1
<1>3. DOMAIN SubSeq(f, 1, k) = 1..k
  BY <1>2, LenProperties
<1> QED
  BY <1>1, <1>2, <1>3

\* The threads _enforce_thread_count starts: as many as are missing, all
\* different, none of them known.
LEMMA NewThreads ==
    ASSUME NEW known \in SUBSET Threads, NEW count \in Nat,
           count <= Cardinality(Threads), Cardinality(known) < count
    PROVE  LET new == SubSeq(SetToSeq(Threads \ known), 1, count - Cardinality(known))
           IN  /\ new \in Seq(Threads) /\ Len(new) = count - Cardinality(known)
               /\ \A i \in 1..Len(new) : new[i] \in Threads \ known
               /\ \A i, j \in 1..Len(new) : new[i] = new[j] => i = j
               /\ Cardinality(known \cup Range(new)) <= count
<1> DEFINE S == Threads \ known
           k == count - Cardinality(known)
           new == SubSeq(SetToSeq(S), 1, k)
<1>1. IsFiniteSet(Threads) /\ IsFiniteSet(known) /\ IsFiniteSet(S)
  BY QueueParameters, FS_Subset, FS_Difference
<1>2. Cardinality(Threads) \in Nat /\ Cardinality(known) \in Nat /\ Cardinality(S) \in Nat
  BY <1>1, FS_CardinalityType
<1>3. k \in Nat /\ 1 <= k /\ k <= Cardinality(S)
  <2>1. Threads \cap known = known
    OBVIOUS
  <2>2. Cardinality(S) = Cardinality(Threads) - Cardinality(known)
    BY <1>1, <2>1, FS_Difference
  <2> QED
    BY <1>2, <2>2
<1>4. /\ SetToSeq(S) \in [1..Cardinality(S) -> S]
      /\ \A i, j \in 1..Cardinality(S) : SetToSeq(S)[i] = SetToSeq(S)[j] => i = j
  BY <1>1, Listing
<1> HIDE DEF k
<1>5. /\ new \in Seq(S) /\ Len(new) = k /\ DOMAIN new = 1..k
      /\ \A i \in 1..k : new[i] \in S
      /\ \A i, j \in 1..k : new[i] = new[j] => i = j
  <2>1. PICK f \in [1..Cardinality(S) -> S] :
            /\ f = SetToSeq(S)
            /\ \A i, j \in 1..Cardinality(S) : f[i] = f[j] => i = j
    BY <1>4
  <2> HIDE DEF S
  <2>2. /\ SubSeq(f, 1, k) \in Seq(S) /\ Len(SubSeq(f, 1, k)) = k
        /\ DOMAIN SubSeq(f, 1, k) = 1..k
        /\ \A i \in 1..k : SubSeq(f, 1, k)[i] \in S
        /\ \A i, j \in 1..k : SubSeq(f, 1, k)[i] = SubSeq(f, 1, k)[j] => i = j
    BY <1>2, <1>3, <2>1, Prefix
  <2>3. new = SubSeq(f, 1, k)
    BY <2>1
  <2> HIDE DEF new
  <2> QED
    BY <2>2, <2>3
<1>6. new \in Seq(Threads)
  <2>1. S \subseteq Threads
    OBVIOUS
  <2> HIDE DEF S
  <2> QED
    BY <1>5, <2>1
<1> HIDE DEF new
<1>10. IsFiniteSet(Range(new)) /\ Cardinality(Range(new)) <= k
  <2>1. new \in Surjection(1..k, Range(new))
    BY <1>5 DEF Range, Surjection
  <2>2. IsFiniteSet(1..k) /\ Cardinality(1..k) = k
    BY <1>3, FS_Interval
  <2> QED
    BY <2>1, <2>2, FS_Surjection
<1>11. Cardinality(known \cup Range(new)) <= count
  <2>1. known \cap Range(new) = {}
    BY <1>5 DEF Range
  <2>2. Cardinality(known \cup Range(new)) = Cardinality(known) + Cardinality(Range(new)) - 0
    BY <1>1, <1>10, <2>1, FS_Union, FS_EmptySet
  <2>3. Cardinality(Range(new)) \in Nat
    BY <1>10, FS_CardinalityType
  <2> QED
    BY <1>2, <1>10, <2>2, <2>3 DEF k
<1> QED
  BY <1>5, <1>6, <1>11 DEF k, new

\* _enforce_thread_count, after _cleanup_inactive_threads: whether it leaves
\* the pool alone, tells the surplus to exit or starts what is missing, the
\* threads it counts on serve and are at least the minimum.
LEMMA AdjustStep ==
    ASSUME IInv, AdjustThreadCounts
    PROVE  IInv'
<1>1. /\ TypeOK /\ PoolInv /\ QueueInv /\ MessageInv /\ WorkInv /\ OnceInv
      /\ service \in {"starting", "running"} /\ service' = "running"
      /\ UNCHANGED <<sqs, succeeded, toStop, faults, stops>>
  BY DEF IInv, AdjustThreadCounts
<1>2. PICK n \in Nat : Enforce(Cleaned, Required(n))
  BY DEF AdjustThreadCounts
<1> DEFINE known == Cleaned
           count == Required(n)
           new == SubSeq(SetToSeq(Threads \ known), 1, count - Cardinality(known))
<1>3. /\ count \in Nat /\ MinThreads <= count /\ count <= MaxThreads
      /\ MinThreads \in Nat \ {0} /\ MaxThreads \in Nat /\ MaxThreads <= Cardinality(Threads)
      /\ Cardinality(Threads) \in Nat /\ IsFiniteSet(Threads)
  BY RequiredBounds, QueueParameters, FS_CardinalityType
<1>4. /\ known \subseteq Threads /\ known \subseteq all
      /\ \A u \in Threads : u \in known <=> Alive(u)
  BY <1>1 DEF Cleaned, TypeOK, PoolInv
<1>5. /\ Cardinality(known) \in Nat /\ Cardinality(known) <= MaxThreads
  <2>1. IsFiniteSet(all) /\ IsFiniteSet(known)
    BY <1>1, <1>3, <1>4, FS_Subset DEF TypeOK
  <2>2. /\ Cardinality(known) \in Nat /\ Cardinality(all) \in Nat
        /\ Cardinality(known) <= Cardinality(all) /\ Cardinality(all) <= MaxThreads
    BY <1>1, <1>4, <2>1, FS_Subset, FS_CardinalityType DEF PoolInv
  <2> QED
    BY <1>3, <2>2
<1>6. /\ active \in Seq(Threads) /\ Len(active) \in Nat
      /\ \A i \in 1..Len(active) : active[i] \in Threads /\ active[i] \in known /\ active[i] \notin exit
      /\ \A i, j \in 1..Len(active) : active[i] = active[j] => i = j
  BY <1>1, <1>4, LenProperties, ElementOfSeq DEF TypeOK, PoolInv, Serves
<1>7. /\ service = "running" => Len(active) >= MinThreads
      /\ service = "starting" => Cardinality(known) = 0
  BY <1>1, <1>4, FS_EmptySet DEF PoolInv, Cleaned
<1>8. \A u \in Threads : thread[u] \in ThreadStates
  BY <1>1 DEF TypeOK
<1> HIDE DEF known, count, new
\* What every case of _enforce_thread_count has to show
<1> DEFINE Adjusted ==
               /\ exit' \subseteq Threads /\ all' \subseteq Threads /\ active' \in Seq(Threads)
               /\ thread' \in [Threads -> ThreadStates]
               /\ \A u \in Threads : thread'[u].at \in Busy \/ thread[u].at = "deleting"
                                        => thread'[u] = thread[u]
               /\ {u \in Threads : thread'[u] # Dead} \subseteq all'
               /\ Cardinality(all') <= MaxThreads
               /\ \A i \in 1..Len(active') :
                     /\ active'[i] \in all' /\ active'[i] \notin exit'
                     /\ thread'[active'[i]] # Dead
               /\ \A i, j \in 1..Len(active') : active'[i] = active'[j] => i = j
               /\ Len(active') >= MinThreads
<1>9. ASSUME Cardinality(known) = count \/ (Cardinality(known) > count /\ Len(active) <= count),
             UNCHANGED <<active, exit, thread>>, all' = known
      PROVE  Adjusted
  <2>1. Len(active) >= MinThreads
    BY <1>1, <1>3, <1>7, <1>9
  <2> QED
    BY <1>1, <1>4, <1>5, <1>6, <1>9, <2>1 DEF TypeOK, Alive
<1>10. ASSUME Cardinality(known) > count, Len(active) > count,
              active' = SubSeq(active, 1, count),
              exit' = exit \cup {active[i] : i \in (count + 1)..Len(active)},
              all' = known, thread' = thread
       PROVE  Adjusted
  <2>1. /\ active' \in Seq(Threads) /\ Len(active') = count
        /\ \A i \in 1..count : active'[i] = active[i]
    BY <1>3, <1>6, <1>10, SubSeqProperties
  <2>2. \A i, j \in 1..count : active'[i] = active'[j] => i = j
    BY <1>3, <1>6, <1>10, <2>1
  <2>3. ASSUME NEW i \in 1..count
        PROVE  /\ active[i] \in known /\ active[i] \in Threads /\ active[i] \notin exit'
    <3>1. i \in 1..Len(active) /\ \A j \in (count + 1)..Len(active) : j \in 1..Len(active) /\ j # i
      BY <1>3, <1>6, <1>10
    <3>2. \A j \in (count + 1)..Len(active) : active[j] # active[i]
      BY <1>6, <3>1
    <3> QED
      BY <1>6, <1>10, <3>1, <3>2
  <2>4. exit' \subseteq Threads
    BY <1>1, <1>3, <1>6, <1>10 DEF TypeOK
  <2>5. \A i \in 1..count : active'[i] \in all' /\ active'[i] \notin exit' /\ thread'[active'[i]] # Dead
    BY <1>4, <1>10, <2>1, <2>3 DEF Alive
  <2>6. {u \in Threads : thread'[u] # Dead} \subseteq all' /\ thread' \in [Threads -> ThreadStates]
    BY <1>1, <1>4, <1>10 DEF Alive, TypeOK
  <2>7. all' \subseteq Threads /\ Cardinality(all') <= MaxThreads
    BY <1>4, <1>5, <1>10
  <2> QED
    BY <1>3, <1>10, <2>1, <2>2, <2>4, <2>5, <2>6, <2>7
<1>11. ASSUME Cardinality(known) < count,
              all' = known \cup Range(new), active' = active \o new, exit' = exit \ Range(new),
              thread' = [u \in Threads |-> IF u \in Range(new) THEN [at |-> "polling"]
                                           ELSE thread[u]]
       PROVE  Adjusted
  <2>1. /\ new \in Seq(Threads) /\ Len(new) = count - Cardinality(known)
        /\ \A i \in 1..Len(new) : new[i] \in Threads \ known
        /\ \A i, j \in 1..Len(new) : new[i] = new[j] => i = j
        /\ Cardinality(known \cup Range(new)) <= count
    <3>1. count <= Cardinality(Threads)
      BY <1>3
    <3> QED
      BY <1>3, <1>4, <1>11, <3>1, NewThreads DEF new
  <2>2. Len(new) \in Nat /\ DOMAIN new = 1..Len(new)
    BY <2>1, LenProperties
  <2>3. Range(new) \subseteq Threads \ known /\ \A i \in 1..Len(new) : new[i] \in Range(new)
    BY <2>1, <2>2 DEF Range
  <2>4. [at |-> "polling"] \in ThreadStates /\ [at |-> "polling"] # Dead /\ [at |-> "polling"].at \notin Busy
    BY DEF ThreadStates, Dead, Busy
  <2>5. /\ thread' \in [Threads -> ThreadStates]
        /\ \A u \in Range(new) : thread'[u] # Dead /\ thread'[u].at \notin Busy /\ ~Alive(u)
        /\ \A u \in Threads \ Range(new) : thread'[u] = thread[u]
    BY <1>4, <1>8, <1>11, <2>3, <2>4
  <2>6. \A u \in Threads : thread'[u].at \in Busy \/ thread[u].at = "deleting" => thread'[u] = thread[u]
    <3>1. \A u \in Threads : thread[u].at = "deleting" => Alive(u)
      BY DEF Alive, Dead
    <3> QED
      BY <2>5, <3>1
  <2>7. {u \in Threads : thread'[u] # Dead} \subseteq all'
    BY <1>4, <1>11, <2>5 DEF Alive
  <2>8. /\ active' \in Seq(Threads) /\ Len(active') = Len(active) + Len(new)
        /\ \A i \in 1..(Len(active) + Len(new)) :
              active'[i] = IF i <= Len(active) THEN active[i] ELSE new[i - Len(active)]
    <3>1. /\ active \o new \in Seq(Threads) /\ Len(active \o new) = Len(active) + Len(new)
          /\ \A i \in 1..(Len(active) + Len(new)) :
                (active \o new)[i] = IF i <= Len(active) THEN active[i] ELSE new[i - Len(active)]
      <4>1. active \in Seq(Threads) /\ new \in Seq(Threads)
        BY <1>6, <2>1
      <4> QED
        BY ONLY <4>1, ConcatProperties
    <3> QED
      BY <1>11, <3>1
  <2>9. ASSUME NEW i \in 1..Len(active')
        PROVE  /\ active'[i] \in all' /\ active'[i] \notin exit' /\ thread'[active'[i]] # Dead
               /\ i <= Len(active) => active'[i] \in known /\ active'[i] = active[i]
               /\ i > Len(active) => active'[i] \notin known /\ active'[i] = new[i - Len(active)]
    <3>1. CASE i <= Len(active)
      <4>1. i \in 1..Len(active) /\ active'[i] = active[i]
        BY <1>6, <2>2, <2>8, <3>1
      <4>2. active[i] \in known /\ active[i] \notin exit /\ active[i] \in Threads \ Range(new)
        BY <1>6, <2>3, <4>1
      <4>3. thread[active[i]] # Dead
        BY <1>4, <4>2 DEF Alive
      <4> QED
        BY <1>6, <1>11, <2>5, <3>1, <4>1, <4>2, <4>3
    <3>2. CASE ~(i <= Len(active))
      <4>1. i - Len(active) \in 1..Len(new) /\ active'[i] = new[i - Len(active)]
        BY <1>6, <2>2, <2>8, <3>2
      <4>2. active'[i] \in Range(new) /\ active'[i] \notin known
        BY <2>1, <2>3, <4>1
      <4> QED
        BY <1>6, <1>11, <2>5, <3>2, <4>1, <4>2
    <3> QED
      BY <3>1, <3>2
  <2>10. ASSUME NEW i \in 1..Len(active'), NEW j \in 1..Len(active'), active'[i] = active'[j]
         PROVE  i = j
    <3>1. Len(active') \in Nat /\ i \in Nat /\ j \in Nat /\ 1 <= i /\ 1 <= j
      BY <1>6, <2>2, <2>8
    <3>2. i <= Len(active) <=> j <= Len(active)
      BY <1>6, <2>9, <2>10, <3>1
    <3>3. CASE i <= Len(active)
      BY <1>6, <2>9, <2>10, <3>1, <3>2, <3>3
    <3>4. CASE ~(i <= Len(active))
      <4>1. /\ i - Len(active) \in 1..Len(new) /\ j - Len(active) \in 1..Len(new)
            /\ new[i - Len(active)] = new[j - Len(active)]
        BY <1>6, <2>2, <2>8, <2>9, <2>10, <3>1, <3>2, <3>4
      <4>2. i - Len(active) = j - Len(active)
        BY <2>1, <4>1
      <4> QED
        BY <1>6, <3>1, <4>2
    <3> QED
      BY <3>3, <3>4
  <2>11. Len(active') >= MinThreads
    BY <1>1, <1>3, <1>5, <1>6, <1>7, <1>11, <2>1, <2>8
  <2>12. exit' \subseteq Threads /\ all' \subseteq Threads
    BY <1>1, <1>4, <1>11, <2>3 DEF TypeOK
  <2>13. Cardinality(all') <= MaxThreads
    <3>1. IsFiniteSet(all') /\ Cardinality(all') \in Nat
      BY <1>3, <2>12, FS_Subset, FS_CardinalityType
    <3> QED
      BY <1>3, <1>11, <2>1, <3>1
  <2> QED
    BY <2>5, <2>6, <2>7, <2>8, <2>9, <2>10, <2>11, <2>12, <2>13
<1>12. Adjusted
  <2>1. Enforce(known, count)
    BY <1>2 DEF known, count
  <2> HIDE DEF Adjusted
  <2> QED
    BY <1>9, <1>10, <1>11, <2>1 DEF Enforce, new
<1>13. TypeOK'
  BY <1>1, <1>12 DEF TypeOK, sqs
<1>14. PoolInv'
  BY <1>1, <1>12 DEF PoolInv, Serves, Alive
<1>15. QueueInv' /\ MessageInv' /\ WorkInv'
  BY <1>1, <1>12, MessagesFrame
<1>16. OnceInv'
  BY <1>1, <1>12, OnceFrame DEF sqs
<1> QED
  BY <1>13, <1>14, <1>15, <1>16 DEF IInv

-----------------------------------------------------------------------------
(* The theorems *)

\* A controller that has not yet started, and an empty queue.
LEMMA InitEstablishesInvariant == Init => IInv
<1> SUFFICES ASSUME Init PROVE IInv
  OBVIOUS
<1>1. Dead \in ThreadStates /\ Dead.at \notin Busy
  BY DEF Dead, ThreadStates, Busy
<1>2. \A u \in Threads : thread[u] = Dead /\ thread[u].at \notin Busy
  BY <1>1 DEF Init
<1>3. /\ MaxReceiveCount \in Nat /\ MaxFaults \in Nat /\ MaxStops \in Nat /\ MaxThreads \in Nat
      /\ <<>> \in Seq(Messages) /\ <<>> \in Seq(Threads) /\ Len(<<>>) = 0
  BY QueueParameters, EmptySeq
<1>4. TypeOK
  BY <1>1, <1>3 DEF Init, TypeOK
<1>5. PoolInv
  BY <1>2, <1>3, FS_EmptySet DEF Init, PoolInv, Alive
<1>6. QueueInv
  BY <1>3 DEF Init, QueueInv, IsRest
<1>7. MessageInv /\ WorkInv /\ OnceInv
  BY <1>2 DEF Init, MessageInv, WorkInv, OnceInv, Busy
<1> QED
  BY <1>4, <1>5, <1>6, <1>7 DEF IInv

\* Every step, and a step that changes nothing, preserves the invariant.
LEMMA NextPreservesInvariant ==
    ASSUME IInv, [Next]_vars
    PROVE  IInv'
<1>1. CASE Next
  <2>1. CASE \E m \in Messages : Publish(m)
    BY <2>1, PublishStep
  <2>2. CASE \E g \in Groups : Redeliver(g) \/ TimeoutWhileBusy(g) \/ DeadLetter(g)
    BY <2>2, RedeliverStep, DeadLetterStep
  <2>3. ASSUME NEW t \in Threads, ThreadStep(t)
        PROVE  IInv'
    BY <2>3, EmptyHandedStep, ReceiveStep, HandlerReturnsStep, HandlerRejectsStep, DeleteStep
       DEF ThreadStep
  <2>4. CASE AdjustThreadCounts
    BY <2>4, AdjustStep
  <2>5. CASE StopPool \/ StopEnds \/ Start \/ \E t \in Threads : StopThread(t)
    BY <2>5, StopAndStartStep
  <2>6. CASE Crash
    BY <2>6, CrashStep
  <2> QED
    BY <1>1, <2>1, <2>2, <2>3, <2>4, <2>5, <2>6 DEF Next
<1>2. CASE UNCHANGED vars
  <2>1. UNCHANGED <<kind, queue, holder, receives, published, outcome, succeeded, thread, exit, all,
                    active, service, toStop, faults, stops>>
    BY <1>2 DEF vars, sqs, pool
  <2>2. TypeOK' /\ PoolInv' /\ QueueInv'
    BY <2>1, PoolFrame, QueueFrame DEF IInv, TypeOK, QueueInv
  <2>3. MessageInv' /\ WorkInv' /\ OnceInv'
    BY <2>1, WorkFrame, OnceFrame DEF IInv, MessageInv
  <2> QED
    BY <2>2, <2>3 DEF IInv
<1> QED
  BY <1>1, <1>2

\* The invariant holds in every state of every execution.
THEOREM InvariantHolds == Spec => []IInv
  BY InitEstablishesInvariant, NextPreservesInvariant, PTL DEF Spec

\* The state of the queue and of the pool keeps its type.
THEOREM TypeCorrect == Spec => []TypeOK
  BY InvariantHolds, PTL DEF IInv

\* stop() never misses a living thread, and there are never more than the
\* maximum, although a thread told to exit lives on until its poll ends
\* (_all_threads against _active_threads).
THEOREM LiveThreadsKnown == Spec => []LiveThreadsAreKnown
<1>1. IInv => LiveThreadsAreKnown
  BY DEF IInv, PoolInv, LiveThreadsAreKnown
<1> QED
  BY <1>1, InvariantHolds, PTL

\* After the first adjustment at least the minimum of threads is alive and not
\* told to exit, in every order of adjustments, exits and messages
\* (_enforce_thread_count).
THEOREM MinimumServes == Spec => []MinThreadsServe
<1>1. IInv => MinThreadsServe
  <2> SUFFICES ASSUME IInv, service = "running"
               PROVE  Cardinality({t \in all : Alive(t) /\ t \notin exit}) >= MinThreads
    BY DEF MinThreadsServe
  <2> DEFINE S == {t \in all : Alive(t) /\ t \notin exit}
             n == Len(active)
  <2>1. /\ active \in Seq(Threads) /\ n \in Nat /\ DOMAIN active = 1..n
        /\ \A i \in 1..n : active[i] \in S
        /\ \A i, j \in 1..n : active[i] = active[j] => i = j
        /\ n >= MinThreads
    BY LenProperties DEF IInv, TypeOK, PoolInv, Serves
  <2>2. IsFiniteSet(S) /\ Cardinality(S) \in Nat
    <3>1. S \subseteq Threads /\ IsFiniteSet(Threads)
      BY QueueParameters DEF IInv, TypeOK
    <3> QED
      BY <3>1, FS_Subset, FS_CardinalityType
  <2>3. active = [i \in 1..n |-> active[i]]
    BY <2>1
  <2> HIDE DEF S, n
  <2>4. active \in Injection(1..n, S)
    BY <2>1, <2>3 DEF Injection, IsInjective
  <2>5. Cardinality(1..n) = n
    BY <2>1, FS_Interval
  <2>6. Cardinality(1..n) <= Cardinality(S)
    BY <2>2, <2>4, FS_Injection
  <2>7. MinThreads \in Nat
    BY QueueParameters
  <2> QED
    BY <2>1, <2>2, <2>5, <2>6, <2>7 DEF S
<1> QED
  BY <1>1, InvariantHolds, PTL

\* Without a crash and without a visibility timeout that a handler outlives no
\* event is carried out twice, however the pool is scaled or stopped
\* (_monitor_queue, poll_and_process_queue).
THEOREM ExactlyOnce == Spec => []ExactlyOnceWithoutFaults
<1>1. IInv => ExactlyOnceWithoutFaults
  BY DEF IInv, OnceInv, ExactlyOnceWithoutFaults
<1> QED
  BY <1>1, InvariantHolds, PTL

-----------------------------------------------------------------------------
(* The refinement *)

\* The oldest message of a group is the next of its group: what was published
\* before it is settled.
LEMMA OldestIsNext ==
    ASSUME IInv, NEW m \in Messages, queue[GroupOf[m]] # <<>>, Head1(GroupOf[m]) = m
    PROVE  Delivery!IsNext(m)
<1> DEFINE g == GroupOf[m]
           p == published[g]
           q == queue[g]
<1>1. /\ TypeOK /\ g \in Groups /\ q \in Seq(Messages) /\ p \in Seq(Messages)
      /\ outcome \in [Messages -> Outcomes] /\ IsRest(q, p, outcome, g)
      /\ q # <<>> /\ q[1] = m
  BY QueueParameters DEF IInv, TypeOK, Outcomes, QueueInv, Head1
<1>2. /\ Len(p) \in Nat /\ Len(q) \in Nat /\ DOMAIN p = 1..Len(p)
      /\ \A i \in 1..Len(p) : p[i] \in Messages
  BY <1>1, LenProperties, ElementOfSeq
<1>3. Len(p) - Len(q) + 1 \in 1..Len(p) /\ m = p[Len(p) - Len(q) + 1]
  BY <1>1, RestHead
<1> SUFFICES ASSUME NEW i \in 1..Len(p), p[i] = m, NEW j \in 1..(i - 1)
             PROVE  Delivery!Settled(p[j])
  BY <1>2 DEF Delivery!IsNext
<1> HIDE DEF p, q, g
<1>4. i = Len(p) - Len(q) + 1
  BY <1>1, <1>3 DEF IsRest
<1>5. j \in 1..Len(p) /\ ~(j > Len(p) - Len(q))
  BY <1>2, <1>3, <1>4
<1>6. p[j] \in Messages /\ outcome[p[j]] # "unsent" /\ outcome[p[j]] # "pending"
  BY <1>1, <1>2, <1>5 DEF IsRest
<1> QED
  BY <1>1, <1>6 DEF Delivery!Settled, Outcomes

\* The queue and its threads implement OrderedDelivery, faults included: the
\* events of a group take effect in the order they were published, none is
\* deleted as done before a handler carried it out, and one that a handler
\* carried out is never settled as rejected.
THEOREM Refinement == Spec => ImplementsOrderedDelivery
<1> DEFINE acted == {m \in Messages : succeeded[m] > 0}
<1>1. Init => Delivery!Init
  BY DEF Init, Delivery!Init
<1>2. ASSUME IInv, IInv', [Next]_vars
      PROVE  [Delivery!Next]_(Delivery!vars)
  <2>1. ASSUME NEW m \in Messages, Publish(m)
        PROVE  Delivery!Next
    BY <2>1 DEF Publish, Delivery!Next, Delivery!Publish
  <2>2. ASSUME NEW g \in Groups, DeadLetter(g)
        PROVE  Delivery!Next
    <3> DEFINE m == Head1(g)
    <3>1. queue[g] # <<>> /\ RemoveHead(g, "given_up") /\ succeeded' = succeeded
      BY <2>2 DEF DeadLetter, Visible
    <3>2. m \in Messages /\ GroupOf[m] = g /\ outcome[m] = "pending"
      BY <1>2, <3>1, OldestMessage DEF IInv
    <3>3. Delivery!IsNext(m)
      BY <1>2, <3>1, <3>2, OldestIsNext
    <3>4. Delivery!Settle(m, "given_up")
      BY <3>1, <3>2, <3>3 DEF Delivery!Settle, RemoveHead
    <3> QED
      BY <3>2, <3>4 DEF Delivery!Next
  <2>3. ASSUME NEW t \in Threads, HandlerReturns(t)
        PROVE  Delivery!Next \/ UNCHANGED Delivery!vars
    <3> DEFINE m == thread[t].msg
    <3>1. /\ thread[t].at = "handling" /\ thread[t].at \in Busy /\ kind[m] = "event"
          /\ UNCHANGED <<published, outcome>>
      BY <2>3 DEF HandlerReturns, Busy, sqs
    <3>2. m \in Messages
      BY <1>2, <3>1, BusyThread DEF IInv
    <3>3. /\ outcome[m] # "unsent"
          /\ outcome[m] = "pending" => queue[GroupOf[m]] # <<>> /\ Head1(GroupOf[m]) = m
      BY <1>2, <3>1 DEF IInv, WorkInv
    <3>4. /\ \A n \in Messages : n # m => succeeded'[n] = succeeded[n]
          /\ succeeded'[m] > 0
      <4>1. succeeded \in [Messages -> 0..2]
        BY <1>2 DEF IInv, TypeOK
      <4>2. PICK v : /\ succeeded' = [succeeded EXCEPT ![m] = v]
                     /\ v = IF succeeded[m] < 2 THEN succeeded[m] + 1 ELSE 2
        BY <2>3 DEF HandlerReturns
      <4>3. v > 0
        BY <3>2, <4>1, <4>2
      <4> HIDE DEF m
      <4> QED
        BY <3>2, <4>1, <4>2, <4>3
    <3>5. acted' = acted \cup {m}
      BY <3>2, <3>4
    <3>6. CASE outcome[m] \in {"pending", "given_up"}
      <4>1. outcome[m] = "pending" => Delivery!IsNext(m)
        BY <1>2, <3>2, <3>3, OldestIsNext
      <4>2. \E n \in Messages : Delivery!Act(n)
        BY <3>1, <3>2, <3>5, <3>6, <4>1 DEF Delivery!Act
      <4> QED
        BY <4>2 DEF Delivery!Next
    <3>7. CASE outcome[m] \in {"done", "rejected"}
      <4>1. succeeded[m] > 0
        BY <1>2, <3>1, <3>2, <3>7 DEF IInv, MessageInv
      <4>2. acted' = acted
        BY <3>2, <3>5, <4>1
      <4> QED
        BY <3>1, <4>2 DEF Delivery!vars
    <3> QED
      BY <1>2, <3>2, <3>3, <3>6, <3>7 DEF IInv, TypeOK
  <2>4. ASSUME NEW t \in Threads, Delete(t)
        PROVE  Delivery!Next \/ UNCHANGED Delivery!vars
    <3> DEFINE m == thread[t].msg
               g == GroupOf[m]
               o == IF succeeded[m] > 0 THEN "done" ELSE "rejected"
    <3>1. thread[t].at \in Busy /\ succeeded' = succeeded
      BY <2>4 DEF Delete, Busy
    <3>2. m \in Messages /\ g \in Groups
      BY <1>2, <3>1, BusyThread DEF IInv
    <3>3. CASE holder[g] = t /\ Head1(g) = m
      <4>1. RemoveHead(g, o) /\ o \in {"done", "rejected"}
        BY <2>4, <3>3 DEF Delete
      <4>2. t # NoThread
        BY QueueParameters
      <4>3. queue[g] # <<>>
        BY <1>2, <3>2, <3>3, <4>2 DEF IInv, QueueInv
      <4>4. outcome[m] = "pending"
        BY <1>2, <3>2, <3>3, <4>3, OldestMessage DEF IInv
      <4>5. Delivery!IsNext(m)
        BY <1>2, <3>2, <3>3, <4>3, OldestIsNext
      <4>6. Delivery!Settle(m, o)
        BY <3>1, <3>2, <3>3, <4>1, <4>4, <4>5 DEF Delivery!Settle, RemoveHead
      <4> HIDE DEF m, o
      <4>7. \E x \in {"done", "rejected", "given_up"} : Delivery!Settle(m, x)
        BY <4>1, <4>6
      <4> QED
        BY <3>2, <4>7 DEF Delivery!Next
    <3>4. CASE ~(holder[g] = t /\ Head1(g) = m)
      BY <2>4, <3>1, <3>4 DEF Delete, sqs, Delivery!vars
    <3> QED
      BY <3>3, <3>4
  <2>5. ASSUME UNCHANGED <<published, outcome, succeeded>>
        PROVE  UNCHANGED Delivery!vars
    BY <2>5 DEF Delivery!vars
  <2>6. ASSUME NEW t \in Threads, ThreadStep(t)
        PROVE  Delivery!Next \/ UNCHANGED Delivery!vars
    <3>1. HandlerReturns(t) \/ Delete(t) \/ UNCHANGED <<published, outcome, succeeded>>
      BY <2>6 DEF ThreadStep, ReceiveNothing, Receive, HandlerRejects, HandlerRaises, sqs
    <3> QED
      BY <2>3, <2>4, <2>5, <3>1
  <2>7. \/ \E m \in Messages : Publish(m)
        \/ \E g \in Groups : DeadLetter(g)
        \/ \E t \in Threads : ThreadStep(t)
        \/ UNCHANGED <<published, outcome, succeeded>>
    BY <1>2 DEF Next, Redeliver, TimeoutWhileBusy, StopThread, AdjustThreadCounts, StopPool,
                StopEnds, Crash, Start, vars, sqs
  <2> QED
    BY <2>1, <2>2, <2>5, <2>6, <2>7
<1> QED
  BY <1>1, <1>2, InvariantHolds, PTL DEF Spec, ImplementsOrderedDelivery, Delivery!Spec

=============================================================================
