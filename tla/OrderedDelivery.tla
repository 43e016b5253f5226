--------------------------- MODULE OrderedDelivery ---------------------------
(***************************************************************************)
(* What the handlers of the virtual desktop controller may rely on: events *)
(* of one message group (one session, one user ...) take effect for the    *)
(* first time in the order in which they were published, each one at       *)
(* least once, unless the queue gives it up; an event the controller       *)
(* rejects takes no effect.  EventQueue implements this specification.     *)
(***************************************************************************)
EXTENDS Sequences, SequencesExt

CONSTANTS Messages, Groups, GroupOf

VARIABLES
    published,   \* per group, every message sent so far, in order
    outcome,     \* what became of a message
    acted        \* the messages some handler has carried out

vars == <<published, outcome, acted>>

Settled(m) == outcome[m] \in {"done", "rejected", "given_up"}

(* Every message published before m in m's group is settled.                *)
IsNext(m) ==
    LET s == published[GroupOf[m]]
    IN  \A i \in DOMAIN s :
            s[i] = m => \A j \in 1..(i - 1) : Settled(s[j])

Init ==
    /\ published = [g \in Groups |-> <<>>]
    /\ outcome = [m \in Messages |-> "unsent"]
    /\ acted = {}

Publish(m) ==
    /\ outcome[m] = "unsent"
    /\ outcome' = [outcome EXCEPT ![m] = "pending"]
    /\ published' = [published EXCEPT ![GroupOf[m]] = Append(@, m)]
    /\ UNCHANGED acted

(* A handler succeeds.  Later successes for the same message change nothing *)
(* here; a handler that was given up on may still finish late.              *)
Act(m) ==
    /\ \/ outcome[m] = "pending" /\ IsNext(m)
       \/ outcome[m] = "given_up"
    /\ acted' = acted \cup {m}
    /\ UNCHANGED <<published, outcome>>

Settle(m, o) ==
    /\ outcome[m] = "pending"
    /\ IsNext(m)
    /\ o = "done" => m \in acted
    /\ o = "rejected" => m \notin acted
    /\ outcome' = [outcome EXCEPT ![m] = o]
    /\ UNCHANGED <<published, acted>>

Next ==
    \E m \in Messages :
        \/ Publish(m)
        \/ Act(m)
        \/ \E o \in {"done", "rejected", "given_up"} : Settle(m, o)

Spec == Init /\ [][Next]_vars
=============================================================================
