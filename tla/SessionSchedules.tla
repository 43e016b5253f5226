-------------------------- MODULE SessionSchedules ---------------------------
(***************************************************************************)
(* The schedule of a virtual desktop session, for one day of the week.     *)
(* The schedules table drives the scheduled stops and resumes; the row of  *)
(* the session names the schedule that belongs to it.  An edit reads the   *)
(* session's row, deletes and creates schedules, and writes the whole row  *)
(* back (_update_session, VirtualDesktopScheduleUtils).                     *)
(*                                                                          *)
(* Times are minutes since midnight.                                        *)
(***************************************************************************)
EXTENDS Naturals, FiniteSets

CONSTANTS
    Wishes,         \* the schedules edits may ask for: a type and, for CUSTOM, times
    WorkingHours,   \* start_up_time and shut_down_time of the configuration
    Gone            \* no row

ScheduleTypes == {"NO_SCHEDULE", "STOP_ALL_DAY", "START_ALL_DAY", "WORKING_HOURS", "CUSTOM_SCHEDULE"}
NoSchedule == [type |-> "NO_SCHEDULE", start |-> 0, stop |-> 0]
SessionRows == [state : {"READY", "STOPPED", "RESUMING", "DELETING"},
                sched : [id : Nat, type : ScheduleTypes, start : 0..1439, stop : 0..1439]]

ASSUME ScheduleParameters ==
    /\ Wishes \cup {WorkingHours} \subseteq [type : ScheduleTypes, start : 0..1439, stop : 0..1439]
    /\ \A w, v \in Wishes \cup {NoSchedule} : w.type = v.type /\ w.type # "CUSTOM_SCHEDULE" => w = v
    /\ Gone \notin SessionRows

VARIABLES
    session,        \* the row of the session: its state and its schedule, or Gone
    schedules,      \* the schedules table
    ids,            \* schedule ids given out so far
    edit,           \* the request to edit the session
    asked,          \* history: what the last completed edit asked for
    excuse          \* history: the known ways in which tables were left apart

scheduleVars == <<session, schedules, ids, edit, asked>>

Idle == [at |-> "idle"]
Named(id, w) == [id |-> id, type |-> w.type, start |-> w.start, stop |-> w.stop]
Empty == Named(0, NoSchedule)

Note(labels) == excuse' = excuse \cup labels

-----------------------------------------------------------------------------
(* _is_same_schedule *)
IsSameSchedule(w, s) == w.type = s.type /\ w.type # "CUSTOM_SCHEDULE"

(* Mutant: the schedule of a session that has none is looked for.            *)
HasNoEntryNever(s) == FALSE

(* What _delete_schedule leaves alone.                                      *)
HasNoEntry(s) == s.type = "NO_SCHEDULE" \/ s.id = 0

(* schedule_db.delete looks for its key in what it deleted: a schedule that *)
(* is no longer there is an error.                                           *)
Entry(s) == {e \in schedules : e.id = s.id}

(* The schedule of the row after an edit that creates none.  A schedule      *)
(* without an id is read back as NO_SCHEDULE.                                *)
WithoutEntry(w, s) == IF IsSameSchedule(w, s) THEN s ELSE Empty

CreatesEntry(w, s) == ~IsSameSchedule(w, s) /\ w.type # s.type /\ w.type # "NO_SCHEDULE"

(* Where an edit goes when it has removed the old schedule, or had none.     *)
AfterRemoval(w, s) == IF CreatesEntry(w, s) THEN "create" ELSE "save"

(* _update_session with a schedule.                                          *)
EditBegin(w, overlap) ==
    /\ LET s == session.sched
       IN  /\ edit' = [at |-> IF IsSameSchedule(w, s) THEN "save"
                              ELSE IF HasNoEntry(s) THEN AfterRemoval(w, s) ELSE "remove",
                       row |-> [session EXCEPT !.sched = WithoutEntry(w, s)],
                       old |-> s, wish |-> w]
           /\ Note(overlap \cup (IF w.type = "CUSTOM_SCHEDULE" /\ s.type = "CUSTOM_SCHEDULE"
                                 THEN {"custom"} ELSE {}))
    /\ UNCHANGED <<session, schedules, ids, asked>>

EditRemove ==
    /\ edit.at = "remove"
    /\ edit' = IF Entry(edit.old) = {} THEN Idle
               ELSE [edit EXCEPT !.at = AfterRemoval(edit.wish, edit.old)]
    /\ schedules' = schedules \ Entry(edit.old)
    /\ UNCHANGED <<session, ids, asked, excuse>>

EditCreate ==
    /\ edit.at = "create"
    /\ LET s == Named(ids + 1, edit.wish)
       IN  /\ schedules' = schedules \cup {s}
           /\ edit' = [edit EXCEPT !.at = "save", !.row.sched = s]
    /\ ids' = ids + 1
    /\ UNCHANGED <<session, asked, excuse>>

(* Mutant: the edit does not write the session's row.                        *)
EditSaveNothing ==
    /\ edit.at = "save"
    /\ asked' = edit.wish
    /\ edit' = Idle
    /\ UNCHANGED <<session, schedules, ids, excuse>>

(* session_db.update writes every attribute, and a row that was deleted      *)
(* meanwhile comes back.                                                     *)
EditSave ==
    /\ edit.at = "save"
    /\ session' = edit.row
    /\ asked' = edit.wish
    /\ edit' = Idle
    /\ UNCHANGED <<schedules, ids, excuse>>

-----------------------------------------------------------------------------
(* trigger_schedule.                                                         *)

(* Mutant: a session is not stopped after the end of its hours.              *)
TriggerNoStop(s, time) ==
    LET hours == IF s.type = "WORKING_HOURS" THEN WorkingHours ELSE s
        start == (hours.start \div 60) * 60 + (hours.stop % 60)
    IN  CASE s.type = "STOP_ALL_DAY" -> "stop"
          [] s.type = "START_ALL_DAY" -> "resume"
          [] OTHER -> IF time < start \/ time >= hours.stop THEN "none" ELSE "resume"

(* The start of the hours takes its minutes from their end.                  *)
Trigger(s, time) ==
    LET hours == IF s.type = "WORKING_HOURS" THEN WorkingHours ELSE s
        start == (hours.start \div 60) * 60 + (hours.stop % 60)
    IN  CASE s.type = "STOP_ALL_DAY" -> "stop"
          [] s.type = "START_ALL_DAY" -> "resume"
          [] OTHER -> IF time < start THEN "none"
                      ELSE IF time < hours.stop THEN "resume" ELSE "stop"

Triggered(time) == {Trigger(s, time) : s \in schedules} \ {"none"}

(* What the user asked for.                                                  *)
Wanted(w, time) ==
    LET hours == IF w.type = "WORKING_HOURS" THEN WorkingHours ELSE w
        inside == hours.start <= time /\ time < hours.stop
    IN  CASE w.type = "NO_SCHEDULE" -> {}
          [] w.type = "STOP_ALL_DAY" -> {"stop"}
          [] w.type = "START_ALL_DAY" -> {"resume"}
          [] OTHER -> IF inside THEN {"resume"} ELSE IF time >= hours.stop THEN {"stop"} ELSE {}

(* What the decision relies on, and nobody checks: the hours begin and end   *)
(* at the same minute of the hour, and on the same day.                      *)
SameMinutes(w) ==
    LET hours == IF w.type = "WORKING_HOURS" THEN WorkingHours ELSE w
    IN  hours.start % 60 = hours.stop % 60

WithinDay(w) ==
    LET hours == IF w.type = "WORKING_HOURS" THEN WorkingHours ELSE w
    IN  hours.start <= hours.stop
=============================================================================
