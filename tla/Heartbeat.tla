----------------------------- MODULE Heartbeat -----------------------------
(***************************************************************************)
(* One heartbeat monitor (internal/heartbeat/service.go with its store).   *)
(* Pings, API calls and the deadline checker each read the row, work on    *)
(* that copy and write it back with store calls of their own; no lock      *)
(* spans a call.  Monitors do not touch each other, so one is modelled.    *)
(* Time is whether the deadline lies ahead or in the past.                 *)
(***************************************************************************)
EXTENDS Naturals, FiniteSets

CONSTANTS Requests,   \* concurrent pings and API calls
          MaxTrouble  \* bound on calls begun, failed store calls and restarts

VARIABLES hb,         \* the row of the heartbeat
          hbRuns,     \* executions in progress
          hbPauses,   \* pauses that are not closed
          hbAlerts,   \* alerts the alert engine holds for it
          hbCalls,    \* each call: where it is and the row it has read
          hbOverlap,  \* history: two calls have run at a time
          hbBegun, hbFaults

vars == <<hb, hbRuns, hbPauses, hbAlerts, hbCalls, hbOverlap, hbBegun, hbFaults>>

Checker == "checker"
Callers == Requests \cup {Checker}
Pings == {"success", "start", "exit0", "exit1"}
Ops == Pings \cup {"pause", "resume", "edit", "delete", "deadline"}
AlertTypes == {"deadline_missed", "exit_code_failure"}
Row == [status : {"absent", "new", "up", "down", "started", "paused", "deleted"},
        alerting : BOOLEAN, deadline : {"none", "ahead", "past"}, run : BOOLEAN]
Absent == [status |-> "absent", alerting |-> FALSE, deadline |-> "none", run |-> FALSE]
Idle == [pc |-> "idle", op |-> "success", seen |-> Absent]

\* Every variable ranges over the values the code can give it.
TypeOK ==
    /\ hb \in Row /\ hbRuns \in Nat /\ hbPauses \in Nat
    /\ hbAlerts \subseteq AlertTypes
    /\ hbCalls \in [Callers -> [pc : {"idle", "exec", "open", "write", "endPause", "notify"},
                                op : Ops, seen : Row]]
    /\ hbOverlap \in BOOLEAN /\ hbBegun \in Nat /\ hbFaults \in Nat
    /\ hbBegun + hbFaults <= MaxTrouble

Init ==
    /\ hb = Absent /\ hbRuns = 0 /\ hbPauses = 0 /\ hbAlerts = {}
    /\ hbCalls = [c \in Callers |-> Idle]
    /\ hbOverlap = FALSE /\ hbBegun = 0 /\ hbFaults = 0

Exists == hb.status \notin {"absent", "deleted"}
Busy == {c \in Callers : hbCalls[c].pc # "idle"}
At(c, pc) == hbCalls[c].pc = pc
Goto(c, pc) == hbCalls' = [hbCalls EXCEPT ![c].pc = pc]
End(c) == hbCalls' = [hbCalls EXCEPT ![c] = Idle]
Trouble == hbBegun + hbFaults < MaxTrouble
Fault == Trouble /\ hbFaults' = hbFaults + 1

\* CreateHeartbeat: a new heartbeat has no deadline.
CreateHeartbeat ==
    /\ hb = Absent /\ hb' = [Absent EXCEPT !.status = "new"]
    /\ UNCHANGED <<hbRuns, hbPauses, hbAlerts, hbCalls, hbOverlap, hbBegun, hbFaults>>

\* A call reads the row; the API's writes do not depend on what they read.
Begin(c, op, pc, seen) ==
    /\ At(c, "idle") /\ Exists
    /\ hbCalls' = [hbCalls EXCEPT ![c] = [pc |-> pc, op |-> op, seen |-> seen]]
    /\ hbOverlap' = (hbOverlap \/ Busy # {})
    /\ UNCHANGED <<hb, hbRuns, hbPauses, hbAlerts, hbFaults>>

\* A ping looks its token up and records itself; a ping that finishes nothing
\* works on the executions first.
Ping(c, op) ==
    /\ Trouble /\ hbBegun' = hbBegun + 1
    /\ Begin(c, op, "exec", hb)

\* PauseHeartbeat refuses a paused heartbeat, ResumeHeartbeat any other.
Manage(c, op) ==
    /\ Trouble /\ hbBegun' = hbBegun + 1
    /\ (op = "pause" => hb.status # "paused") /\ (op = "resume" => hb.status = "paused")
    /\ Begin(c, op, "write", Absent)

\* The query of the checker: the status and the deadline of the row.
ListsUpOnly == hb.status = "up" /\ hb.deadline = "past"
ListOverdueHeartbeats == hb.status \in {"up", "started"} /\ hb.deadline = "past"

\* checkDeadlines reads the overdue heartbeats and takes them down one by one.
CheckDeadlines ==
    /\ ListOverdueHeartbeats /\ Begin(Checker, "deadline", "write", hb)
    /\ UNCHANGED hbBegun

-----------------------------------------------------------------------------
Recovering(seen) == seen.status = "down" \/ seen.alerting

\* A finished run is no longer the current one.
RunLeft(seen) == seen.run /\ seen.status # "started"

\* The row UpdateHeartbeatState writes: every column, from the copy.
ProcessPing(seen) ==
    [status |-> "up", alerting |-> seen.alerting /\ ~Recovering(seen), deadline |-> "ahead",
     run |-> RunLeft(seen)]
ProcessStartPing(seen) == [seen EXCEPT !.status = "started", !.deadline = "ahead", !.run = TRUE]
ProcessExitCodePing(seen, code) ==
    [status |-> "up", alerting |-> code # 0, deadline |-> "ahead", run |-> RunLeft(seen)]
MissedDeadline(seen) == [seen EXCEPT !.status = "down", !.alerting = TRUE]

UpdateHeartbeatState(call) ==
    CASE call.op = "success" -> ProcessPing(call.seen)
      [] call.op = "start" -> ProcessStartPing(call.seen)
      [] call.op = "exit0" -> ProcessExitCodePing(call.seen, 0)
      [] call.op = "exit1" -> ProcessExitCodePing(call.seen, 1)
      [] call.op = "deadline" -> MissedDeadline(call.seen)

\* PauseHeartbeat stops monitoring: no deadline, no alert left in the row.
PausedKeepsAlert(row) == [row EXCEPT !.status = "paused", !.deadline = "none"]
PausedRow(row) == [row EXCEPT !.status = "paused", !.alerting = FALSE, !.deadline = "none"]
ResumedRow(row) == [row EXCEPT !.status = "up", !.deadline = "ahead"]

\* UpdateHeartbeat shifts the deadline of a heartbeat that is watched.
EditedRows(row) ==
    IF row.status \in {"up", "started"}
    THEN {[row EXCEPT !.deadline = d] : d \in {"ahead", "past"}} ELSE {row}

\* Ends one execution in progress, if there is one.
OneLess(n) == n - 1
Fewer(n) == IF n > 0 THEN n - 1 ELSE 0

\* The execution a call completes or times out.  A plain ping completes the
\* current one only when the row says a run has started.
CompleteExecution(c) ==
    LET call == hbCalls[c]
        closes == \/ call.op \in {"start", "exit0", "exit1"}
                  \/ call.op = "success" /\ call.seen.status = "started" /\ call.seen.run
                  \/ call.op = "deadline" /\ call.seen.status = "started" IN
      /\ At(c, "exec")
      /\ \/ hbRuns' = (IF closes THEN Fewer(hbRuns) ELSE hbRuns) /\ UNCHANGED hbFaults
         \/ closes /\ Fault /\ UNCHANGED hbRuns
      /\ Goto(c, CASE call.op = "start" -> "open" [] call.op = "deadline" -> "notify"
                   [] OTHER -> "write")
      /\ UNCHANGED <<hb, hbPauses, hbAlerts, hbOverlap, hbBegun>>

\* A start ping opens an execution; the insert needs the heartbeat's row.
InsertExecution(c) ==
    /\ At(c, "open")
    /\ \/ hbRuns' = (IF Exists THEN hbRuns + 1 ELSE hbRuns) /\ UNCHANGED hbFaults
       \/ Fault /\ UNCHANGED hbRuns
    /\ Goto(c, "write")
    /\ UNCHANGED <<hb, hbPauses, hbAlerts, hbOverlap, hbBegun>>

\* The write of a ping or of the checker: an UPDATE by id, without effect on a
\* deleted row.
WriteState(c) ==
    LET call == hbCalls[c] IN
      /\ At(c, "write") /\ call.op \in Pings \cup {"deadline"}
      /\ hb' = IF Exists THEN UpdateHeartbeatState(call) ELSE hb
      /\ Goto(c, IF call.op = "deadline" THEN "exec"
                 ELSE IF call.seen.status = "paused" THEN "endPause" ELSE "notify")
      /\ UNCHANGED <<hbRuns, hbPauses, hbAlerts, hbOverlap, hbBegun, hbFaults>>

\* EndPause closes the pauses a ping has ended; an error is logged.
EndPause(c) ==
    /\ At(c, "endPause") /\ Goto(c, "notify")
    /\ \/ hbPauses' = 0 /\ UNCHANGED hbFaults
       \/ Fault /\ UNCHANGED hbPauses
    /\ UNCHANGED <<hb, hbRuns, hbAlerts, hbOverlap, hbBegun>>

\* The writes of the API: PauseHeartbeat and ResumeHeartbeat are transactions
\* over the row and its pauses, a delete takes everything with it.
WriteManaged(c) ==
    LET op == hbCalls[c].op IN
      /\ At(c, "write") /\ op \in {"pause", "resume", "edit", "delete"}
      /\ IF ~Exists THEN UNCHANGED <<hb, hbRuns, hbPauses>>
         ELSE \/ op = "pause" /\ hb' = PausedRow(hb) /\ hbPauses' = hbPauses + 1 /\ UNCHANGED hbRuns
              \/ op = "resume" /\ hb' = ResumedRow(hb) /\ hbPauses' = 0 /\ UNCHANGED hbRuns
              \/ op = "edit" /\ hb' \in EditedRows(hb) /\ UNCHANGED <<hbRuns, hbPauses>>
              \/ /\ op = "delete" /\ hb' = [Absent EXCEPT !.status = "deleted"]
                 /\ hbRuns' = 0 /\ hbPauses' = 0
      /\ IF op = "delete" \/ (op = "pause" /\ Exists) THEN Goto(c, "notify") ELSE End(c)
      /\ UNCHANGED <<hbAlerts, hbOverlap, hbBegun, hbFaults>>

\* A failed write of the state ends the call without a notification.
WriteFails(c) ==
    /\ At(c, "write") /\ Fault /\ End(c)
    /\ UNCHANGED <<hb, hbRuns, hbPauses, hbAlerts, hbOverlap, hbBegun>>

\* The alert callback: an alert, a recovery of both types, or ResolveByEntity
\* for a heartbeat that is paused or deleted.
Notify(c) ==
    LET call == hbCalls[c] IN
      /\ At(c, "notify") /\ End(c)
      /\ hbAlerts' =
           CASE call.op = "exit1" -> hbAlerts \cup {"exit_code_failure"}
             [] call.op = "deadline" -> hbAlerts \cup {"deadline_missed"}
             [] call.op \in {"success", "exit0"} -> IF Recovering(call.seen) THEN {} ELSE hbAlerts
             [] call.op = "start" -> hbAlerts
             [] OTHER -> {}
      /\ UNCHANGED <<hb, hbRuns, hbPauses, hbOverlap, hbBegun, hbFaults>>

-----------------------------------------------------------------------------
\* The deadline passes.
DeadlinePasses ==
    /\ hb.deadline = "ahead" /\ hb' = [hb EXCEPT !.deadline = "past"]
    /\ UNCHANGED <<hbRuns, hbPauses, hbAlerts, hbCalls, hbOverlap, hbBegun, hbFaults>>

\* The process stops and starts again.
Restart ==
    /\ Busy # {} /\ Fault /\ hbCalls' = [c \in Callers |-> Idle]
    /\ UNCHANGED <<hb, hbRuns, hbPauses, hbAlerts, hbOverlap, hbBegun>>

Proceed(c) ==
    \/ CompleteExecution(c) \/ InsertExecution(c) \/ WriteState(c) \/ EndPause(c)
    \/ WriteManaged(c) \/ Notify(c)

Next ==
    \/ CreateHeartbeat \/ CheckDeadlines \/ DeadlinePasses \/ Restart
    \/ \E c \in Requests, op \in Pings : Ping(c, op)
    \/ \E c \in Requests, op \in {"pause", "resume", "edit", "delete"} : Manage(c, op)
    \/ \E c \in Callers : Proceed(c) \/ WriteFails(c)

Spec == Init /\ [][Next]_vars

-----------------------------------------------------------------------------
\* However calls overlap, fail or are cut off, the columns of the row agree: a
\* paused heartbeat has no deadline and no alert, one that is down is alerting,
\* a watched one has a deadline (PauseHeartbeat, checkDeadlines, ProcessPing).
RowConsistent ==
    /\ hb.status \in {"paused", "new"} => hb.deadline = "none" /\ ~hb.alerting
    /\ hb.status = "down" => hb.alerting
    /\ hb.status \in {"up", "started"} => hb.deadline # "none"


\* A missed deadline is noticed: an overdue heartbeat goes down, gets a new
\* deadline or leaves monitoring (checkDeadlines).
OverdueIsNoticed ==
    LET overdue == hb.deadline = "past" /\ hb.status \notin {"absent", "new", "down", "paused", "deleted"}
    IN  overdue ~> ~overdue
=============================================================================
