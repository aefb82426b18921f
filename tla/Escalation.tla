----------------------------- MODULE Escalation -----------------------------
(***************************************************************************)
(* Escalation runs of one alert.  The ticker of the alert engine calls     *)
(* EvaluateCycle, which recovers orphaned deliveries and then steps every  *)
(* due run one level forward; each delivery is reserved by a unique row    *)
(* and sent by a goroutine of its own.  Concurrently the engine's hooks    *)
(* start and stop runs, and the API switches policies off.  No lock covers *)
(* any of this: a cycle works on run records it read before.               *)
(* Runs of different alerts do not touch each other, so one alert is       *)
(* modelled; next_action_at is due or not yet due.                         *)
(***************************************************************************)
EXTENDS Integers, Sequences, FiniteSets

CONSTANTS Policies, Channels,
          Disabled,       \* channels that are switched off
          Slow,           \* channels whose send may outlast a cycle (SMTP, Telegram)
          Closings,       \* how the alert may end: "ack", "resolved"
          MaxClosings,    \* bound: 2 lets an acknowledged alert be resolved as well
          FaultyCalls,    \* the store calls that may fail
          LevelChannels,  \* the channels of each level of the snapshot
          MaxSenders,     \* bound on the goroutines sending one delivery
          MaxTrouble,     \* bound on API calls, windows, faults and crashes together
          MaxRuns, MaxRaises, MaxAdmin, MaxWindows, MaxFaults, MaxCrashes

NLevels == Len(LevelChannels)
Levels == 0..(NLevels - 1)
ChannelsOf(n) == LevelChannels[n + 1]

ASSUME EscalationAssumption ==
    /\ LevelChannels \in Seq(SUBSET Channels) /\ NLevels > 0
    /\ Closings \subseteq {"ack", "resolved"}
    /\ FaultyCalls \subseteq {"run", "insert", "update"}
    /\ {MaxSenders, MaxClosings, MaxRuns, MaxRaises, MaxAdmin, MaxWindows, MaxFaults, MaxCrashes,
        MaxTrouble} \subseteq Nat

specialLevelAck == -1
specialLevelExhausted == -3
Stopped == {"stopped_by_ack", "stopped_by_resolution", "stopped_by_policy_deletion",
            "stopped_by_policy_disabled", "stopped_by_edition_downgrade", "exhausted"}
Going == {"active", "paused_by_maintenance"}
RunIds == 1..MaxRuns
Run == [policy : Policies, status : Going \cup Stopped, last : Levels \cup {-1},
        due : {"now", "later", "null"}]
Snapshot == [id : RunIds, status : Going, last : Levels \cup {-1}]
Slot == [run : RunIds, level : Levels \cup {specialLevelAck, specialLevelExhausted},
         ch : Channels]

VARIABLES policy,    \* escalation_policies
          pro,       \* extension.Allows(CapAlertEscalation)
          alert,     \* the alert row
          raises,    \* calls of OnAlertCreated
          window,    \* a maintenance window covers the entity
          runs,      \* escalation_runs
          deliv,     \* escalation_deliveries, by their unique columns
          old,       \* deliveries past the orphan timeout
          flying,    \* goroutines about to send a delivery
          landed,    \* goroutines that sent it and have not recorded it
          received,  \* notifications that reached the channel
          late,      \* levels dispatched after the alert was acknowledged
          cycle,     \* the evaluator goroutine
          created, stopping, admin,  \* hooks and API calls between two store calls
          nadmin, nwindows, faults, crashes

store == <<policy, alert, runs, deliv>>
bounds == <<nadmin, nwindows, faults, crashes>>
vars == <<policy, pro, alert, raises, window, runs, deliv, old, flying, landed,
          received, late, cycle, created, stopping, admin, bounds>>

NoRun == [id |-> 1, status |-> "active", last |-> -1]
Cycle(pc, todo, run, op, left) ==
    [pc |-> pc, todo |-> todo, run |-> run, op |-> op, left |-> left]
IdleCycle == Cycle("idle", {}, NoRun, "none", {})
IdleStop == [pc |-> "idle", todo |-> {}]
IdleAdmin == [pc |-> "idle", p |-> CHOOSE p \in Policies : TRUE]

\* Every variable ranges over the values the code can give it.
TypeOK ==
    /\ policy \in [Policies -> [active : BOOLEAN, before : BOOLEAN, exists : BOOLEAN]]
    /\ pro \in BOOLEAN /\ window \in BOOLEAN
    /\ alert \in [status : {"none", "active", "resolved"}, acked : BOOLEAN]
    /\ raises \in 0..MaxRaises
    /\ runs \in Seq(Run) /\ Len(runs) <= MaxRuns
    /\ deliv \in [Slot -> {"none", "pending", "sent", "failed", "abandoned"}]
    /\ old \subseteq Slot /\ flying \in [Slot -> Nat] /\ landed \in [Slot -> Nat]
    /\ received \in [Slot -> Nat]
    /\ late \subseteq RunIds \X Levels
    /\ cycle \in [pc : {"idle", "select", "run", "write", "send"}, todo : SUBSET Snapshot,
                  run : Snapshot, left : SUBSET Channels,
                  op : {"none", "resolution", "ack", "pause", "resume", "level", "exhaust"}]
    /\ created \subseteq Policies
    /\ stopping \in [Closings -> [pc : {"idle", "hook", "stop"}, todo : SUBSET Snapshot]]
    /\ admin \in [pc : {"idle", "stop", "delete", "deactivate", "bulkstop"}, p : Policies]
    /\ nadmin \in 0..MaxAdmin /\ nwindows \in 0..MaxWindows
    /\ faults \in 0..MaxFaults /\ crashes \in 0..MaxCrashes

Init ==
    /\ policy = [p \in Policies |-> [active |-> TRUE, before |-> FALSE, exists |-> TRUE]]
    /\ pro = TRUE /\ window = FALSE
    /\ alert = [status |-> "none", acked |-> FALSE] /\ raises = 0
    /\ runs = << >> /\ deliv = [s \in Slot |-> "none"] /\ old = {}
    /\ flying = [s \in Slot |-> 0] /\ landed = [s \in Slot |-> 0]
    /\ received = [s \in Slot |-> 0] /\ late = {}
    /\ cycle = IdleCycle /\ created = {}
    /\ stopping = [w \in Closings |-> IdleStop] /\ admin = IdleAdmin
    /\ nadmin = 0 /\ nwindows = 0 /\ faults = 0 /\ crashes = 0

\* A store call fails: its error is logged and the caller goes on.
Trouble == nadmin + nwindows + faults + crashes < MaxTrouble
StoreFails(call) ==
    call \in FaultyCalls /\ faults < MaxFaults /\ Trouble /\ faults' = faults + 1

\* A run record as a query returns it; SelectActiveRunsByAlert.
Read(r) == [id |-> r, status |-> runs[r].status, last |-> runs[r].last]
SelectActiveRuns == {Read(r) : r \in {i \in 1..Len(runs) : runs[i].status \in Going}}

-----------------------------------------------------------------------------
\* The engine fires the alert or raises its severity and calls OnAlertCreated,
\* which reads the runs and the active policies and keeps the uncovered ones.
OnAlertCreated ==
    /\ raises < MaxRaises /\ created = {} /\ pro
    /\ \/ alert.status = "none"
       \/ alert.status = "active" /\ ~alert.acked
    /\ raises' = raises + 1
    /\ alert' = [alert EXCEPT !.status = "active"]
    /\ created' = {p \in Policies : policy[p].exists /\ policy[p].active
                     /\ \A r \in SelectActiveRuns : runs[r.id].policy # p}
    /\ UNCHANGED <<policy, pro, window, runs, deliv, old, flying, landed, received,
                   late, cycle, stopping, admin, bounds>>

\* InsertRun, due when the delay of the first level has passed.
InsertRun(p) ==
    /\ p \in created /\ Len(runs) < MaxRuns
    /\ created' = created \ {p}
    /\ \/ /\ runs' = Append(runs, [policy |-> p, status |-> "active", last |-> -1, due |-> "later"])
          /\ UNCHANGED faults
       \/ StoreFails("run") /\ UNCHANGED runs
    /\ UNCHANGED <<policy, pro, alert, raises, window, deliv, old, flying, landed,
                   received, late, cycle, stopping, admin, nadmin, nwindows, crashes>>

\* TerminateRun, by id, whatever the status of the run.
Terminate(rs, r, status) == [rs EXCEPT ![r].status = status, ![r].due = "null"]

\* The alert row is acknowledged or resolved; the hook follows.
CloseAlert(why) ==
    /\ alert.status = "active" /\ (why = "ack" => ~alert.acked)
    /\ alert.acked => MaxClosings > 1
    /\ alert' = IF why = "ack" THEN [alert EXCEPT !.acked = TRUE]
                ELSE [alert EXCEPT !.status = "resolved"]
    /\ stopping' = [stopping EXCEPT ![why] = [pc |-> "hook", todo |-> {}]]
    /\ UNCHANGED <<policy, pro, raises, window, runs, deliv, old, flying, landed,
                   received, late, cycle, created, admin, bounds>>

\* OnAlertAcknowledged and OnAlertResolved select the runs that are going ...
SelectStopped(why) ==
    /\ stopping[why].pc = "hook"
    /\ \/ /\ stopping' = [stopping EXCEPT ![why] = [pc |-> "stop", todo |-> SelectActiveRuns]]
          /\ UNCHANGED faults
       \/ StoreFails("run") /\ stopping' = [stopping EXCEPT ![why] = IdleStop]
    /\ UNCHANGED <<store, pro, raises, window, old, flying, landed, received, late,
                   cycle, created, admin, nadmin, nwindows, crashes>>

NoRow(s) == deliv[s] = "none"

Reserve(slots) ==
    LET fresh == {s \in slots : NoRow(s)}
        sends == {s \in fresh : s.ch \notin Disabled} IN
      /\ deliv' = [s \in Slot |-> IF s \in sends THEN "pending"
                                  ELSE IF s \in fresh THEN "failed" ELSE deliv[s]]
      /\ flying' = [s \in Slot |-> flying[s] + IF s \in sends THEN 1 ELSE 0]

\* The channels a level of the run has sent to or is still sending to.
NotifiedChannels(r) ==
    {c \in Channels : \E n \in Levels :
       deliv[[run |-> r, level |-> n, ch |-> c]] \in {"pending", "sent"}}

\* ... and terminate them one by one; an acknowledgment is announced to every
\* channel the run has notified.
AckNotice(run) ==
    IF run.last >= 0
    THEN {[run |-> run.id, level |-> specialLevelAck, ch |-> c] : c \in NotifiedChannels(run.id)}
    ELSE {}

StopRun(why, run) ==
    /\ stopping[why].pc = "stop" /\ run \in stopping[why].todo
    /\ stopping' = [stopping EXCEPT ![why].todo = @ \ {run}]
    /\ \/ /\ why = "ack" /\ runs' = Terminate(runs, run.id, "stopped_by_ack")
          /\ Reserve(AckNotice(run)) /\ UNCHANGED faults
       \/ /\ why = "resolved" /\ runs' = Terminate(runs, run.id, "stopped_by_resolution")
          /\ UNCHANGED <<deliv, flying, faults>>
       \/ StoreFails("run") /\ UNCHANGED <<runs, deliv, flying>>
    /\ UNCHANGED <<policy, pro, alert, raises, window, old, landed, received, late,
                   cycle, created, admin, nadmin, nwindows, crashes>>

StopDone(why) ==
    /\ stopping[why].pc = "stop" /\ stopping[why].todo = {}
    /\ stopping' = [stopping EXCEPT ![why] = IdleStop]
    /\ UNCHANGED <<store, pro, raises, window, old, flying, landed, received, late,
                   cycle, created, admin, bounds>>

-----------------------------------------------------------------------------
\* Whether recoverOrphans sends a stale delivery again: its run is still going
\* and its alert still active.  Any other one is abandoned.
Retriable(s) == runs[s.run].status \in Going /\ alert.status = "active"
Left(s) == "pending"
Recovered(s) == IF Retriable(s) THEN "pending" ELSE "abandoned"

\* EvaluateCycle begins with recoverOrphans.  attempt_started_at stays what it
\* was, so a delivery that is still pending is picked up again by every cycle;
\* the minute between two cycles is enough for a send that is not slow.
RecoverOrphans ==
    /\ cycle.pc = "idle" /\ pro
    /\ \A s \in old : s.ch \in Slow \/ flying[s] + landed[s] = 0
    /\ LET orphans == {s \in old : deliv[s] = "pending" /\ flying[s] + landed[s] < MaxSenders}
           again == {s \in orphans : Retriable(s)} IN
         /\ flying' = [s \in Slot |-> flying[s] + IF s \in again THEN 1 ELSE 0]
         /\ deliv' = [s \in Slot |-> IF s \in orphans THEN Recovered(s) ELSE deliv[s]]
         /\ orphans # {} \/ \E r \in SelectActiveRuns : runs[r.id].due = "now"
    /\ cycle' = [IdleCycle EXCEPT !.pc = "select"]
    /\ UNCHANGED <<policy, pro, alert, raises, window, runs, old, landed, received,
                   late, created, stopping, admin, bounds>>

\* SelectDueRuns: the cycle works on these records to its end.
SelectDueRuns ==
    /\ cycle.pc = "select"
    /\ cycle' = Cycle("run", {r \in SelectActiveRuns : runs[r.id].due = "now"}, NoRun, "none", {})
    /\ UNCHANGED <<store, pro, raises, window, old, flying, landed, received, late,
                   created, stopping, admin, bounds>>

\* processRun up to its first write: what it does with a run.
IgnoreAck(run) ==
    IF alert.status # "active" THEN "resolution"
    ELSE IF window THEN "pause"
    ELSE IF run.status = "paused_by_maintenance" THEN "resume"
    ELSE IF run.last + 1 >= NLevels THEN "exhaust"
    ELSE "level"
Decision(run) ==
    IF alert.status # "active" THEN "resolution"
    ELSE IF alert.acked THEN "ack"
    ELSE IF window THEN "pause"
    ELSE IF run.status = "paused_by_maintenance" THEN "resume"
    ELSE IF run.last + 1 >= NLevels THEN "exhaust"
    ELSE "level"

ProcessRun(run) ==
    /\ cycle.pc = "run" /\ run \in cycle.todo
    /\ LET op == Decision(run) IN
         cycle' = Cycle(IF op \in {"level", "exhaust"} THEN "send" ELSE "write",
                        cycle.todo \ {run}, run, op,
                        IF op = "level" THEN ChannelsOf(run.last + 1)
                        ELSE IF op = "exhaust" THEN ChannelsOf(run.last) ELSE {})
    /\ UNCHANGED <<store, pro, raises, window, old, flying, landed, received, late,
                   created, stopping, admin, bounds>>

CycleDone ==
    /\ cycle.pc = "run" /\ cycle.todo = {}
    /\ cycle' = IdleCycle
    /\ UNCHANGED <<store, pro, raises, window, old, flying, landed, received, late,
                   created, stopping, admin, bounds>>

NextRun == cycle' = Cycle("run", cycle.todo, NoRun, "none", {})

\* The single write of a run that is not stepped: TerminateRun by id, or a pause
\* or resume whose condition the run must still meet.
PausedForGood(r) == [runs EXCEPT ![r].status = "paused_by_maintenance", ![r].due = "null"]
PauseRunForMaintenance(r) ==
    [runs EXCEPT ![r].status = "paused_by_maintenance", ![r].due = "later"]
Written(c, now) ==
    LET r == c.run.id IN
      IF c.op = "resolution" THEN Terminate(runs, r, "stopped_by_resolution")
      ELSE IF c.op = "ack" THEN Terminate(runs, r, "stopped_by_ack")
      ELSE IF c.op = "pause" /\ now \in Going
           THEN PauseRunForMaintenance(r)
      ELSE IF c.op = "resume" /\ now = "paused_by_maintenance"
           THEN [runs EXCEPT ![r].status = "active", ![r].due = "now"]
      ELSE runs

WriteRun ==
    /\ cycle.pc = "write" /\ NextRun
    /\ \/ runs' = Written(cycle, runs[cycle.run.id].status) /\ UNCHANGED faults
       \/ StoreFails("run") /\ UNCHANGED runs
    /\ UNCHANGED <<policy, pro, alert, raises, window, deliv, old, flying, landed,
                   received, late, created, stopping, admin, nadmin, nwindows, crashes>>

\* executeLevel and dispatchSpecial: one channel after the other.
LevelOf(c) == IF c.op = "level" THEN c.run.last + 1 ELSE specialLevelExhausted

DispatchToChannel(c) ==
    /\ cycle.pc = "send" /\ c \in cycle.left
    /\ cycle' = [cycle EXCEPT !.left = @ \ {c}]
    /\ \/ /\ Reserve({[run |-> cycle.run.id, level |-> LevelOf(cycle), ch |-> c]})
          /\ late' = IF cycle.op = "level" /\ alert.acked
                     THEN late \cup {<<cycle.run.id, LevelOf(cycle)>>} ELSE late
          /\ UNCHANGED faults
       \/ StoreFails("insert") /\ UNCHANGED <<deliv, flying, late>>
    /\ UNCHANGED <<policy, pro, alert, raises, window, runs, old, landed, received,
                   created, stopping, admin, nadmin, nwindows, crashes>>

\* UpdateRunProgress writes the level, the next due time and the status
\* "active", by id.
ProgressedTwice(run, n) ==
    [run EXCEPT !.last = n + 1, !.status = "active", !.due = IF n + 1 < NLevels THEN "later" ELSE "now"]
Progressed(run, n) ==
    [run EXCEPT !.last = n, !.status = "active", !.due = IF n + 1 < NLevels THEN "later" ELSE "now"]

FinishLevel ==
    /\ cycle.pc = "send" /\ cycle.left = {} /\ NextRun
    /\ \/ /\ cycle.op = "level" /\ UNCHANGED faults
          /\ runs' = [runs EXCEPT ![cycle.run.id] = Progressed(@, cycle.run.last + 1)]
       \/ /\ cycle.op = "exhaust" /\ UNCHANGED faults
          /\ runs' = Terminate(runs, cycle.run.id, "exhausted")
       \/ StoreFails("run") /\ UNCHANGED runs
    /\ UNCHANGED <<policy, pro, alert, raises, window, deliv, old, flying, landed,
                   received, late, created, stopping, admin, nadmin, nwindows, crashes>>

-----------------------------------------------------------------------------
Count(f, s, d) == [f EXCEPT ![s] = @ + d]

\* deliverAndUpdate: SendNow gets the notification out ...
Send(s) ==
    /\ flying[s] > 0
    /\ flying' = Count(flying, s, -1) /\ landed' = Count(landed, s, 1)
    /\ received' = Count(received, s, 1)
    /\ UNCHANGED <<store, pro, raises, window, old, late, cycle, created, stopping,
                   admin, bounds>>

\* ... and UpdateDelivery records it, unless the update fails (it is logged) ...
RecordSent(s) ==
    /\ landed[s] > 0 /\ landed' = Count(landed, s, -1)
    /\ \/ deliv' = [deliv EXCEPT ![s] = "sent"] /\ UNCHANGED faults
       \/ StoreFails("update") /\ UNCHANGED deliv
    /\ UNCHANGED <<policy, pro, alert, raises, window, runs, old, flying, received,
                   late, cycle, created, stopping, admin, nadmin, nwindows, crashes>>

\* ... or every attempt fails and that is recorded.
SendFails(s) ==
    /\ flying[s] > 0 /\ flying' = Count(flying, s, -1)
    /\ \/ deliv' = [deliv EXCEPT ![s] = "failed"] /\ UNCHANGED faults
       \/ StoreFails("update") /\ UNCHANGED deliv
    /\ UNCHANGED <<policy, pro, alert, raises, window, runs, old, landed, received,
                   late, cycle, created, stopping, admin, nadmin, nwindows, crashes>>

\* The orphan timeout outlasts every attempt of a send, but not the delay a
\* slow channel asks for.
Age(s) ==
    /\ deliv[s] = "pending" /\ s \notin old
    /\ flying[s] + landed[s] = 0 \/ s.ch \in Slow
    /\ old' = old \cup {s}
    /\ UNCHANGED <<store, pro, raises, window, flying, landed, received, late, cycle,
                   created, stopping, admin, bounds>>

\* next_action_at passes.
Tick(r) ==
    /\ runs[r].due = "later"
    /\ runs' = [runs EXCEPT ![r].due = "now"]
    /\ UNCHANGED <<policy, pro, alert, raises, window, deliv, old, flying, landed,
                   received, late, cycle, created, stopping, admin, bounds>>

\* A maintenance window opens or closes.
Maintenance ==
    /\ window \/ (nwindows < MaxWindows /\ Trouble)
    /\ window' = ~window /\ nwindows' = nwindows + IF window THEN 0 ELSE 1
    /\ UNCHANGED <<store, pro, raises, old, flying, landed, received, late, cycle,
                   created, stopping, admin, nadmin, faults, crashes>>

-----------------------------------------------------------------------------
\* StopPolicyRuns and BulkStopActiveRuns end the runs that are going.
StopAll(ps, status) ==
    runs' = [r \in 1..Len(runs) |->
               IF runs[r].policy \in ps /\ runs[r].status \in Going
               THEN [runs[r] EXCEPT !.status = status, !.due = "null"] ELSE runs[r]]

Switch(p, active, exists) ==
    policy' = [policy EXCEPT ![p].active = active, ![p].exists = exists]

\* SetPolicyActive and UpdatePolicy write the policy and, when it was switched
\* off, stop its runs next.
SetPolicyActive(p) ==
    /\ admin.pc = "idle" /\ nadmin < MaxAdmin /\ Trouble /\ policy[p].exists
    /\ Switch(p, ~policy[p].active, TRUE)
    /\ admin' = IF policy[p].active THEN [pc |-> "stop", p |-> p] ELSE IdleAdmin
    /\ nadmin' = nadmin + 1
    /\ UNCHANGED <<pro, alert, raises, window, runs, deliv, old, flying, landed,
                   received, late, cycle, created, stopping, nwindows, faults, crashes>>

StopDisabledPolicyRuns ==
    /\ admin.pc = "stop"
    /\ StopAll({admin.p}, "stopped_by_policy_disabled") /\ admin' = IdleAdmin
    /\ UNCHANGED <<policy, pro, alert, raises, window, deliv, old, flying, landed,
                   received, late, cycle, created, stopping, bounds>>

\* DeletePolicy stops the runs first and deletes the policy next.
DeletePolicy(p) ==
    /\ admin.pc = "idle" /\ nadmin < MaxAdmin /\ Trouble /\ policy[p].exists
    /\ StopAll({p}, "stopped_by_policy_deletion")
    /\ admin' = [pc |-> "delete", p |-> p] /\ nadmin' = nadmin + 1
    /\ UNCHANGED <<policy, pro, alert, raises, window, deliv, old, flying, landed,
                   received, late, cycle, created, stopping, nwindows, faults, crashes>>

DeleteRow ==
    /\ admin.pc = "delete" /\ Switch(admin.p, FALSE, FALSE) /\ admin' = IdleAdmin
    /\ UNCHANGED <<pro, alert, raises, window, runs, deliv, old, flying, landed,
                   received, late, cycle, created, stopping, bounds>>

\* OnEditionDowngraded follows the change of edition: every active policy is
\* switched off and remembered, then every run is stopped.  An upgrade restores
\* the remembered policies.
ChangeEdition ==
    /\ admin.pc = "idle" /\ (pro => nadmin < MaxAdmin /\ Trouble)
    /\ pro' = ~pro /\ nadmin' = nadmin + IF pro THEN 1 ELSE 0
    /\ IF pro
       THEN admin' = [IdleAdmin EXCEPT !.pc = "deactivate"] /\ UNCHANGED policy
       ELSE /\ policy' = [p \in Policies |->
                 [policy[p] EXCEPT !.active = @ \/ policy[p].before, !.before = FALSE]]
            /\ UNCHANGED admin
    /\ UNCHANGED <<alert, raises, window, runs, deliv, old, flying, landed, received,
                   late, cycle, created, stopping, nwindows, faults, crashes>>

BulkDeactivate ==
    /\ admin.pc = "deactivate" /\ admin' = [admin EXCEPT !.pc = "bulkstop"]
    /\ policy' = [p \in Policies |->
         IF policy[p].active THEN [policy[p] EXCEPT !.before = TRUE, !.active = FALSE]
         ELSE policy[p]]
    /\ UNCHANGED <<pro, alert, raises, window, runs, deliv, old, flying, landed,
                   received, late, cycle, created, stopping, bounds>>

BulkStop ==
    /\ admin.pc = "bulkstop" /\ admin' = IdleAdmin
    /\ StopAll(Policies, "stopped_by_edition_downgrade")
    /\ UNCHANGED <<policy, pro, alert, raises, window, deliv, old, flying, landed,
                   received, late, cycle, created, stopping, bounds>>

\* The process stops and starts again: every goroutine and every hook is lost.
Crash ==
    /\ crashes < MaxCrashes /\ Trouble /\ crashes' = crashes + 1
    /\ cycle' = IdleCycle /\ created' = {} /\ admin' = IdleAdmin
    /\ stopping' = [w \in Closings |-> IdleStop]
    /\ flying' = [s \in Slot |-> 0] /\ landed' = [s \in Slot |-> 0]
    /\ UNCHANGED <<store, pro, raises, window, old, received, late, nadmin, nwindows, faults>>

-----------------------------------------------------------------------------
Evaluator ==
    \/ RecoverOrphans \/ SelectDueRuns \/ CycleDone \/ WriteRun \/ FinishLevel
    \/ \E run \in cycle.todo : ProcessRun(run)
    \/ \E c \in Channels : DispatchToChannel(c)

Hooks ==
    \/ \E p \in Policies : InsertRun(p)
    \/ \E why \in Closings :
         \/ SelectStopped(why) \/ StopDone(why)
         \/ \E run \in stopping[why].todo : StopRun(why, run)

Time == (\E r \in 1..Len(runs) : Tick(r)) \/ (\E s \in Slot : Age(s))

Next ==
    \/ OnAlertCreated \/ \E why \in Closings : CloseAlert(why)
    \/ Evaluator \/ Hooks \/ Time \/ Maintenance
    \/ \E s \in Slot : Send(s) \/ RecordSent(s) \/ SendFails(s)
    \/ \E p \in Policies : SetPolicyActive(p) \/ DeletePolicy(p)
    \/ StopDisabledPolicyRuns \/ DeleteRow
    \/ ChangeEdition \/ BulkDeactivate \/ BulkStop
    \/ Crash

Spec == Init /\ [][Next]_vars

\* The ticker keeps calling the evaluator, hooks and goroutines run to their
\* end, time passes, and every maintenance window closes.
Fairness ==
    /\ WF_vars(Evaluator) /\ WF_vars(Hooks)
    /\ \A r \in RunIds : WF_vars(r \in 1..Len(runs) /\ Tick(r))
    /\ \A s \in Slot : WF_vars(Send(s) \/ RecordSent(s) \/ SendFails(s)) /\ WF_vars(Age(s))
    /\ WF_vars(window /\ Maintenance)

FairSpec == Spec /\ Fairness

-----------------------------------------------------------------------------
Row(r, n, c) == deliv[[run |-> r, level |-> n, ch |-> c]]
Executed(r, n) == \A c \in ChannelsOf(n) : Row(r, n, c) # "none"

\* As long as executeLevel can insert its rows (a failed insert is logged and
\* passed over), no level is skipped: a level is dispatched only after every
\* channel of the level before it, and the exhausted notice after every level,
\* also when a crash splits a level from the progress that records it.
NoLevelSkipped ==
    "insert" \notin FaultyCalls =>
    \A r \in RunIds, c \in Channels :
      /\ \A n \in Levels \ {0} : Row(r, n, c) # "none" => Executed(r, n - 1)
      /\ Row(r, specialLevelExhausted, c) # "none" => \A n \in Levels : Executed(r, n)


\* Acknowledging stops the chain: only the level that was being dispatched when
\* the acknowledgment was written may still go out.
AtMostOneLateLevel ==
    \A r \in RunIds : Cardinality({n \in Levels : <<r, n>> \in late}) <= 1

\* Every run ends: it is stopped, or it goes through its levels and is
\* exhausted, whatever pauses and crashes come in between.
RunEnds ==
    LET going(r) == r \in 1..Len(runs) /\ runs[r].status \in Going IN
      \A r \in RunIds : going(r) ~> ~going(r)

\* No delivery stays pending: what a crash or a failed update leaves behind is
\* sent again or abandoned by a later cycle.
PendingEnds == \A s \in Slot : deliv[s] = "pending" ~> deliv[s] # "pending"
=============================================================================
