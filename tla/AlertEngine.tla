---------------------------- MODULE AlertEngine ----------------------------
(***************************************************************************)
(* The alert engine: one goroutine takes the events of every monitor from  *)
(* a buffered channel, keeps a map of the active alerts for deduplication  *)
(* and recovery linking, and persists each alert as a row.  The map is     *)
(* guarded by a mutex, but no lock spans the map and the store, so every   *)
(* store call below is a step of its own.  Two other kinds of goroutine    *)
(* touch the same alerts: the callbacks that resolve the alerts of a       *)
(* removed or paused entity, and the API calls that acknowledge one.       *)
(* Escalation runs are abstracted to the set of alerts that have one       *)
(* (module Escalation has the detail), notifications to the set sent.      *)
(***************************************************************************)
EXTENDS Naturals, Sequences, FiniteSets

CONSTANTS Keys,          \* dedup keys (source, alert type, entity)
          EntityOf,      \* the entity each key names
          SeveritiesOf,  \* the severities each key is raised with, as ranked by
                         \* severityRank: info 0, warning 1, critical 2
          Deletable,     \* entities an operator or the runtime may remove
          Returning,     \* entities whose alerts may be resolved and that go on
                         \* reporting, once in a behaviour: paused heartbeats,
                         \* archived containers
          Users,         \* concurrent acknowledgment requests
          Buffer,        \* engineChannelBuffer
          MaxEvents,     \* bound on emitted events
          MaxFaults,     \* bound on failed store calls
          MaxCrashes,    \* bound on restarts
          MaxTrouble     \* bound on the two together

ASSUME EngineAssumption ==
    /\ (\A k \in Keys : SeveritiesOf[k] \subseteq 0..2) /\ Buffer \in Nat \ {0}
    /\ MaxEvents \in Nat /\ MaxFaults \in Nat /\ MaxCrashes \in Nat
    /\ MaxTrouble \in Nat

VARIABLES queue,      \* eventCh
          emitted,    \* events put on eventCh so far
          alerts,     \* rows of the alerts table, in insertion order
          live,       \* activeAlerts
          engine,     \* the engine goroutine: where it is and what it holds
          resolving,  \* alerts ResolveByEntity has taken off the map
          acking,     \* each acknowledgment request
          acks,       \* acknowledgment hooks run, per alert
          escalating, \* alerts with an escalation run
          told,       \* notifications handed to the notifier
          gone,       \* entities deleted from monitoring
          cleared,    \* entities ResolveByEntity was called for
          faults, crashes

vars == <<queue, emitted, alerts, live, engine, resolving, acking, acks,
          escalating, told, gone, cleared, faults, crashes>>

Severities == 0..2
Entities == {EntityOf[k] : k \in Keys}
Ids == 1..(2 * MaxEvents)
Event == [key : Keys, sev : Severities, recover : BOOLEAN]
Row == [key : Keys, sev : Severities, status : {"active", "silenced", "resolved"},
        acked : BOOLEAN, by : Ids \cup {0}]
Tracked == [id : Ids, sev : Severities, acked : BOOLEAN]
None == [id |-> 0, sev |-> 0, acked |-> FALSE]
NoEvent == [key |-> CHOOSE k \in Keys : TRUE, sev |-> 0, recover |-> FALSE]
Engine(pc, evt, cur) == [pc |-> pc, evt |-> evt, cur |-> cur]
IdleEngine == Engine("idle", NoEvent, None)
IdleAck == [pc |-> "idle", id |-> 0]

\* Every variable ranges over the values the engine can give it.
TypeOK ==
    /\ queue \in Seq(Event) /\ Len(queue) <= Buffer
    /\ emitted \in 0..MaxEvents
    /\ alerts \in Seq(Row)
    /\ live \in [Keys -> Tracked \cup {None}]
    /\ engine \in [pc : {"idle", "insert", "track", "created", "raise", "reload",
                         "retrack", "raised", "recover", "resolve", "resolved"},
                   evt : Event, cur : Tracked \cup {None}]
    /\ resolving \subseteq [id : Ids, pc : {"update", "hook"}]
    /\ acking \in [Users -> [pc : {"idle", "write", "hook"}, id : Ids \cup {0}]]
    /\ acks \in [Ids -> Nat]
    /\ escalating \subseteq Ids
    /\ told \subseteq Ids \X {"fired", "resolved"}
    /\ gone \subseteq cleared /\ cleared \subseteq Entities
    /\ faults \in 0..MaxFaults /\ crashes \in 0..MaxCrashes

Init ==
    /\ queue = << >> /\ emitted = 0 /\ alerts = << >>
    /\ live = [k \in Keys |-> None]
    /\ engine = IdleEngine
    /\ resolving = {} /\ acking = [u \in Users |-> IdleAck]
    /\ acks = [i \in Ids |-> 0] /\ escalating = {} /\ told = {} /\ gone = {} /\ cleared = {}
    /\ faults = 0 /\ crashes = 0

Active(i) == i \in 1..Len(alerts) /\ alerts[i].status = "active"
ActiveRows(k) == {i \in 1..Len(alerts) : Active(i) /\ alerts[i].key = k}

-----------------------------------------------------------------------------
\* The channel of the engine takes engineChannelBuffer events.
AlwaysRoom == TRUE
HasRoom == Len(queue) < Buffer

\* emitAlert: a monitor puts an event on the channel, waiting while it is full.
Emit(evt) ==
    /\ emitted < MaxEvents /\ HasRoom
    /\ IF evt.recover THEN evt.sev = 0 ELSE evt.sev \in SeveritiesOf[evt.key]
    /\ EntityOf[evt.key] \notin gone
    /\ queue' = Append(queue, evt) /\ emitted' = emitted + 1
    /\ UNCHANGED <<alerts, live, engine, resolving, acking, acks, escalating,
                   told, gone, cleared, faults, crashes>>

Trouble == faults + crashes < MaxTrouble
Fault == faults < MaxFaults /\ Trouble /\ faults' = faults + 1
Step(e) == engine' = e
Done == Step(IdleEngine)

\* A tracked alert is raised by a strictly more severe event only.
RaisesOnChange(evt, cur) == evt.sev # cur.sev
Raises(evt, cur) == evt.sev > cur.sev

\* The lookup of the dedup key in activeAlerts.
LookupOpen(k) == IF live[k].acked THEN None ELSE live[k]
Lookup(k) == live[k]

\* processEvent up to its first store call: a recovery takes the alert off the
\* map, a duplicate is skipped, a more severe event raises the tracked alert in
\* memory, anything else is a new alert.
ProcessEvent ==
    /\ engine.pc = "idle" /\ queue # << >>
    /\ queue' = Tail(queue)
    /\ LET evt == Head(queue) k == evt.key cur == Lookup(k) IN
         IF evt.recover
         THEN IF cur = None
              THEN UNCHANGED <<live, engine>>
              ELSE live' = [live EXCEPT ![k] = None] /\ Step(Engine("recover", evt, cur))
         ELSE IF cur = None
         THEN Step(Engine("insert", evt, None)) /\ UNCHANGED live
         ELSE IF Raises(evt, cur)
         THEN /\ live' = [live EXCEPT ![k].sev = evt.sev]
              /\ Step(Engine("raise", evt, [cur EXCEPT !.sev = evt.sev]))
         ELSE UNCHANGED <<live, engine>>
    /\ UNCHANGED <<emitted, alerts, resolving, acking, acks, escalating, told,
                   gone, cleared, faults, crashes>>

\* A silenced alert is stored, and neither tracked, escalated nor sent.
Tracks(silenced) == ~silenced

\* The silence rules and maintenance windows are read, then the row is inserted.
InsertAlert ==
    /\ engine.pc = "insert"
    /\ \E silenced \in BOOLEAN :
         /\ alerts' = Append(alerts,
              [key |-> engine.evt.key, sev |-> engine.evt.sev, acked |-> FALSE, by |-> 0,
               status |-> IF silenced THEN "silenced" ELSE "active"])
         /\ IF Tracks(silenced)
            THEN Step(Engine("track", engine.evt,
                   [id |-> Len(alerts) + 1, sev |-> engine.evt.sev, acked |-> FALSE]))
            ELSE Done
    /\ UNCHANGED <<queue, emitted, live, resolving, acking, acks, escalating,
                   told, gone, cleared, faults, crashes>>

\* activeAlerts[key] = a, for a new alert and for a raised one.
Track ==
    /\ engine.pc \in {"track", "retrack"}
    /\ live' = [live EXCEPT ![engine.evt.key] = engine.cur]
    /\ Step(Engine(IF engine.pc = "track" THEN "created" ELSE "raised", engine.evt, engine.cur))
    /\ UNCHANGED <<queue, emitted, alerts, resolving, acking, acks, escalating,
                   told, gone, cleared, faults, crashes>>

Dispatch(e) == {<<e.cur.id, "fired">>}

\* OnAlertCreated starts the matching runs, unless a raised alert is
\* acknowledged; then the notifications are dispatched.
Announce ==
    /\ engine.pc \in {"created", "raised"}
    /\ escalating' = IF engine.cur.acked THEN escalating ELSE escalating \cup {engine.cur.id}
    /\ told' = told \cup Dispatch(engine)
    /\ Done
    /\ UNCHANGED <<queue, emitted, alerts, live, resolving, acking, acks, gone, cleared,
                   faults, crashes>>

\* The columns an escalation writes: not the status.
RefreshedActive(row, sev) == [row EXCEPT !.sev = sev, !.status = "active"]
Refreshed(row, sev) == [row EXCEPT !.sev = sev]

\* UpdateAlertOnEscalation, by id, whatever the status of the row.
UpdateAlertOnEscalation ==
    /\ engine.pc = "raise"
    /\ alerts' = [alerts EXCEPT ![engine.cur.id] = Refreshed(@, engine.evt.sev)]
    /\ Step(Engine("reload", engine.evt, engine.cur))
    /\ UNCHANGED <<queue, emitted, live, resolving, acking, acks, escalating,
                   told, gone, cleared, faults, crashes>>

\* GetAlert: the acknowledgment is copied from the row; a failed read is logged.
ReloadAck ==
    /\ engine.pc = "reload"
    /\ \/ /\ Step(Engine("retrack", engine.evt,
                         [engine.cur EXCEPT !.acked = alerts[engine.cur.id].acked]))
          /\ UNCHANGED faults
       \/ Fault /\ Step(Engine("retrack", engine.evt, engine.cur))
    /\ UNCHANGED <<queue, emitted, alerts, live, resolving, acking, acks,
                   escalating, told, gone, cleared, crashes>>

\* processRecovery: the recovery record is inserted ...
InsertRecovery ==
    /\ engine.pc = "recover"
    /\ alerts' = Append(alerts, [key |-> engine.evt.key, sev |-> engine.evt.sev,
                                 acked |-> FALSE, by |-> 0, status |-> "resolved"])
    /\ Step(Engine("resolve", engine.evt, engine.cur))
    /\ UNCHANGED <<queue, emitted, live, resolving, acking, acks, escalating,
                   told, gone, cleared, faults, crashes>>

\* ... the original is resolved and linked to it (an error is only logged) ...
ResolveOriginal ==
    /\ engine.pc = "resolve"
    /\ \/ /\ alerts' = [alerts EXCEPT ![engine.cur.id].status = "resolved",
                                      ![engine.cur.id].by = Len(alerts)]
          /\ UNCHANGED faults
       \/ Fault /\ UNCHANGED alerts
    /\ Step(Engine("resolved", engine.evt, engine.cur))
    /\ UNCHANGED <<queue, emitted, live, resolving, acking, acks, escalating,
                   told, gone, cleared, crashes>>

\* ... OnAlertResolved ends its runs, and the recovery is dispatched.
AnnounceResolved ==
    /\ engine.pc = "resolved"
    /\ escalating' = escalating \ {engine.cur.id}
    /\ told' = told \cup {<<engine.cur.id, "resolved">>}
    /\ Done
    /\ UNCHANGED <<queue, emitted, alerts, live, resolving, acking, acks, gone, cleared,
                   faults, crashes>>

\* A failed insert or raise ends the handling of the event.
EngineStoreFails ==
    /\ engine.pc \in {"insert", "raise", "recover"}
    /\ Fault /\ Done
    /\ UNCHANGED <<queue, emitted, alerts, live, resolving, acking, acks,
                   escalating, told, gone, cleared, crashes>>

-----------------------------------------------------------------------------
\* ResolveByEntity takes every alert of the entity off the map under the lock
\* and resolves the rows afterwards, in the goroutine of the callback.
TakeEntity(e) ==
    LET taken == {k \in Keys : EntityOf[k] = e /\ live[k] # None} IN
      /\ live' = [k \in Keys |-> IF k \in taken THEN None ELSE live[k]]
      /\ resolving' = resolving \cup {[id |-> live[k].id, pc |-> "update"] : k \in taken}

\* A heartbeat is paused, a container archived or a monitor deleted: its alerts
\* are resolved.
ResolveByEntity(e) ==
    /\ e \notin gone
    /\ \/ e \in Returning \ cleared /\ UNCHANGED gone
       \/ e \in Deletable /\ gone' = gone \cup {e}
    /\ cleared' = cleared \cup {e} /\ TakeEntity(e)
    /\ UNCHANGED <<queue, emitted, alerts, engine, acking, acks, escalating,
                   told, faults, crashes>>

\* UpdateAlertStatus without a recovery record; on an error the alert is left.
ResolveRemoved(i) ==
    /\ [id |-> i, pc |-> "update"] \in resolving
    /\ LET others == resolving \ {[id |-> i, pc |-> "update"]} IN
         \/ /\ alerts' = [alerts EXCEPT ![i].status = "resolved", ![i].by = 0]
            /\ resolving' = others \cup {[id |-> i, pc |-> "hook"]}
            /\ UNCHANGED faults
         \/ Fault /\ resolving' = others /\ UNCHANGED alerts
    /\ UNCHANGED <<queue, emitted, live, engine, acking, acks, escalating, told,
                   gone, cleared, crashes>>

\* OnAlertResolved for an alert of a removed entity.
RemovedHook(i) ==
    /\ [id |-> i, pc |-> "hook"] \in resolving
    /\ resolving' = resolving \ {[id |-> i, pc |-> "hook"]}
    /\ escalating' = escalating \ {i}
    /\ UNCHANGED <<queue, emitted, alerts, live, engine, acking, acks, told, gone, cleared,
                   faults, crashes>>

-----------------------------------------------------------------------------
\* Acknowledge reads the row and refuses one that is not active or is
\* acknowledged ...
Acknowledge(u, i) ==
    /\ acking[u].pc = "idle" /\ Active(i) /\ ~alerts[i].acked
    /\ acking' = [acking EXCEPT ![u] = [pc |-> "write", id |-> i]]
    /\ UNCHANGED <<queue, emitted, alerts, live, engine, resolving, acks,
                   escalating, told, gone, cleared, faults, crashes>>

\* The condition of the acknowledging UPDATE.
MatchesAny(i) == TRUE
MatchesOpen(i) == Active(i) /\ ~alerts[i].acked

\* ... the update repeats the condition, and no matching row is a refusal ...
AcknowledgeAlert(u) ==
    /\ acking[u].pc = "write"
    /\ LET i == acking[u].id IN
         IF MatchesOpen(i)
         THEN /\ alerts' = [alerts EXCEPT ![i].acked = TRUE]
              /\ acking' = [acking EXCEPT ![u].pc = "hook"]
         ELSE acking' = [acking EXCEPT ![u] = IdleAck] /\ UNCHANGED alerts
    /\ UNCHANGED <<queue, emitted, live, engine, resolving, acks, escalating,
                   told, gone, cleared, faults, crashes>>

\* ... and OnAlertAcknowledged ends the runs and notifies who was notified.
AcknowledgedHook(u) ==
    /\ acking[u].pc = "hook"
    /\ acks' = [acks EXCEPT ![acking[u].id] = @ + 1]
    /\ escalating' = escalating \ {acking[u].id}
    /\ acking' = [acking EXCEPT ![u] = IdleAck]
    /\ UNCHANGED <<queue, emitted, alerts, live, engine, resolving, told, gone, cleared,
                   faults, crashes>>

-----------------------------------------------------------------------------
\* processRun stops a run whose alert is closed or acknowledged.
StopsClosed(i) == ~Active(i)
Stops(i) == ~Active(i) \/ alerts[i].acked

\* An escalation cycle ends the runs of such alerts ...
EscalationCycle ==
    LET dead == {i \in escalating : Stops(i)} IN
      /\ dead # {} /\ escalating' = escalating \ dead
      /\ UNCHANGED <<queue, emitted, alerts, live, engine, resolving, acking,
                     acks, told, gone, cleared, faults, crashes>>

\* ... and a run also ends when its last level is past.
Exhausted(i) ==
    /\ i \in escalating /\ escalating' = escalating \ {i}
    /\ UNCHANGED <<queue, emitted, alerts, live, engine, resolving, acking, acks,
                   told, gone, cleared, faults, crashes>>

\* ListActiveAlerts, for one key.
ListUnacknowledged(k) == {i \in ActiveRows(k) : ~alerts[i].acked}
ListActive(k) == ActiveRows(k)

\* reloadActiveAlerts: newest first into the map, so the oldest row wins a key.
Reloaded ==
    [k \in Keys |->
       IF ListActive(k) = {} THEN None
       ELSE LET i == CHOOSE i \in ListActive(k) : \A j \in ListActive(k) : i <= j
            IN [id |-> i, sev |-> alerts[i].sev, acked |-> alerts[i].acked]]

\* The process stops anywhere and starts again: memory is rebuilt from the rows
\* (or empty, when the read fails), and pruneOrphanAlerts resolves the alerts of
\* entities that no longer exist.
Restart ==
    /\ crashes < MaxCrashes /\ Trouble /\ crashes' = crashes + 1
    /\ queue' = << >> /\ engine' = IdleEngine
    /\ acking' = [u \in Users |-> IdleAck]
    /\ \/ LET kept == {k \in Keys : EntityOf[k] \notin gone}
              pruned == {k \in Keys \ kept : Reloaded[k] # None} IN
            /\ live' = [k \in Keys |-> IF k \in kept THEN Reloaded[k] ELSE None]
            /\ resolving' = {[id |-> Reloaded[k].id, pc |-> "update"] : k \in pruned}
            /\ UNCHANGED faults
       \/ Fault /\ live' = [k \in Keys |-> None] /\ resolving' = {}
    /\ UNCHANGED <<emitted, alerts, acks, escalating, told, gone, cleared>>

-----------------------------------------------------------------------------
EngineStep ==
    \/ ProcessEvent \/ InsertAlert \/ Track \/ Announce \/ UpdateAlertOnEscalation
    \/ ReloadAck \/ InsertRecovery \/ ResolveOriginal \/ AnnounceResolved

Callback == \E i \in 1..Len(alerts) : ResolveRemoved(i) \/ RemovedHook(i)
Request == \E u \in Users : AcknowledgeAlert(u) \/ AcknowledgedHook(u)

Next ==
    \/ \E evt \in Event : Emit(evt)
    \/ EngineStep \/ EngineStoreFails
    \/ \E e \in Entities : ResolveByEntity(e)
    \/ Callback
    \/ \E u \in Users, i \in 1..Len(alerts) : Acknowledge(u, i)
    \/ Request
    \/ EscalationCycle \/ Restart
    \/ \E i \in 1..Len(alerts) : Exhausted(i)

Spec == Init /\ [][Next]_vars

\* The engine goroutine, the callbacks, the requests and the ticker of the
\* escalation evaluator all keep running.
Fairness ==
    /\ WF_vars(EngineStep) /\ WF_vars(Callback) /\ WF_vars(Request)
    /\ WF_vars(EscalationCycle)

FairSpec == Spec /\ Fairness

-----------------------------------------------------------------------------
\* The severity of a stored alert never goes down, though it is written by id
\* from a copy held in memory that restarts, failed writes and removals leave
\* out of step with the row (processEvent, escalateAlert).
SeverityNeverDrops ==
    [][\A i \in 1..Len(alerts) : alerts'[i].sev >= alerts[i].sev]_vars

\* A resolved or silenced row never becomes active again and an acknowledgment
\* is never lost, whichever of the engine, a removal callback or an
\* acknowledgment request writes the row last.
ClosedIsFinal ==
    [][\A i \in 1..Len(alerts) :
         /\ alerts[i].status # "active" => alerts'[i].status = alerts[i].status
         /\ alerts[i].acked => alerts'[i].acked]_vars

\* Acknowledging stores the acknowledgment once: of the requests racing on one
\* alert at most one gets past the update and runs the escalation hook.
AckedOnce == \A i \in Ids : acks[i] <= 1

\* One active alert per source, type and entity, as long as no store call fails
\* and the entity is not deleted, paused or archived: a further event while an alert
\* is active never stores a second one, across restarts and acknowledgments.
OneActiveAlert ==
    faults = 0 =>
      \A k \in Keys : EntityOf[k] \notin cleared => Cardinality(ActiveRows(k)) <= 1

\* Between two events the engine's map and the table agree: an alert is tracked
\* under its row's id and severity exactly when the row is active, for the
\* entities that are not deleted, paused or archived.
Mirrored ==
    faults = 0 /\ engine.pc = "idle" =>
      \A k \in {j \in Keys : EntityOf[j] \notin cleared} :
        IF live[k] = None
        THEN ActiveRows(k) = {}
        ELSE /\ live[k].id \in ActiveRows(k)
             /\ live[k].sev = alerts[live[k].id].sev


\* The chain stops once the alert is acknowledged or resolved: whatever run a
\* racing OnAlertCreated inserted after the stop hook looked is ended too.
EscalationStops ==
    \A i \in Ids :
      (i \in 1..Len(alerts) /\ (~Active(i) \/ alerts[i].acked))
        ~> [](i \notin escalating)

\* The active alerts of an entity that is deleted are resolved.
RemovedIsResolved ==
    \A i \in Ids :
      (Active(i) /\ EntityOf[alerts[i].key] \in gone) ~> ~Active(i)
=============================================================================
