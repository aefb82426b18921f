------------------------------ MODULE Endpoint ------------------------------
(***************************************************************************)
(* One endpoint monitor (internal/endpoint/service.go, checker.go and the  *)
(* store) that the server probes itself.  The runner of the check engine   *)
(* and on-demand checks read the row and write it back; meanwhile runtime  *)
(* events of its container, or API requests for a standalone endpoint,     *)
(* start, stop, retire and delete it.  No lock spans a call.  The history  *)
(* of results is left out.  Counters stop at their thresholds: the code    *)
(* only compares them with those.                                          *)
(***************************************************************************)
EXTENDS Naturals, Sequences

CONSTANTS Checks,             \* checks that run at a time
          FailureThreshold, RecoveryThreshold,
          EpTrouble           \* bound on container changes, requests, on-demand
                              \* checks, failed store calls and restarts

VARIABLES ep,                 \* the row
          epSource,           \* label or standalone
          epRunner,           \* the engine has a runner for it
          epChecks,           \* checks in progress
          epCalls,            \* events and requests in progress: steps left
          epAlerts,           \* alerts the alert engine holds for it
          epContainer,        \* the container of a label endpoint; plain: it runs
                              \* without the label
          epEvents,           \* runtime events not handled yet
          epStream,           \* the event stream is up
          epOverlap,          \* history: two calls have run at a time
          epFaults, epBegun

vars == <<ep, epSource, epRunner, epChecks, epCalls, epAlerts, epContainer,
          epEvents, epStream, epOverlap, epFaults, epBegun>>
world == <<epContainer, epEvents, epStream>>
history == <<epOverlap, epFaults, epBegun>>

Managers == {"events", "api"}
Results == {"up", "degraded", "down"}
Counters == [alerting : BOOLEAN, fails : 0..FailureThreshold, succs : 0..RecoveryThreshold]
Fresh == [alerting |-> FALSE, fails |-> 0, succs |-> 0]
Ops == {"start", "unlabel", "stop", "destroy", "sweep", "create", "update", "delete", "none"}
Steps == {"upsert", "retire", "mustRetire", "halt", "resolve", "unknown", "edit", "load", "run",
          "erase"}
NoCheck == [pc |-> "idle", manual |-> FALSE, cancelled |-> FALSE, result |-> "up", seen |-> Fresh]
NoCall == [todo |-> <<>>, seen |-> Fresh]

\* Every variable ranges over the values the code can give it.
TypeOK ==
    /\ ep \in [at : {"absent", "active", "retired", "deleted"},
               status : Results \cup {"unknown"}, count : Counters]
    /\ epSource \in {"label", "standalone"} /\ epRunner \in BOOLEAN
    /\ epChecks \in [Checks -> [pc : {"idle", "probe", "read", "write", "reload", "emit", "mark"},
                                manual : BOOLEAN, cancelled : BOOLEAN, result : Results,
                                seen : Counters]]
    /\ \A m \in Managers : epCalls[m].todo \in Seq(Steps) /\ epCalls[m].seen \in Counters
    /\ epAlerts \subseteq {"consecutive_failure", "certificate_untrusted"}
    /\ epContainer \in {"running", "plain", "stopped", "gone"}
    /\ epEvents \in Seq({"start", "unlabel", "stop", "destroy"})
    /\ epStream \in BOOLEAN /\ epOverlap \in BOOLEAN
    /\ epFaults \in Nat /\ epBegun \in Nat /\ epFaults + epBegun <= EpTrouble

Init ==
    /\ ep = [at |-> "absent", status |-> "unknown", count |-> Fresh]
    /\ epSource \in {"label", "standalone"} /\ epRunner = FALSE
    /\ epChecks = [c \in Checks |-> NoCheck] /\ epCalls = [m \in Managers |-> NoCall]
    /\ epAlerts = {} /\ epContainer = "running"
    /\ epEvents = <<>> /\ epStream = FALSE
    /\ epOverlap = FALSE /\ epFaults = 0 /\ epBegun = 0

Exists == ep.at \in {"active", "retired"}
Running == {c \in Checks : epChecks[c].pc # "idle"}
Calling == {m \in Managers : epCalls[m].todo # <<>>}
Begins == epOverlap' = (epOverlap \/ Running # {} \/ Calling # {})
Trouble == epFaults + epBegun < EpTrouble
Spend == Trouble /\ epBegun' = epBegun + 1
Fault == Trouble /\ epFaults' = epFaults + 1
Capped(n, limit) == IF n < limit THEN n + 1 ELSE limit

-----------------------------------------------------------------------------
\* runLoop runs one check at a time; CheckNow one on demand.
Begin(c, manual) ==
    /\ c \notin Running
    /\ epChecks' = [epChecks EXCEPT ![c] = [NoCheck EXCEPT !.pc = "probe", !.manual = manual]]
    /\ Begins
    /\ UNCHANGED <<ep, epSource, epRunner, epCalls, epAlerts, world, epFaults>>
RunLoop(c) ==
    /\ epRunner /\ \A d \in Running : epChecks[d].manual \/ epChecks[d].cancelled
    /\ Begin(c, FALSE) /\ UNCHANGED epBegun
CheckNow(c) ==
    /\ Exists /\ \A d \in Running : ~epChecks[d].manual
    /\ Spend /\ Begin(c, TRUE)

\* The probe ends.  One that is cancelled under way, or started by a runner that
\* is cancelled already, is a failure like any other.
ProbeEnds(c) ==
    /\ epChecks[c].pc = "probe"
    /\ \E r \in Results : epChecks' = [epChecks EXCEPT ![c].pc = "read", ![c].result = r]
    /\ UNCHANGED <<ep, epSource, epRunner, epCalls, epAlerts, world, history>>

\* ProcessCheckResult counts on a copy of the row ...
Counted(count, result) ==
    IF result = "down"
    THEN [count EXCEPT !.fails = Capped(count.fails, FailureThreshold), !.succs = 0]
    ELSE [count EXCEPT !.succs = Capped(count.succs, RecoveryThreshold), !.fails = 0]
Read(c, pc) ==
    /\ \/ Exists /\ UNCHANGED epFaults
          /\ epChecks' = [epChecks EXCEPT ![c].pc = pc, ![c].seen = ep.count]
       \/ (IF Exists THEN Fault ELSE UNCHANGED epFaults)
          /\ epChecks' = [epChecks EXCEPT ![c] = NoCheck]
    /\ UNCHANGED <<ep, epSource, epRunner, epCalls, epAlerts, world, epOverlap, epBegun>>
GetEndpoint(c) == epChecks[c].pc = "read" /\ Read(c, "write")

\* ... writes the status, the counters and the alert state it has read ...
Written(status, count) ==
    IF Exists THEN [ep EXCEPT !.status = status, !.count = count] ELSE ep
UpdateCheckResult(c) ==
    /\ epChecks[c].pc = "write" /\ epChecks' = [epChecks EXCEPT ![c].pc = "reload", ![c].seen = Fresh]
    /\ \/ /\ ep' = Written(epChecks[c].result, Counted(epChecks[c].seen, epChecks[c].result))
          /\ UNCHANGED epFaults
       \/ Fault /\ UNCHANGED ep
    /\ UNCHANGED <<epSource, epRunner, epCalls, epAlerts, world, epOverlap, epBegun>>

\* ... reloads the row for the thresholds ...
Reload(c) == epChecks[c].pc = "reload" /\ Read(c, "emit")

Fires(count) == count.fails >= FailureThreshold /\ ~count.alerting
Recovers(count) == count.succs >= RecoveryThreshold /\ count.alerting
Crossed(check) == IF check.result = "down" THEN Fires(check.seen) ELSE Recovers(check.seen)

\* ... and emits the alerts: trust in the certificate, then the threshold.
Trusted(alerts, result) ==
    CASE result = "degraded" -> alerts \cup {"certificate_untrusted"}
      [] result = "up" -> alerts \ {"certificate_untrusted"}
      [] OTHER -> alerts
AlertCallback(c) ==
    LET check == epChecks[c]
        alerts == Trusted(epAlerts, check.result) IN
      /\ check.pc = "emit"
      /\ epAlerts' = IF ~Crossed(check) THEN alerts
                     ELSE IF check.result = "down" THEN alerts \cup {"consecutive_failure"}
                     ELSE alerts \ {"consecutive_failure"}
      /\ epChecks' = [epChecks EXCEPT ![c] =
                        IF Crossed(check) THEN [@ EXCEPT !.pc = "mark"] ELSE NoCheck]
      /\ UNCHANGED <<ep, epSource, epRunner, epCalls, world, history>>
UpdateAlertState(c) ==
    LET check == epChecks[c] IN
      /\ check.pc = "mark" /\ epChecks' = [epChecks EXCEPT ![c] = NoCheck]
      /\ \/ /\ ep' = Written(check.result, [check.seen EXCEPT !.alerting = check.result = "down"])
            /\ UNCHANGED epFaults
         \/ Fault /\ UNCHANGED ep
      /\ UNCHANGED <<epSource, epRunner, epCalls, epAlerts, world, epOverlap, epBegun>>

Proceed(c) ==
    \/ ProbeEnds(c) \/ GetEndpoint(c) \/ UpdateCheckResult(c) \/ Reload(c)
    \/ AlertCallback(c) \/ UpdateAlertState(c)

-----------------------------------------------------------------------------
\* The steps of each event and request, in the order the code takes them.
\* SyncEndpoints, HandleContainerStop, HandleContainerDestroy and
\* SweepOrphanedLabelEndpoints; CreateStandalone, UpdateStandalone and Delete.
Script(op) ==
    CASE op \in {"start", "create"} -> <<"upsert", "load", "run">>
      [] op = "unlabel" -> <<"mustRetire", "halt", "resolve">>
      [] op = "stop" -> <<"halt", "unknown">>
      [] op = "destroy" -> <<"halt", "retire", "resolve">>
      [] op = "sweep" -> <<"halt", "mustRetire", "resolve">>
      [] op = "update" -> <<"edit", "load", "run">>
      [] op = "delete" -> <<"halt", "resolve", "erase">>
      [] OTHER -> <<>>

Call(m, op) ==
    /\ m \notin Calling /\ Begins
    /\ epCalls' = [epCalls EXCEPT ![m] = [todo |-> Script(op),
                           seen |-> IF op = "stop" THEN ep.count ELSE Fresh]]
    /\ UNCHANGED <<ep, epSource, epRunner, epChecks, epAlerts>>

\* dispatchRuntimeEvent: the events of the container, one after the other.  The
\* queries list active endpoints only.
Handles(event) == IF event = "start" \/ ep.at = "active" THEN event ELSE "none"
DispatchEvent ==
    /\ epSource = "label" /\ epStream /\ epEvents # <<>>
    /\ epEvents' = Tail(epEvents)
    /\ \/ Call("events", Handles(Head(epEvents))) /\ UNCHANGED epFaults
       \/ Call("events", "none") /\ Fault
    /\ UNCHANGED <<epContainer, epStream, epBegun>>

\* wireContainerMonitoring, at the start and after each reconnect: reconcile, then
\* the event stream.  A container that exists is synchronised, stopped or not;
\* without one the endpoint is swept.
Discovered ==
    CASE epContainer \in {"running", "stopped"} -> "start"
      [] ep.at # "active" -> "none"
      [] epContainer = "plain" -> "unlabel"
      [] epContainer = "gone" -> "sweep"
Reconcile ==
    /\ epSource = "label" /\ ~epStream /\ epStream' = TRUE
    /\ Call("events", Discovered)
    /\ UNCHANGED <<epContainer, epEvents, epFaults, epBegun>>

\* The daemon is lost: the stream ends once its events are handled.
StreamEnds ==
    /\ epSource = "label" /\ epStream /\ epEvents = <<>> /\ "events" \notin Calling
    /\ Spend /\ epStream' = FALSE
    /\ UNCHANGED <<ep, epSource, epRunner, epChecks, epCalls, epAlerts, epContainer, epEvents,
                   epOverlap, epFaults>>

\* Requests: a label endpoint can be deleted once it is retired.
Request(m, op) ==
    /\ \/ /\ epSource = "standalone"
          /\ \/ op = "create" /\ ep.at = "absent" /\ Calling = {}
             \/ op \in {"update", "delete"} /\ Exists
       \/ epSource = "label" /\ m = "api" /\ op = "delete" /\ ep.at = "retired"
    /\ Spend /\ Call(m, op) /\ UNCHANGED <<world, epFaults>>

\* RemoveEndpoint cancels the runner and with it the check it is running.
Halted ==
    [c \in Checks |-> IF c \in Running /\ ~epChecks[c].manual
                      THEN [epChecks[c] EXCEPT !.cancelled = TRUE] ELSE epChecks[c]]

\* One step of a call, or its failure: a step whose failure the code only logs
\* goes on with the next one, the others give the call up.
GoesOn == {"retire", "unknown"}
Advance(m) == epCalls' = [epCalls EXCEPT ![m].todo = Tail(@)]
GiveUp(m) == epCalls' = [epCalls EXCEPT ![m] = NoCall]
Upserted ==
    IF Exists THEN [ep EXCEPT !.at = "active"]
    ELSE [at |-> "active", status |-> "unknown", count |-> Fresh]
Retired == IF ep.at = "active" THEN [ep EXCEPT !.at = "retired"] ELSE ep
Stored(step, seen) ==
    CASE step = "upsert" -> Upserted
      [] step \in {"retire", "mustRetire"} -> Retired
      [] step = "unknown" -> Written("unknown", seen)
      [] step = "erase" -> IF Exists THEN [ep EXCEPT !.at = "deleted", !.status = "unknown", !.count = Fresh] ELSE ep
      [] OTHER -> ep
StoreStep(m) ==
    LET step == Head(epCalls[m].todo)
        missing == (step = "load" /\ ~Exists) \/ (step = "edit" /\ ep.at # "active") IN
      /\ m \in Calling /\ step \notin {"halt", "resolve", "run"}
      /\ \/ /\ ep' = Stored(step, epCalls[m].seen) /\ UNCHANGED epFaults
            /\ IF missing THEN GiveUp(m) ELSE Advance(m)
         \/ /\ Fault /\ UNCHANGED ep
            /\ IF step \in GoesOn THEN Advance(m) ELSE GiveUp(m)
      /\ UNCHANGED <<epSource, epRunner, epChecks, epAlerts, world, epOverlap, epBegun>>

\* AddEndpoint replaces the runner, RemoveEndpoint stops it, and the removal
\* callback resolves the alerts (ResolveByEntity).
EngineStep(m) ==
    /\ m \in Calling /\ Head(epCalls[m].todo) \in {"halt", "run"}
    /\ epRunner' = (Head(epCalls[m].todo) = "run")
    /\ epChecks' = (IF epRunner THEN Halted ELSE epChecks) /\ Advance(m)
    /\ UNCHANGED <<ep, epSource, epAlerts, world, history>>
ResolveByEntity == {}
RemovedCallback(m) ==
    /\ m \in Calling /\ Head(epCalls[m].todo) = "resolve"
    /\ epAlerts' = ResolveByEntity /\ Advance(m)
    /\ UNCHANGED <<ep, epSource, epRunner, epChecks, world, history>>

-----------------------------------------------------------------------------
\* The container starts, stops and is removed; a stopped one may come back without
\* the label.
ContainerChanges(to, events) ==
    /\ epSource = "label" /\ Spend /\ epContainer' = to
    /\ epEvents' = (IF epStream THEN epEvents \o events ELSE epEvents)
    /\ UNCHANGED <<ep, epSource, epRunner, epChecks, epCalls, epAlerts, epStream, epOverlap,
                   epFaults>>
ContainerStarts ==
    \/ epContainer \in {"stopped", "gone"} /\ ContainerChanges("running", <<"start">>)
    \/ epContainer = "stopped" /\ ContainerChanges("plain", <<"unlabel">>)
ContainerStops == epContainer = "running" /\ ContainerChanges("stopped", <<"stop">>)
ContainerRemoved ==
    /\ epContainer # "gone"
    /\ ContainerChanges("gone", IF epContainer = "stopped" THEN <<"destroy">>
                                ELSE <<"stop", "destroy">>)

\* The process starts again: Start resumes the checks of a standalone endpoint.
Restart ==
    /\ Spend /\ epRunner' = (epSource = "standalone" /\ ep.at = "active")
    /\ epChecks' = [c \in Checks |-> NoCheck] /\ epCalls' = [m \in Managers |-> NoCall]
    /\ epEvents' = <<>> /\ epStream' = FALSE
    /\ epOverlap' = (epOverlap \/ Running # {} \/ Calling # {})
    /\ UNCHANGED <<ep, epSource, epAlerts, epContainer, epFaults>>

Manage(m) == StoreStep(m) \/ EngineStep(m) \/ RemovedCallback(m)

Next ==
    \/ \E c \in Checks : RunLoop(c) \/ CheckNow(c) \/ Proceed(c)
    \/ DispatchEvent \/ Reconcile \/ StreamEnds
    \/ \E m \in Managers, op \in {"create", "update", "delete"} : Request(m, op)
    \/ \E m \in Managers : Manage(m)
    \/ ContainerStarts \/ ContainerStops \/ ContainerRemoved \/ Restart

Spec == Init /\ [][Next]_vars

-----------------------------------------------------------------------------
Quiet == Running = {} /\ Calling = {} /\ epEvents = <<>>


\* "3 consecutive failures = alert (default)" (docs/features/endpoints.md): an
\* active endpoint that has failed as often as the threshold says has its alert
\* open, also when calls neither overlap nor fail.
FailingIsAlerted ==
    ~epOverlap /\ epFaults = 0 /\ Quiet /\ ep.at = "active" /\ ep.status = "down" =>
      (ep.count.fails >= FailureThreshold => "consecutive_failure" \in epAlerts)
=============================================================================
