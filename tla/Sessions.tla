------------------------------ MODULE Sessions ------------------------------
(***************************************************************************)
(* The server's registry of agent streams                                  *)
(* (internal/commercial/multihost/sessions.go) with what drives it: the    *)
(* Push handler of each stream, the stale watcher, and the revoke and      *)
(* delete requests of the API.  The registry is changed under its lock;    *)
(* the lifecycle hook, which opens and resolves the "disconnected" alert,  *)
(* runs after the lock is released.  Agents do not share state here, so    *)
(* one agent is modelled.                                                  *)
(***************************************************************************)
EXTENDS Naturals, FiniteSets

CONSTANTS Streams,      \* Push streams the agent opens over time
          None,         \* no stream
          MaxRestarts,  \* bound on server restarts
          MaxRequests   \* bound on revoke and delete requests

VARIABLES agRow,        \* the agent's row: status, or deleted
          agSeen,       \* last_seen_at: never, within the threshold, older
          stream,       \* each Push handler: where it is, why it was cancelled
          active,       \* Sessions.active
          reported,     \* Sessions.offlineReported
          disconnected, \* the "disconnected" alert is open
          watcher,      \* the stale watcher; streams opened since its query
          settled,      \* the grace period after the start is over
          request,      \* the revoke or delete request in progress
          told,         \* history: causes the agent was told
          crossed,      \* history: two calls have run at a time
          restarts, requests

vars == <<agRow, agSeen, stream, active, reported, disconnected, watcher, settled,
          request, told, crossed, restarts, requests>>
rowVars == <<agRow, agSeen>>
registry == <<active, reported>>

Causes == {"none", "revoked", "replaced", "stale", "closed"}
Terminal == {"revoked", "deleted"}

\* Every variable ranges over the values the code can give it.
TypeOK ==
    /\ agRow \in {"active"} \cup Terminal /\ agSeen \in {"never", "fresh", "stale"}
    /\ stream \in [Streams -> [pc : {"new", "auth", "opened", "hooked", "run", "ended",
                                      "removed", "marked", "done"}, cause : Causes]]
    /\ active \in Streams \cup {None} /\ reported \in BOOLEAN /\ disconnected \in BOOLEAN
    /\ watcher \in [pc : {"idle", "listed", "hook"}, young : SUBSET Streams]
    /\ settled \in BOOLEAN
    /\ request \in [pc : {"idle", "close", "removed", "marked", "row"},
                    reason : Terminal]
    /\ told \subseteq Causes /\ crossed \in BOOLEAN
    /\ restarts \in 0..MaxRestarts /\ requests \in 0..MaxRequests

Quiet == [pc |-> "idle", young |-> {}]
NoRequest == [pc |-> "idle", reason |-> "revoked"]

Init ==
    /\ agRow = "active" /\ agSeen = "never"
    /\ stream = [s \in Streams |-> [pc |-> "new", cause |-> "none"]]
    /\ active = None /\ reported = FALSE /\ disconnected = FALSE
    /\ watcher = Quiet /\ settled = FALSE /\ request = NoRequest
    /\ told = {} /\ crossed = FALSE /\ restarts = 0 /\ requests = 0

\* Calls that have acted on what they read or changed, and are not over.
Busy ==
    \/ \E s \in Streams : stream[s].pc \in {"auth", "opened", "removed", "marked"}
    \/ watcher.pc # "idle" \/ request.pc # "idle"
Begins == crossed' = (crossed \/ Busy)
Goto(s, pc) == stream' = [stream EXCEPT ![s].pc = pc]

CauseForReason(reason) ==
    CASE reason \in Terminal -> "revoked" [] reason = "stale" -> "stale" [] OTHER -> "closed"
Cancelled(cause) ==
    IF active = None \/ stream[active].cause # "none" THEN stream
    ELSE [stream EXCEPT ![active].cause = cause]

-----------------------------------------------------------------------------
\* Push, phases 1 and 2: the agent connects and its row is checked.  An agent
\* told that it is revoked gives its identity up.
Authenticate(s) ==
    /\ stream[s].pc = "new" /\ agRow = "active" /\ "revoked" \notin told
    /\ Goto(s, "auth") /\ Begins
    /\ UNCHANGED <<rowVars, registry, disconnected, watcher, settled, request, told,
                   restarts, requests>>

\* Open: registers the stream and cancels the one before.
LeftRunning == stream
Superseded == Cancelled("replaced")
Open(s) ==
    /\ stream[s].pc = "auth"
    /\ stream' = [Superseded EXCEPT ![s].pc = "opened"]
    /\ active' = s /\ reported' = FALSE
    /\ watcher' = [watcher EXCEPT !.young = IF watcher.pc = "listed" THEN @ \cup {s} ELSE @]
    /\ UNCHANGED <<rowVars, disconnected, settled, request, told, crossed, restarts, requests>>

\* The hook of Open: the reconnection resolves the alert.
ConnectHookSilent(s) ==
    /\ stream[s].pc = "opened" /\ Goto(s, "hooked")
    /\ UNCHANGED <<rowVars, registry, disconnected, watcher, settled, request, told, crossed,
                   restarts, requests>>
ConnectHook(s) ==
    /\ stream[s].pc = "opened" /\ Goto(s, "hooked") /\ disconnected' = FALSE
    /\ UNCHANGED <<rowVars, registry, watcher, settled, request, told, crossed, restarts, requests>>

Seen == agSeen' = IF agRow = "deleted" THEN agSeen ELSE "fresh"

\* markConnected, after which the handler serves the stream.
MarkConnected(s) ==
    /\ stream[s].pc = "hooked" /\ Goto(s, "run") /\ Seen
    /\ UNCHANGED <<agRow, registry, disconnected, watcher, settled, request, told, crossed,
                   restarts, requests>>

\* touchLiveness: any message proves the agent alive.
TouchLiveness(s) ==
    /\ stream[s].pc = "run" /\ agSeen # "fresh" /\ Seen
    /\ UNCHANGED <<agRow, stream, registry, disconnected, watcher, settled, request, told,
                   crossed, restarts, requests>>

\* run returns: the stream broke, or it was cancelled and the agent is told why.
RunEnds(s) ==
    /\ stream[s].pc = "run" /\ Goto(s, "ended")
    /\ told' = told \cup {stream[s].cause}
    /\ UNCHANGED <<rowVars, registry, disconnected, watcher, settled, request, crossed,
                   restarts, requests>>

\* The deferred CloseStream: removes the stream it opened, and no other.
OwnsAny(s) == active # None
Owns(s) == active = s
Remove(s) ==
    /\ stream' = [Cancelled(CauseForReason("stream_ended")) EXCEPT ![s].pc = "removed"]
    /\ active' = None /\ Begins
CloseStream(s) ==
    /\ stream[s].pc = "ended"
    /\ IF Owns(s) THEN Remove(s) ELSE Goto(s, "done") /\ UNCHANGED <<active, crossed>>
    /\ UNCHANGED <<rowVars, reported, disconnected, watcher, settled, request, told,
                   restarts, requests>>

\* remove marks the outage as reported, then the hook raises the alert.
MarkOffline(s) ==
    /\ stream[s].pc = "removed" /\ Goto(s, "marked") /\ reported' = TRUE
    /\ UNCHANGED <<rowVars, active, disconnected, watcher, settled, request, told, crossed,
                   restarts, requests>>
DisconnectHook(s) ==
    /\ stream[s].pc = "marked" /\ Goto(s, "done") /\ disconnected' = TRUE
    /\ UNCHANGED <<rowVars, registry, watcher, settled, request, told, crossed, restarts, requests>>

-----------------------------------------------------------------------------
\* The stale watcher's query: active agents not seen within the threshold.
StaleAgents ==
    /\ watcher.pc = "idle" /\ agRow = "active" /\ agSeen = "stale"
    /\ watcher' = [pc |-> "listed", young |-> {}] /\ Begins
    /\ UNCHANGED <<rowVars, stream, registry, disconnected, settled, request, told,
                   restarts, requests>>

\* The sweep of one agent under the lock: a stream older than the query is
\* closed, and an outage that is not reported yet is announced.
AnnounceStream(connected) == connected
Announce(connected) == connected \/ (settled /\ ~reported)
Sweep ==
    LET announce == Announce(active # None) IN
      /\ watcher.pc = "listed"
      /\ IF active \in watcher.young
         THEN watcher' = Quiet /\ UNCHANGED <<stream, registry>>
         ELSE /\ stream' = Cancelled(CauseForReason("stale")) /\ active' = None
              /\ reported' = (reported \/ announce)
              /\ watcher' = IF announce THEN [Quiet EXCEPT !.pc = "hook"] ELSE Quiet
      /\ UNCHANGED <<rowVars, disconnected, settled, request, told, crossed, restarts, requests>>

StaleHook ==
    /\ watcher.pc = "hook" /\ watcher' = Quiet /\ disconnected' = TRUE
    /\ UNCHANGED <<rowVars, stream, registry, settled, request, told, crossed, restarts, requests>>

-----------------------------------------------------------------------------
\* HandleRevokeAgent writes the row before it closes the stream,
\* HandleDeleteAgent the other way round.
RequestBegins(reason) ==
    /\ request.pc = "idle" /\ agRow # "deleted" /\ requests < MaxRequests
    /\ requests' = requests + 1 /\ Begins
    /\ request' = [pc |-> "close", reason |-> reason]
    /\ agRow' = IF reason = "revoked" THEN "revoked" ELSE agRow
    /\ UNCHANGED <<agSeen, stream, registry, disconnected, watcher, settled, told, restarts>>

\* Close removes whatever stream there is.
Close ==
    /\ request.pc = "close" /\ request' = [request EXCEPT !.pc = "removed"]
    /\ stream' = Cancelled(CauseForReason(request.reason)) /\ active' = None
    /\ UNCHANGED <<rowVars, reported, disconnected, watcher, settled, told, crossed,
                   restarts, requests>>
MarkRemoved ==
    /\ request.pc = "removed" /\ request' = [request EXCEPT !.pc = "marked"]
    /\ reported' = FALSE
    /\ UNCHANGED <<rowVars, stream, active, disconnected, watcher, settled, told, crossed,
                   restarts, requests>>
\* The hook of a terminal removal resolves the alert, connected or not.
TerminalHook ==
    /\ request.pc = "marked" /\ disconnected' = FALSE
    /\ request' = IF request.reason = "deleted" THEN [request EXCEPT !.pc = "row"] ELSE NoRequest
    /\ UNCHANGED <<rowVars, stream, registry, watcher, settled, told, crossed, restarts, requests>>
DeleteRow ==
    /\ request.pc = "row" /\ request' = NoRequest /\ agRow' = "deleted"
    /\ UNCHANGED <<agSeen, stream, registry, disconnected, watcher, settled, told, crossed,
                   restarts, requests>>

-----------------------------------------------------------------------------
\* Time passes: the last sign of life ages, the grace period ends.
Ages ==
    /\ agSeen = "fresh" /\ agSeen' = "stale"
    /\ UNCHANGED <<agRow, stream, registry, disconnected, watcher, settled, request, told,
                   crossed, restarts, requests>>
GraceEnds ==
    /\ ~settled /\ settled' = TRUE
    /\ UNCHANGED <<rowVars, stream, registry, disconnected, watcher, request, told, crossed,
                   restarts, requests>>

\* The server stops, raising no alert on the way down, and starts again with an
\* empty registry.  The agent's row and the alert are stored.
Restart ==
    /\ restarts < MaxRestarts /\ restarts' = restarts + 1
    /\ stream' = [s \in Streams |-> IF stream[s].pc = "new" THEN stream[s]
                                    ELSE [pc |-> "done", cause |-> "none"]]
    /\ active' = None /\ reported' = FALSE /\ settled' = FALSE
    /\ watcher' = Quiet /\ request' = NoRequest
    /\ crossed' = (crossed \/ Busy)
    /\ UNCHANGED <<rowVars, disconnected, told, requests>>

Handler(s) ==
    \/ Open(s) \/ ConnectHook(s) \/ MarkConnected(s) \/ CloseStream(s)
    \/ MarkOffline(s) \/ DisconnectHook(s)
CancelledEnds(s) == stream[s].cause # "none" /\ RunEnds(s)
Watch == StaleAgents \/ Sweep \/ StaleHook
Serve == Close \/ MarkRemoved \/ TerminalHook \/ DeleteRow

Next ==
    \/ \E s \in Streams : Authenticate(s) \/ TouchLiveness(s) \/ RunEnds(s) \/ Handler(s)
    \/ \E reason \in Terminal : RequestBegins(reason)
    \/ Watch \/ Serve \/ Ages \/ GraceEnds \/ Restart

Spec == Init /\ [][Next]_vars

-----------------------------------------------------------------------------
\* A stream that is served and not cancelled is the registered one, so that a
\* revocation or the stale watcher reaches it (Open, remove).
ServedIsRegistered ==
    \A s \in Streams : stream[s].pc = "run" /\ stream[s].cause = "none" => active = s

\* A handler that unwinds never tears down the session that replaced its own:
\* the cause "closed" is given to no stream that is still open (CloseStream).
UnwindsOnlyItself ==
    \A s \in Streams : stream[s].cause = "closed" => stream[s].pc \in {"removed", "marked", "done"}


\* When calls do not overlap, the registry and the alert agree between them: a
\* connected agent has no alert, one that is reported offline has it, and one
\* that is revoked or deleted has neither stream nor alert.
AlertAgrees ==
    ~crossed /\ ~Busy =>
      /\ active # None => ~disconnected /\ ~reported
      /\ reported => disconnected
      /\ agRow # "active" => active = None /\ ~disconnected

\* An outage is announced, across restarts too: an agent that is gone is
\* reported, comes back or is removed (StartStaleWatcher).
Absent == agRow = "active" /\ agSeen = "stale" /\ active = None /\ ~crossed
AbsentIsAnnounced == Absent ~> (disconnected \/ ~Absent)
=============================================================================
