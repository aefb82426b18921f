------------------------------ MODULE MCServer ------------------------------
(***************************************************************************)
(* Small instances of the server's components that share no state with     *)
(* each other: a behaviour picks one of them and runs it, the others stay  *)
(* as they started.                                                        *)
(***************************************************************************)
EXTENDS Naturals, Sequences, FiniteSets

CONSTANTS Focus,                                        \* the components checked
          Requests, MaxTrouble,                         \* Heartbeat
          Streams, None, MaxRestarts, MaxRequests,      \* Sessions
          MaxInFlight, SendQueue, MaxFollows,           \* Commands, with Requests
          Hosts, Ids, Tokens, Nobody, HostLimit,        \* Enrollment
          Checks, FailureThreshold, RecoveryThreshold, EpTrouble \* Endpoint

VARIABLES focus,
          hb, hbRuns, hbPauses, hbAlerts, hbCalls, hbOverlap, hbBegun, hbFaults,
          agRow, agSeen, stream, active, reported, disconnected, watcher, settled,
          request, told, crossed, restarts, requests,
          cmdReg, cmdPending, cmdReply, cmdCaller, cmdQueue, cmdHand, cmdUp, cmdAgent,
          cmdMissed,
          enAgents, enTokens, enBy, enHost, enDisk,
          ep, epSource, epRunner, epChecks, epCalls, epAlerts, epContainer, epEvents,
          epStream, epOverlap, epFaults, epBegun

HB == INSTANCE Heartbeat
SE == INSTANCE Sessions
CM == INSTANCE Commands
EN == INSTANCE Enrollment
EP == INSTANCE Endpoint

heartbeatVars == <<hb, hbRuns, hbPauses, hbAlerts, hbCalls, hbOverlap, hbBegun, hbFaults>>
sessionVars == <<agRow, agSeen, stream, active, reported, disconnected, watcher, settled,
                 request, told, crossed, restarts, requests>>
commandVars == <<cmdReg, cmdPending, cmdReply, cmdCaller, cmdQueue, cmdHand, cmdUp, cmdAgent,
                 cmdMissed>>
enrollmentVars == <<enAgents, enTokens, enBy, enHost, enDisk>>
endpointVars == <<ep, epSource, epRunner, epChecks, epCalls, epAlerts, epContainer, epEvents,
                  epStream, epOverlap, epFaults, epBegun>>
vars == <<focus, heartbeatVars, sessionVars, commandVars, enrollmentVars, endpointVars>>

\* The hosts of an enrollment start with any token, an endpoint comes from a label
\* or from the API; the choice is made only where the component runs.
FirstToken == CHOOSE t \in Tokens : TRUE
Init ==
    /\ focus \in Focus
    /\ HB!Init /\ SE!Init /\ CM!Init /\ EN!Init /\ EP!Init
    /\ focus # "enrollment" => \A h \in Hosts : enHost[h].token = FirstToken
    /\ focus # "endpoint" => epSource = "label"

Next ==
    \/ /\ focus = "heartbeat" /\ HB!Next
       /\ UNCHANGED <<focus, sessionVars, commandVars, enrollmentVars, endpointVars>>
    \/ /\ focus = "sessions" /\ SE!Next
       /\ UNCHANGED <<focus, heartbeatVars, commandVars, enrollmentVars, endpointVars>>
    \/ /\ focus = "commands" /\ CM!Next
       /\ UNCHANGED <<focus, heartbeatVars, sessionVars, enrollmentVars, endpointVars>>
    \/ /\ focus = "enrollment" /\ EN!Next
       /\ UNCHANGED <<focus, heartbeatVars, sessionVars, commandVars, endpointVars>>
    \/ /\ focus = "endpoint" /\ EP!Next
       /\ UNCHANGED <<focus, heartbeatVars, sessionVars, commandVars, enrollmentVars>>

Spec == Init /\ [][Next]_vars

\* The deadline checker's ticker keeps running and calls run to their end.
HeartbeatFair ==
    /\ WF_heartbeatVars(focus = "heartbeat" /\ HB!CheckDeadlines)
    /\ \A c \in HB!Callers : WF_heartbeatVars(focus = "heartbeat" /\ HB!Proceed(c))

\* Handlers and requests run to their end, the watcher's ticker and the clock
\* keep running, and a cancelled stream returns.
SessionFair ==
    /\ \A s \in Streams :
         /\ WF_sessionVars(focus = "sessions" /\ SE!Handler(s))
         /\ WF_sessionVars(focus = "sessions" /\ SE!CancelledEnds(s))
    /\ WF_sessionVars(focus = "sessions" /\ SE!Watch)
    /\ WF_sessionVars(focus = "sessions" /\ SE!Serve)
    /\ WF_sessionVars(focus = "sessions" /\ SE!GraceEnds)

\* Handlers and goroutines run; a reader of a closed channel returns.  The select
\* of the Push handler picks among its ready cases at random, so that neither the
\* queue nor the end of its context waits for ever.
CommandFair ==
    /\ \A r \in Requests :
         /\ WF_commandVars(focus = "commands" /\ CM!Call(r))
         /\ WF_commandVars(focus = "commands" /\ CM!LeaveClosed(r))
         /\ WF_commandVars(focus = "commands" /\ CM!StopFollow(r))
         /\ SF_commandVars(focus = "commands" /\ CM!RunLogs(r))
    /\ WF_commandVars(focus = "commands" /\ CM!Push)
    /\ SF_commandVars(focus = "commands" /\ CM!WriteCommand)
    /\ SF_commandVars(focus = "commands" /\ CM!RemovedEnds)
    /\ WF_commandVars(focus = "commands" /\ CM!TearDown)
    /\ WF_commandVars(focus = "commands" /\ CM!CancelAll)

FairSpec == Spec /\ HeartbeatFair /\ SessionFair /\ CommandFair

-----------------------------------------------------------------------------
\* Every component keeps its types.
TypeOK == HB!TypeOK /\ SE!TypeOK /\ CM!TypeOK /\ EN!TypeOK /\ EP!TypeOK

\* The columns of a heartbeat's row agree with each other (PauseHeartbeat,
\* checkDeadlines, ProcessPing).
RowConsistent == HB!RowConsistent


\* A missed deadline is noticed (checkDeadlines).
OverdueIsNoticed == HB!OverdueIsNoticed

\* A served stream that is not cancelled is the registered one (Open, remove).
ServedIsRegistered == SE!ServedIsRegistered

\* A handler that unwinds never tears down the session that replaced its own
\* (CloseStream).
UnwindsOnlyItself == SE!UnwindsOnlyItself


\* When no two calls overlap, the "disconnected" alert says whether the agent is
\* away (the lifecycle hook of Open, remove and the stale watcher).
AlertAgrees == SE!AlertAgrees

\* An agent that stays away is announced (StartStaleWatcher).
AbsentIsAnnounced == SE!AbsentIsAnnounced

\* Once a stream is closed nobody waits for it (SendCommand, closeAll).
ClosedFreesWaiters == CM!ClosedFreesWaiters

\* A reply channel is closed once (deliver, closeAll).
ClosedOnce == CM!ClosedOnce

\* The end of a stream frees the log requests that wait on it (streamRemote).
StreamEndFreesCallers == CM!StreamEndFreesCallers

\* A log request that is over stops on the agent, unless its cancel was lost
\* (release, cancel).
ReleasedStops == CM!ReleasedStops

\* Concurrent enrollments never exceed the host cap (EnrollAtomic).
CapHeld == EN!CapHeld

\* A token buys one host, and a refused enrollment leaves it unused (enrollTx).
TokenBuysOneHost == EN!TokenBuysOneHost



\* "3 consecutive failures = alert (default)" (docs/features/endpoints.md): an
\* active endpoint that fails that often has its alert open (EvaluateCheckResult,
\* UpsertEndpoint).
FailingIsAlerted == EP!FailingIsAlerted
=============================================================================
