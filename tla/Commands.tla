------------------------------ MODULE Commands ------------------------------
(***************************************************************************)
(* Commands over one agent stream: HTTP handlers that follow a container's *)
(* logs (internal/api/v1/logs_stream.go), the pending table of the stream  *)
(* (internal/commercial/multihost/sessions.go) and the agent's runner      *)
(* (internal/agent/commands.go).  A reply channel is open or closed; the   *)
(* lines it carries are left out.  The stream may be torn down at any      *)
(* time, by its end, a replacement, the stale watcher or a revocation.     *)
(***************************************************************************)
EXTENDS Naturals, Sequences, FiniteSets

CONSTANTS Requests,     \* log requests
          MaxInFlight,  \* maxInFlightPerAgent
          SendQueue,    \* capacity of the stream's send channel
          MaxFollows    \* maxConcurrentFollows

VARIABLES cmdReg,       \* the stream: registered, removed, closed (closeAll ran)
          cmdPending,   \* activeStream.pending
          cmdReply,     \* the reply channel of each request
          cmdCaller,    \* where each HTTP handler is
          cmdQueue,     \* activeStream.send
          cmdHand,      \* the result the Push handler is delivering
          cmdUp,        \* the Push handler runs
          cmdAgent,     \* each request on the agent
          cmdMissed     \* history: requests whose cancel was lost

vars == <<cmdReg, cmdPending, cmdReply, cmdCaller, cmdQueue, cmdHand, cmdUp, cmdAgent, cmdMissed>>

Message == {"logs", "cancel"} \X Requests
Hand == [pc : {"none", "arrived", "holding"}, req : Requests, last : BOOLEAN]
NoHand == [pc |-> "none", req |-> CHOOSE r \in Requests : TRUE, last |-> FALSE]

\* Every variable ranges over the values the code can give it.
TypeOK ==
    /\ cmdReg \in {"registered", "removed", "closed"}
    /\ cmdPending \subseteq Requests
    /\ cmdReply \in [Requests -> {"none", "open", "closed"}]
    /\ cmdCaller \in [Requests -> {"new", "found", "registered", "waiting", "releasing",
                                   "cancelling", "done"}]
    /\ cmdQueue \in Seq(Message) /\ Len(cmdQueue) <= SendQueue
    /\ cmdHand \in Hand /\ cmdUp \in BOOLEAN
    /\ cmdAgent \in [Requests -> {"none", "starting", "running", "stopping", "ended"}]
    /\ cmdMissed \subseteq Requests

Init ==
    /\ cmdReg = "registered" /\ cmdPending = {} /\ cmdQueue = <<>>
    /\ cmdReply = [r \in Requests |-> "none"] /\ cmdCaller = [r \in Requests |-> "new"]
    /\ cmdHand = NoHand /\ cmdUp = TRUE
    /\ cmdAgent = [r \in Requests |-> "none"] /\ cmdMissed = {}

Caller(r, pc) == cmdCaller' = [cmdCaller EXCEPT ![r] = pc]
AgentAt(r, pc) == cmdAgent' = [cmdAgent EXCEPT ![r] = pc]

-----------------------------------------------------------------------------
\* SendCommand: finds the stream, then registers under the stream's own lock,
\* where the stream may have been closed meanwhile.
Lookup(r) ==
    /\ cmdCaller[r] = "new"
    /\ Caller(r, IF cmdReg = "registered" THEN "found" ELSE "done")
    /\ UNCHANGED <<cmdReg, cmdPending, cmdReply, cmdQueue, cmdHand, cmdUp, cmdAgent, cmdMissed>>

HasRoom == Cardinality(cmdPending) < MaxInFlight
Admits == cmdReg # "closed" /\ HasRoom
Register(r) ==
    /\ cmdCaller[r] = "found"
    /\ IF Admits
       THEN /\ cmdPending' = cmdPending \cup {r} /\ Caller(r, "registered")
            /\ cmdReply' = [cmdReply EXCEPT ![r] = "open"]
       ELSE Caller(r, "done") /\ UNCHANGED <<cmdPending, cmdReply>>
    /\ UNCHANGED <<cmdReg, cmdQueue, cmdHand, cmdUp, cmdAgent, cmdMissed>>

\* enqueue: room in the queue, or the viewer leaves or the timer fires first.
Enqueue(r) ==
    /\ cmdCaller[r] = "registered" /\ Len(cmdQueue) < SendQueue
    /\ cmdQueue' = Append(cmdQueue, <<"logs", r>>) /\ Caller(r, "waiting")
    /\ UNCHANGED <<cmdReg, cmdPending, cmdReply, cmdHand, cmdUp, cmdAgent, cmdMissed>>
EnqueueFails(r) ==
    /\ cmdCaller[r] = "registered" /\ Caller(r, "releasing")
    /\ UNCHANGED <<cmdReg, cmdPending, cmdReply, cmdQueue, cmdHand, cmdUp, cmdAgent, cmdMissed>>

\* streamRemote returns: the viewer is gone, or the channel is closed.
Leave(r) ==
    /\ cmdCaller[r] = "waiting" /\ Caller(r, "releasing")
    /\ UNCHANGED <<cmdReg, cmdPending, cmdReply, cmdQueue, cmdHand, cmdUp, cmdAgent, cmdMissed>>

\* release: a request that is still pending is cancelled on the agent.
NeverCancels(r) == FALSE
Cancels(r) == r \in cmdPending
Release(r) ==
    /\ cmdCaller[r] = "releasing" /\ cmdPending' = cmdPending \ {r}
    /\ Caller(r, IF Cancels(r) THEN "cancelling" ELSE "done")
    /\ UNCHANGED <<cmdReg, cmdReply, cmdQueue, cmdHand, cmdUp, cmdAgent, cmdMissed>>
SendCancel(r) ==
    /\ cmdCaller[r] = "cancelling" /\ Caller(r, "done")
    /\ IF Len(cmdQueue) < SendQueue
       THEN cmdQueue' = Append(cmdQueue, <<"cancel", r>>) /\ UNCHANGED cmdMissed
       ELSE cmdMissed' = cmdMissed \cup {r} /\ UNCHANGED cmdQueue
    /\ UNCHANGED <<cmdReg, cmdPending, cmdReply, cmdHand, cmdUp, cmdAgent>>

-----------------------------------------------------------------------------
\* The Push handler writes the queue to the stream, and the agent's Handle starts
\* a goroutine for a log request.  A cancel finds only a request that track has
\* registered.
WriteCommand ==
    LET kind == Head(cmdQueue)[1]
        r == Head(cmdQueue)[2] IN
      /\ cmdUp /\ cmdHand.pc = "none" /\ cmdQueue # <<>> /\ cmdQueue' = Tail(cmdQueue)
      /\ \/ kind = "logs" /\ AgentAt(r, "starting") /\ UNCHANGED cmdMissed
         \/ kind = "cancel" /\ cmdAgent[r] = "running" /\ AgentAt(r, "stopping")
                            /\ UNCHANGED cmdMissed
         \/ /\ kind = "cancel" /\ cmdAgent[r] # "running" /\ UNCHANGED cmdAgent
            /\ cmdMissed' = IF cmdAgent[r] = "starting" THEN cmdMissed \cup {r} ELSE cmdMissed
      /\ UNCHANGED <<cmdReg, cmdPending, cmdReply, cmdCaller, cmdHand, cmdUp>>

Sends(r, last) == cmdHand' = [pc |-> "arrived", req |-> r, last |-> last]

\* runLogs: track admits the request, or the follow budget is used up and the
\* agent answers with an error.
RunLogs(r) ==
    /\ cmdAgent[r] = "starting"
    /\ \/ /\ Cardinality({q \in Requests : cmdAgent[q] \in {"running", "stopping"}}) < MaxFollows
          /\ AgentAt(r, "running") /\ UNCHANGED cmdHand
       \/ /\ Cardinality({q \in Requests : cmdAgent[q] \in {"running", "stopping"}}) >= MaxFollows
          /\ cmdUp /\ cmdHand.pc = "none" /\ AgentAt(r, "ended") /\ Sends(r, TRUE)
    /\ UNCHANGED <<cmdReg, cmdPending, cmdReply, cmdCaller, cmdQueue, cmdUp, cmdMissed>>

\* followLogs: a chunk, the end of the container's output, or the cancel.
FollowLogs(r, last) ==
    /\ cmdAgent[r] = "running" /\ cmdUp /\ cmdHand.pc = "none" /\ Sends(r, last)
    /\ AgentAt(r, IF last THEN "ended" ELSE "running")
    /\ UNCHANGED <<cmdReg, cmdPending, cmdReply, cmdCaller, cmdQueue, cmdUp, cmdMissed>>
StopFollow(r) ==
    /\ cmdAgent[r] = "stopping" /\ AgentAt(r, "ended")
    /\ UNCHANGED <<cmdReg, cmdPending, cmdReply, cmdCaller, cmdQueue, cmdHand, cmdUp, cmdMissed>>

\* deliver takes the waiter's channel under the lock ...
KeepsPending(hand) == cmdPending
Taken(hand) == IF hand.last THEN cmdPending \ {hand.req} ELSE cmdPending
Deliver ==
    /\ cmdHand.pc = "arrived"
    /\ IF cmdReg = "registered" /\ cmdHand.req \in cmdPending
       THEN cmdHand' = [cmdHand EXCEPT !.pc = "holding"] /\ cmdPending' = Taken(cmdHand)
       ELSE cmdHand' = NoHand /\ UNCHANGED cmdPending
    /\ UNCHANGED <<cmdReg, cmdReply, cmdCaller, cmdQueue, cmdUp, cmdAgent, cmdMissed>>

\* ... and sends on it without the lock: the last result closes it.  A chunk for
\* a channel that closeAll has closed meanwhile panics, which ends the handler.
HandOver ==
    /\ cmdHand.pc = "holding" /\ cmdHand' = NoHand
    /\ cmdReply' = IF cmdHand.last THEN [cmdReply EXCEPT ![cmdHand.req] = "closed"] ELSE cmdReply
    /\ cmdUp' = (cmdUp /\ (cmdHand.last \/ cmdReply[cmdHand.req] # "closed"))
    /\ UNCHANGED <<cmdReg, cmdPending, cmdCaller, cmdQueue, cmdAgent, cmdMissed>>

-----------------------------------------------------------------------------
\* The stream leaves the registry (remove, Open of another stream, the stale
\* watcher), and closeAll frees its waiters.
Removed ==
    /\ cmdReg = "registered" /\ cmdReg' = "removed"
    /\ UNCHANGED <<cmdPending, cmdReply, cmdCaller, cmdQueue, cmdHand, cmdUp, cmdAgent, cmdMissed>>
CloseAll ==
    /\ cmdReg = "removed" /\ cmdReg' = "closed" /\ cmdPending' = {}
    /\ cmdReply' = [r \in Requests |-> IF r \in cmdPending THEN "closed" ELSE cmdReply[r]]
    /\ UNCHANGED <<cmdCaller, cmdQueue, cmdHand, cmdUp, cmdAgent, cmdMissed>>

\* The Push handler returns.
HandlerEnds ==
    /\ cmdUp /\ cmdHand.pc = "none" /\ cmdUp' = FALSE
    /\ UNCHANGED <<cmdReg, cmdPending, cmdReply, cmdCaller, cmdQueue, cmdHand, cmdAgent, cmdMissed>>

\* The agent notices the end of the stream: its context stops every follow.
CancelAll ==
    /\ ~cmdUp /\ \E r \in Requests : cmdAgent[r] \in {"starting", "running"}
    /\ cmdAgent' = [r \in Requests |-> IF cmdAgent[r] \in {"starting", "running"}
                                       THEN "stopping" ELSE cmdAgent[r]]
    /\ UNCHANGED <<cmdReg, cmdPending, cmdReply, cmdCaller, cmdQueue, cmdHand, cmdUp, cmdMissed>>

Call(r) == Lookup(r) \/ Register(r) \/ Enqueue(r) \/ Release(r) \/ SendCancel(r)
LeaveClosed(r) == cmdReply[r] = "closed" /\ Leave(r)
RemovedEnds == cmdReg # "registered" /\ HandlerEnds
Push == WriteCommand \/ Deliver \/ HandOver
TearDown == (~cmdUp /\ Removed) \/ CloseAll

Next ==
    \/ \E r \in Requests : Call(r) \/ EnqueueFails(r) \/ Leave(r) \/ RunLogs(r) \/ StopFollow(r)
    \/ \E r \in Requests, last \in BOOLEAN : FollowLogs(r, last)
    \/ Push \/ Removed \/ CloseAll \/ HandlerEnds \/ CancelAll

Spec == Init /\ [][Next]_vars

-----------------------------------------------------------------------------
\* Once a stream is closed nobody waits for it: the channel of every request
\* that registered is closed, or its last result is being handed over
\* (SendCommand, closeAll).
ClosedFreesWaiters ==
    cmdReg = "closed" =>
      \A r \in Requests : cmdCaller[r] \in {"registered", "waiting"} =>
        cmdReply[r] = "closed" \/ (cmdHand.pc = "holding" /\ cmdHand.last /\ cmdHand.req = r)

\* A reply channel is closed once: while the last result is handed over, closeAll
\* cannot reach the channel (deliver).
ClosedOnce ==
    cmdHand.pc = "holding" /\ cmdHand.last =>
      cmdHand.req \notin cmdPending /\ cmdReply[cmdHand.req] = "open"

\* The end of the stream frees its callers (streamRemote).
StreamEndFreesCallers ==
    \A r \in Requests : (cmdReg # "registered" /\ cmdCaller[r] = "waiting") ~> cmdCaller[r] = "done"

\* "Releasing tells the agent to stop tailing as soon as the viewer goes away":
\* a request that is over stops on the agent, unless its cancel was lost on a
\* full queue or overtook the start of the request.
ReleasedStops ==
    \A r \in Requests : cmdCaller[r] = "done" ~> (cmdAgent[r] \in {"none", "ended"} \/ r \in cmdMissed)
=============================================================================
