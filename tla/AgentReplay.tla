---------------------------- MODULE AgentReplay ----------------------------
(***************************************************************************)
(* The at-least-once delivery of agent events.  The agent's spool          *)
(* (internal/agent/spool.go, spool_store.go) keeps numbered rows, a drain  *)
(* goroutine sends them on the Push stream, and the server's push session  *)
(* (internal/commercial/multihost/enrollment.go, ack.go) accepts or        *)
(* refuses each event and acknowledges a prefix.  The agent deletes what   *)
(* is acknowledged and, on a refusal or a new stream, rewinds its send     *)
(* cursor to the last acknowledgement.                                     *)
(*                                                                         *)
(* A row is its sequence number.  The spool's generation counter is only   *)
(* ever compared with the value the drain read, so drain.stale stands for  *)
(* "a rewind happened since".  accepted, stored and gone are history.      *)
(***************************************************************************)
EXTENDS Sequences, FiniteSets, AckTracker

CONSTANTS
    MaxSeq,           \* bound: rows ever appended to the spool
    DrainBatch,       \* spoolDrainBatch: rows read at once
    Window,           \* bound: messages in flight in each direction
    MaxFaults,        \* bound: refusals, breaks, crashes and snapshots
    Unreadable,       \* rows whose payload does not decode
    MayTrim,          \* the disk budget or the retention age is reached
    StoreErrors       \* the server's handlers and the agent's deletes may fail

ASSUME BoundsAssumption ==
    /\ MaxSeq \in Nat
    /\ DrainBatch \in Nat \ {0}
    /\ Window \in Nat \ {0}
    /\ MaxFaults \in Nat
    /\ Unreadable \subseteq Nat
    /\ MayTrim \in BOOLEAN
    /\ StoreErrors \in BOOLEAN

VARIABLES
    rows,       \* spool_events: the sequences on the agent's disk
    nextSeq,    \* AUTOINCREMENT: the next sequence
    ackSeq,     \* Spool.ackSeq: last acknowledged row (memory)
    sendSeq,    \* Spool.sendSeq: the send cursor (memory)
    paused,     \* now < Spool.pausedUntil
    drain,      \* drainOnce: where it stands, its batch, whether rewound
    purging,    \* Acked: rows it is about to delete, 0 when none
    connected,  \* a stream is attached
    up,         \* events in flight to the server; 0 is a state snapshot
    down,       \* acks and rate_limited errors in flight to the agent
    late,       \* events of the previous stream the server still holds
    acks,       \* the push session's ackTracker
    accepted,   \* history: rows the server took
    stored,     \* history: rows whose dispatch succeeded
    gone,       \* history: rows dropped by a budget or the retention age
    faults      \* refusals, breaks, crashes and snapshots so far

agentVars  == <<rows, nextSeq, ackSeq, sendSeq, paused, drain, purging>>
streamVars == <<connected, up, down, late>>
serverVars == <<acks, accepted, stored>>
vars       == <<agentVars, streamVars, serverVars, gone, faults>>

Message     == [kind : {"ack", "rate_limited"}, seq : Nat]
Ack(n)      == [kind |-> "ack", seq |-> n]
RateLimit   == [kind |-> "rate_limited", seq |-> 0]

DrainState == [pc : {"idle", "check", "send", "advance"}, row : Nat,
               batch : SUBSET (Nat \ {0}), stale : BOOLEAN]

\* drainOnce before the first row of a batch it has just read, and between
\* two passes of its loop.
Drain(pc, row, batch) == [pc |-> pc, row |-> row, batch |-> batch, stale |-> FALSE]
Idle == Drain("idle", 0, {})

\* Every variable ranges over the values the code can give it.
TypeOK ==
    /\ rows \subseteq 1..(nextSeq - 1)
    /\ nextSeq \in Nat \ {0}
    /\ ackSeq \in Nat /\ sendSeq \in Nat /\ purging \in Nat
    /\ paused \in BOOLEAN /\ connected \in BOOLEAN
    /\ drain \in DrainState
    /\ up \in Seq(Nat) /\ late \in Seq(Nat)
    /\ down \in Seq(Message)
    /\ acks \in Tracker
    /\ accepted \subseteq Nat \ {0} /\ stored \subseteq accepted
    /\ gone \subseteq Nat \ {0}
    /\ faults \in Nat

Init ==
    /\ rows = {} /\ nextSeq = 1
    /\ ackSeq = 0 /\ sendSeq = 0 /\ paused = FALSE
    /\ drain = Idle /\ purging = 0
    /\ connected = FALSE /\ up = <<>> /\ down = <<>> /\ late = <<>>
    /\ acks = newAckTracker
    /\ accepted = {} /\ stored = {} /\ gone = {}
    /\ faults = 0

---------------------------------------------------------------------------
(* The agent's store. *)

\* Plausible bug: a table without AUTOINCREMENT hands a sequence out twice.
SpoolAppendReuses ==
    \E n \in 1..(MaxSeq + 1 - nextSeq) :
        /\ rows' = rows \cup nextSeq..(nextSeq + n - 1)
        /\ UNCHANGED <<nextSeq, ackSeq, sendSeq, paused, drain, purging, streamVars,
                       serverVars, gone, faults>>

\* Append: one transaction writes a flushed batch under fresh sequences.
SpoolAppend ==
    \E n \in 1..(MaxSeq + 1 - nextSeq) :
        /\ rows' = rows \cup nextSeq..(nextSeq + n - 1)
        /\ nextSeq' = nextSeq + n
        /\ UNCHANGED <<ackSeq, sendSeq, paused, drain, purging, streamVars,
                       serverVars, gone, faults>>

Delete(S) ==
    /\ rows' = rows \ S
    /\ gone' = gone \cup S
    /\ UNCHANGED <<nextSeq, ackSeq, sendSeq, paused, drain, purging,
                   streamVars, serverVars, faults>>

\* enforceDiskBudget / DeleteOldestBytes: the oldest rows go first.
DropOldest ==
    /\ MayTrim
    /\ \E last \in rows : Delete({s \in rows : s <= last})

\* purgeExpired / DeleteOlderThan: observation times need not follow the
\* sequence, so any set of rows may be past the cutoff.
PurgeExpired ==
    /\ MayTrim
    /\ \E S \in SUBSET rows : S # {} /\ Delete(S)

---------------------------------------------------------------------------
(* The spool and its drain goroutine. *)

\* Rewind, under the spool's lock: back to the last ack, generation + 1.
Rewound(d) == [pc |-> d.pc, row |-> d.row, batch |-> d.batch, stale |-> TRUE]

\* A reconnect: the server's Push opens a session with a new ackTracker and
\* the agent's Attach clears the pause and rewinds.  The previous stream's
\* handler may still hold events it had received.
Attach ==
    /\ ~connected
    /\ purging = 0
    /\ connected' = TRUE
    /\ late' = up
    /\ up' = <<>> /\ down' = <<>>
    /\ acks' = newAckTracker
    /\ sendSeq' = ackSeq
    /\ paused' = FALSE
    /\ drain' = Idle
    /\ UNCHANGED <<rows, nextSeq, ackSeq, purging, accepted, stored, gone, faults>>

\* The stream breaks: Drain returns, Detach.  What the receive loop already
\* holds is still handled before the next Attach.
Detach ==
    /\ connected /\ faults < MaxFaults
    /\ connected' = FALSE
    /\ drain' = Idle
    /\ faults' = faults + 1
    /\ UNCHANGED <<rows, nextSeq, ackSeq, sendSeq, paused, purging, up, down,
                   late, serverVars, gone>>

\* drainOnce, the top of its loop: the cursor and the generation are read
\* under the lock, then the lowest rows above the cursor.
DrainRead ==
    /\ connected /\ ~paused /\ drain.pc = "idle"
    /\ LET waiting == {s \in rows : s > sendSeq}
       IN  \E batch \in SUBSET waiting :
            /\ batch # {}
            /\ \A s \in batch, t \in waiting \ batch : s < t
            /\ Cardinality(batch) <= DrainBatch
            /\ batch = waiting \/ Cardinality(batch) = DrainBatch
            /\ drain' = Drain("check", 0, batch)
    /\ UNCHANGED <<rows, nextSeq, ackSeq, sendSeq, paused, purging,
                   streamVars, serverVars, gone, faults>>

\* The loop over the batch goes on with the rows that remain, if any.
Continue(rest) ==
    IF rest = {} THEN Idle ELSE Drain("check", 0, rest)

\* Plausible bug: the cursor moves although a rewind happened since.
AdvanceStale(m, rest) ==
    /\ sendSeq' = m
    /\ drain' = Continue(rest)

\* advance: moves the cursor unless a rewind happened; then drainOnce leaves
\* the batch and reads again from the cursor.
Advance(m, rest) ==
    IF drain.stale THEN drain' = Idle /\ UNCHANGED sendSeq
    ELSE sendSeq' = m /\ drain' = Continue(rest)

\* The next row of the batch: an unreadable one is passed over, a readable
\* one waits for the limiter and checks the generation.
DrainCheck ==
    /\ drain.pc = "check"
    /\ \E m \in drain.batch :
        /\ \A s \in drain.batch : m <= s
        /\ \/ m \in Unreadable /\ Advance(m, drain.batch \ {m})
           \/ /\ m \notin Unreadable
              /\ drain' = IF drain.stale THEN Idle
                          ELSE Drain("send", m, drain.batch \ {m})
              /\ UNCHANGED sendSeq
    /\ UNCHANGED <<rows, nextSeq, ackSeq, paused, purging, streamVars,
                   serverVars, gone, faults>>

\* sink.Send: the row goes on the stream; a rewind since the check does not
\* stop it.
DrainSend ==
    /\ drain.pc = "send" /\ Len(up) < Window
    /\ up' = Append(up, drain.row)
    /\ drain' = [pc |-> "advance", row |-> drain.row, batch |-> drain.batch,
                stale |-> drain.stale]
    /\ UNCHANGED <<rows, nextSeq, ackSeq, sendSeq, paused, purging, connected,
                   down, late, serverVars, gone, faults>>

DrainAdvance ==
    /\ drain.pc = "advance"
    /\ Advance(drain.row, drain.batch)
    /\ UNCHANGED <<rows, nextSeq, ackSeq, paused, purging, streamVars,
                   serverVars, gone, faults>>

\* sendSnapshot / resendSnapshots: a state snapshot bypasses the queue and
\* carries no sequence.
SendSnapshot ==
    /\ connected /\ Len(up) < Window /\ faults < MaxFaults
    /\ up' = Append(up, 0)
    /\ faults' = faults + 1
    /\ UNCHANGED <<agentVars, connected, down, late, serverVars, gone>>

\* Plausible bug: only a new stream lifts the pause.
ResumeDetached ==
    /\ paused /\ ~connected
    /\ paused' = FALSE
    /\ UNCHANGED <<rows, nextSeq, ackSeq, sendSeq, drain, purging, streamVars,
                   serverVars, gone, faults>>

\* The delay the server asked for is over.
Resume ==
    /\ paused
    /\ paused' = FALSE
    /\ UNCHANGED <<rows, nextSeq, ackSeq, sendSeq, drain, purging, streamVars,
                   serverVars, gone, faults>>

---------------------------------------------------------------------------
(* recvLoop: what the agent does with the server's messages. *)

\* RateLimited: rewind to the last ack and hold the drain.
RateLimited ==
    /\ down # <<>> /\ Head(down).kind = "rate_limited" /\ purging = 0
    /\ down' = Tail(down)
    /\ sendSeq' = ackSeq
    /\ drain' = Rewound(drain)
    /\ paused' = TRUE
    /\ UNCHANGED <<rows, nextSeq, ackSeq, purging, connected, up, late,
                   serverVars, gone, faults>>

\* Acked, first half, under the lock: an older ack is ignored.
Acked ==
    /\ down # <<>> /\ Head(down).kind = "ack" /\ purging = 0
    /\ down' = Tail(down)
    /\ LET seq == Head(down).seq
       IN  /\ ackSeq' = IF seq > ackSeq THEN seq ELSE ackSeq
           /\ purging' = IF seq > ackSeq THEN seq ELSE 0
    /\ UNCHANGED <<rows, nextSeq, sendSeq, paused, drain, connected, up, late,
                   serverVars, gone, faults>>

\* Acked, second half: DeleteUpTo.
PurgeAcked ==
    /\ purging > 0
    /\ rows' = {s \in rows : s > purging}
    /\ purging' = 0
    /\ UNCHANGED <<nextSeq, ackSeq, sendSeq, paused, drain, streamVars,
                   serverVars, gone, faults>>

\* DeleteUpTo fails: only logged, the rows stay until a later ack.
PurgeFails ==
    /\ StoreErrors /\ purging > 0 /\ faults < MaxFaults
    /\ purging' = 0
    /\ faults' = faults + 1
    /\ UNCHANGED <<rows, nextSeq, ackSeq, sendSeq, paused, drain, streamVars,
                   serverVars, gone>>

\* The agent's process dies and comes back: the rows survive, the cursors
\* start at zero, the stream is gone.
AgentCrash ==
    /\ faults < MaxFaults
    /\ ackSeq' = 0 /\ sendSeq' = 0 /\ paused' = FALSE
    /\ drain' = Idle /\ purging' = 0
    /\ connected' = FALSE
    /\ late' = up /\ up' = <<>> /\ down' = <<>>
    /\ acks' = newAckTracker
    /\ faults' = faults + 1
    /\ UNCHANGED <<rows, nextSeq, accepted, stored, gone>>

---------------------------------------------------------------------------
(* The server's push session. *)

\* The event is taken and dispatched; a handler's error is only logged.
Take(m) ==
    /\ accepted' = accepted \cup ({m} \ {0})
    /\ \/ stored' = stored \cup ({m} \ {0})
       \/ StoreErrors /\ UNCHANGED stored

\* handleEvent for an allowed event: accept, dispatch, then afterEvent, which
\* acks on a count or on elapsed time.
HandleEvent ==
    /\ up # <<>> /\ Len(down) < Window
    /\ LET m == Head(up)
           a == accept(acks, m)
       IN  /\ Take(m)
           /\ \/ acks' = a /\ UNCHANGED down
              \/ /\ pending(a)
                 /\ acks' = sent(a, a.highest)
                 /\ down' = Append(down, Ack(a.highest))
    /\ up' = Tail(up)
    /\ UNCHANGED <<agentVars, connected, late, gone, faults>>

\* handleEvent for an event over the agent's allowance: refused, and the
\* agent is told; the stream goes on.
RefuseEvent ==
    /\ up # <<>> /\ Len(down) < Window /\ faults < MaxFaults
    /\ acks' = refuse(acks, Head(up))
    /\ down' = Append(down, RateLimit)
    /\ up' = Tail(up)
    /\ faults' = faults + 1
    /\ UNCHANGED <<agentVars, connected, late, accepted, stored, gone>>

\* The ack ticker.
AckTick ==
    /\ Len(down) < Window /\ pending(acks)
    /\ acks' = sent(acks, acks.highest)
    /\ down' = Append(down, Ack(acks.highest))
    /\ UNCHANGED <<agentVars, connected, up, late, accepted, stored, gone, faults>>

\* The previous stream's handler takes an event it still held.
LateEvent ==
    /\ late # <<>>
    /\ Take(Head(late))
    /\ late' = Tail(late)
    /\ UNCHANGED <<agentVars, connected, up, down, acks, gone, faults>>

\* The server restarts: its streams and what they held are gone.
ServerCrash ==
    /\ faults < MaxFaults
    /\ connected' = FALSE
    /\ up' = <<>> /\ down' = <<>> /\ late' = <<>>
    /\ drain' = Idle
    /\ acks' = newAckTracker
    /\ faults' = faults + 1
    /\ UNCHANGED <<rows, nextSeq, ackSeq, sendSeq, paused, purging, accepted,
                   stored, gone>>

---------------------------------------------------------------------------
Agent  == \/ SpoolAppend \/ DropOldest \/ PurgeExpired
          \/ Attach \/ Detach \/ AgentCrash
          \/ DrainRead \/ DrainCheck \/ DrainSend \/ DrainAdvance
          \/ SendSnapshot \/ Resume
          \/ RateLimited \/ Acked \/ PurgeAcked \/ PurgeFails
Server == HandleEvent \/ RefuseEvent \/ AckTick \/ LateEvent \/ ServerCrash

Next == Agent \/ Server

Spec == Init /\ [][Next]_vars

(* The drain goroutine, the receive loops, the reconnect loop and the ack   *)
(* ticker keep running; refusals, breaks and crashes are finitely many.     *)
Fairness ==
    /\ WF_vars(Attach) /\ WF_vars(Resume)
    /\ WF_vars(DrainRead) /\ WF_vars(DrainCheck)
    /\ WF_vars(DrainSend) /\ WF_vars(DrainAdvance)
    /\ WF_vars(RateLimited) /\ WF_vars(Acked) /\ WF_vars(PurgeAcked)
    /\ WF_vars(HandleEvent) /\ WF_vars(AckTick)

FairSpec == Spec /\ Fairness

---------------------------------------------------------------------------
(* Properties. *)

InFlight == {up[i] : i \in 1..Len(up)}

\* Rows nobody owes anything: taken by the server, dropped on purpose by the
\* agent, or unreadable.
Settled == accepted \cup gone \cup Unreadable

\* At-least-once: every event ever spooled is still on the agent's disk
\* unless the server took it, it did not decode, or a bound dropped it.  An
\* ack never covers an event the server refused or never saw (spool.go
\* Acked, ack.go accept and refuse).
NoLoss == 1..(nextSeq - 1) \subseteq rows \cup Settled

\* A refused or unsent row is never passed for good: while connected, every
\* row at or below the send cursor is settled, on the wire, or a
\* rate_limited error that will rewind the cursor is on its way
\* (spool.go advance, RateLimited).
RefusedIsResent ==
    connected =>
        \A s \in rows : s <= sendSeq =>
            \/ s \in Settled \cup InFlight
            \/ \E i \in 1..Len(down) : down[i].kind = "rate_limited"

\* A row deleted on an ack was stored by the server: "Delivery is
\* at-least-once" (docs/features/multihost.md).
AckedIsStored == 1..(nextSeq - 1) \subseteq rows \cup stored \cup gone \cup Unreadable

\* Once faults stop, every spooled event reaches the server or is dropped.
EventuallyAccepted ==
    \A s \in 1..MaxSeq : (s \in rows) ~> (s \in Settled)

---------------------------------------------------------------------------
(* The inductive invariant of AgentReplayProofs.  u is the wire, St the     *)
(* settled rows, r the refused sequence that freezes the ack, and S rows    *)
(* that will be sent before the row c.                                      *)

\* Every row up to n is settled.
SettledUpTo(n) == \A s \in 1..n : s \in Settled

RateLimitComing == \E i \in 1..Len(down) : down[i].kind = "rate_limited"

\* Events travel in increasing runs: a row between two numbered events on the
\* wire that is not settled travels between them.
OrderedWire(u, St) ==
    \A i, j \in 1..Len(u) : i < j /\ u[i] # 0 =>
        \A s \in (u[i] + 1)..(u[j] - 1) :
            s \in St \/ \E k \in (i + 1)..(j - 1) : u[k] = s

\* An event that may move the ack has every row below it settled or ahead of
\* it on the wire.
GaplessWire(u, St, r) ==
    \A j \in 1..Len(u) : r = 0 \/ u[j] <= r =>
        \A s \in 1..(u[j] - 1) :
            s \in St \/ \E k \in 1..(j - 1) : u[k] = s

\* The same two facts for a row c that is not yet on the wire.
Ordered(u, St, c, S) ==
    \A i \in 1..Len(u) : u[i] # 0 =>
        \A s \in (u[i] + 1)..(c - 1) :
            s \in St \/ s \in S \/ \E k \in (i + 1)..Len(u) : u[k] = s

Gapless(u, St, r, c, S) ==
    r = 0 \/ c <= r =>
        \A s \in 1..(c - 1) :
            s \in St \/ s \in S \/ \E k \in 1..Len(u) : u[k] = s

\* What an ack may claim.
AckInv ==
    /\ SettledUpTo(ackSeq) /\ SettledUpTo(purging) /\ SettledUpTo(acks.highest)
    /\ \A i \in 1..Len(down) : down[i].kind = "ack" => SettledUpTo(down[i].seq)

WireInv == OrderedWire(up, Settled) /\ GaplessWire(up, Settled, acks.refused)

CursorInv ==
    connected => /\ Ordered(up, Settled, sendSeq + 1, {})
                 /\ Gapless(up, Settled, acks.refused, sendSeq + 1, {})

\* The drain's row in hand, and the rows it will send before the batch's.
InHand == drain.pc \in {"send", "advance"}
Reached == IF drain.pc = "advance" THEN drain.row + 1 ELSE drain.row
ToSend == IF drain.pc = "send" THEN drain.batch \cup {drain.row} ELSE drain.batch

BatchOrdered ==
    /\ InHand => Ordered(up, Settled, Reached, {})
    /\ \A m \in drain.batch : Ordered(up, Settled, m, ToSend)

BatchGapless(r) ==
    /\ InHand => Gapless(up, Settled, r, Reached, {})
    /\ \A m \in drain.batch : Gapless(up, Settled, r, m, ToSend)

\* The batch skips only settled rows.
BatchClosed ==
    \A m \in drain.batch, n \in drain.batch \cup {drain.row} :
        InHand \/ n \in drain.batch =>
            \A s \in (n + 1)..(m - 1) : s \in Settled \/ s \in drain.batch

DrainInv ==
    /\ drain.pc # "idle" => connected
    /\ drain.pc = "idle" => drain.batch = {}
    /\ InHand => drain.row # 0

\* The cursor stays below the rows the drain holds, unless a rewind put it at
\* an ack.
CursorBehind ==
    /\ InHand => \A k \in drain.batch : drain.row < k
    /\ \/ SettledUpTo(sendSeq)
       \/ /\ InHand => sendSeq < drain.row
          /\ \A k \in drain.batch : sendSeq < k

\* A row the cursor or a live batch has passed is not forgotten.
ResendInv ==
    connected =>
        \/ RateLimitComing
        \/ /\ Gapless(up, Settled, 0, sendSeq + 1, {})
           /\ drain.stale = TRUE \/ BatchGapless(0)

\* An ack covers only what is settled, because the wire, the cursor and the
\* batch never leave an unsettled row behind a higher one that could move
\* the ack.
IInv ==
    /\ TypeOK /\ NoLoss
    /\ AckInv /\ WireInv /\ CursorInv
    /\ BatchOrdered /\ BatchGapless(acks.refused) /\ BatchClosed
    /\ DrainInv /\ CursorBehind /\ ResendInv
===========================================================================
