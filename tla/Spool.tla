------------------------------- MODULE Spool -------------------------------
(***************************************************************************)
(* The agent's outbound queue (internal/agent/spool.go, spool_store.go):   *)
(* collectors append to a memory buffer, and collectors, the flush loop,   *)
(* the drain and the closing main goroutine move it to the database.       *)
(* flush takes the buffer under the lock and writes it without, so several *)
(* writes may overlap.                                                     *)
(*                                                                         *)
(* An event is its place in the order of production and counts for one     *)
(* unit of the memory and disk budgets.  Sequences, acks and rewinds are   *)
(* AgentReplay's.                                                          *)
(***************************************************************************)
EXTENDS Naturals, FiniteSets, SequencesExt, FiniteSetsExt, Functions

CONSTANTS
    Collectors,     \* goroutines that call Send
    MaxEvents,      \* bound: events ever produced
    MaxMemory,      \* SpoolConfig.MaxMemoryBytes
    MaxDisk,        \* SpoolConfig.MaxDiskBytes, 0 for no bound
    Slack,          \* a tenth of MaxDisk, freed beyond the overshoot
    MaxFaults,      \* bound: failed writes and broken streams
    MaxCrashes,     \* bound: kills of the process
    Opens,          \* whether openSpoolStore may succeed, may fail
    Endings         \* how the agent may end: "stop", "revoke"

Loop == "flushLoop"
Main == "main"
Drainer == "drain"
Threads == Collectors \cup {Loop, Drainer, Main}

ASSUME SpoolAssumption ==
    /\ MaxEvents \in Nat /\ MaxMemory \in Nat /\ MaxDisk \in Nat
    /\ Slack \in Nat /\ MaxFaults \in Nat /\ MaxCrashes \in Nat
    /\ Opens \subseteq BOOLEAN /\ Endings \subseteq {"stop", "revoke"}
    /\ Collectors \cap {Loop, Drainer, Main} = {}

VARIABLES
    produced,   \* events produced so far
    buf,        \* Spool.buf
    held,       \* the batch each flush holds between lock and write
    over,       \* rows each enforceDiskBudget decided to free
    pc,         \* where each goroutine stands
    store,      \* Spool.store: the pointer is set
    db,         \* the database is open
    rows,       \* spool_events, oldest first
    attached,   \* a stream is attached
    sent,       \* history: events the drain has read to send
    acked,      \* history: rows purged by an ack
    dropped,    \* history: events given up to a budget or by Discard
    lost,       \* history: events lost with the memory of a crash
    faults,     \* failed writes and broken streams so far
    crashes     \* kills so far

vars == <<produced, buf, held, over, pc, store, db, rows, attached, sent,
          acked, dropped, lost, faults, crashes>>
history == <<sent, acked, dropped, lost>>

Events == 1..produced

\* Every variable ranges over the values the code can give it.
TypeOK ==
    /\ produced \in 0..MaxEvents
    /\ buf \in Seq(Events) /\ rows \in Seq(Events)
    /\ held \in [Threads -> Seq(Events)]
    /\ over \in [Threads -> Nat]
    /\ pc \in [Threads -> {"idle", "flush", "load", "insert", "budget", "trim",
                           "read", "stopped", "close", "closeDB", "exited",
                           "panic"}]
    /\ store \in BOOLEAN /\ db \in BOOLEAN /\ attached \in BOOLEAN
    /\ sent \cup acked \cup dropped \cup lost \subseteq Events
    /\ faults \in 0..MaxFaults /\ crashes \in 0..MaxCrashes

\* NewSpool
Init ==
    /\ produced = 0 /\ buf = <<>> /\ rows = <<>>
    /\ held = [t \in Threads |-> <<>>] /\ over = [t \in Threads |-> 0]
    /\ pc = [t \in Threads |-> "idle"]
    /\ store \in Opens /\ db = store
    /\ attached = FALSE
    /\ sent = {} /\ acked = {} /\ dropped = {} /\ lost = {}
    /\ faults = 0 /\ crashes = 0

\* The events only the process's memory holds.
Unwritten == ToSet(buf) \cup UNION {ToSet(held[t]) : t \in Threads}

Goto(t, l) == pc' = [pc EXCEPT ![t] = l]

\* The agent's process runs.
Running == \A t \in Threads : pc[t] \notin {"panic", "exited"}
Stopping == pc[Main] # "idle"

---------------------------------------------------------------------------
(* Collectors. *)

\* Plausible bug: a full buffer waits for the flush loop.
SendNoFlush(c) ==
    /\ Running /\ ~Stopping /\ pc[c] = "idle" /\ produced < MaxEvents
    /\ produced' = produced + 1
    /\ buf' = Append(buf, produced + 1)
    /\ UNCHANGED <<pc, held, over, store, db, rows, attached, history, faults, crashes>>

\* Send: buffer the event; a full buffer is flushed at once.
Send(c) ==
    /\ Running /\ ~Stopping /\ pc[c] = "idle" /\ produced < MaxEvents
    /\ produced' = produced + 1
    /\ buf' = Append(buf, produced + 1)
    /\ Goto(c, IF Len(buf) + 1 >= MaxMemory THEN "flush" ELSE "idle")
    /\ UNCHANGED <<held, over, store, db, rows, attached, history, faults, crashes>>

---------------------------------------------------------------------------
(* flush, by any goroutine. *)

\* Plausible bug: the drain stops at its flush.
ReturnEarly(t) == IF t = Main THEN "close" ELSE "idle"

\* Where a goroutine goes after its flush.
Return(t) == CASE t = Drainer -> "read" [] t = Main -> "close" [] OTHER -> "idle"

\* A failed flush ends the drain, and with it the stream.
Fail(t) ==
    /\ Goto(t, IF t = Drainer THEN "idle" ELSE Return(t))
    /\ attached' = (attached /\ t # Drainer)

\* trimMemoryLocked: the oldest events past the budget.
Trimmed == Len(buf) - (IF Len(buf) > MaxMemory THEN MaxMemory ELSE Len(buf))

\* Plausible bug: trimmed events are not counted.
TrimmedUncounted == {}
TrimmedEvents == {buf[i] : i \in 1..Trimmed}

\* Under the lock: nothing to do, no store (trim the memory), or take all.
FlushTake(t) ==
    /\ Running /\ pc[t] = "flush"
    /\ \/ /\ buf = <<>>
          /\ Goto(t, Return(t))
          /\ UNCHANGED <<buf, held, dropped>>
       \/ /\ buf # <<>> /\ ~store
          /\ buf' = SubSeq(buf, Trimmed + 1, Len(buf))
          /\ dropped' = dropped \cup TrimmedEvents
          /\ Goto(t, Return(t))
          /\ UNCHANGED held
       \/ /\ buf # <<>> /\ store
          /\ held' = [held EXCEPT ![t] = buf]
          /\ buf' = <<>>
          /\ Goto(t, "load")
          /\ UNCHANGED dropped
    /\ UNCHANGED <<produced, over, store, db, rows, attached, sent, acked, lost, faults, crashes>>

\* s.store is read again, without the lock: a nil pointer panics.
FlushLoad(t) ==
    /\ Running /\ pc[t] = "load"
    /\ IF store THEN Goto(t, "insert") /\ UNCHANGED lost
       ELSE /\ Goto(t, "panic")
            /\ lost' = lost \cup Unwritten
    /\ UNCHANGED <<produced, buf, held, over, store, db, rows, attached, sent,
                   acked, dropped, faults, crashes>>

\* Append: one transaction.
FlushInsert(t) ==
    /\ Running /\ pc[t] = "insert" /\ db
    /\ rows' = rows \o held[t]
    /\ held' = [held EXCEPT ![t] = <<>>]
    /\ Goto(t, "budget")
    /\ UNCHANGED <<produced, buf, over, store, db, attached, history, faults, crashes>>

\* Append fails: the batch goes back in front of the buffer.
FlushFails(t) ==
    /\ Running /\ pc[t] = "insert"
    /\ ~db \/ faults < MaxFaults
    /\ buf' = held[t] \o buf
    /\ held' = [held EXCEPT ![t] = <<>>]
    /\ Fail(t)
    /\ faults' = IF db THEN faults + 1 ELSE faults
    /\ UNCHANGED <<produced, over, store, db, rows, history, crashes>>

\* Plausible bugs: the subtraction is swapped; the slack is taken off.
OvershootSwapped(size) == MaxDisk - size

\* What enforceDiskBudget frees: the overshoot and a slack beyond it.
Overshoot(size) == size - MaxDisk + Slack

\* enforceDiskBudget reads the size under no lock but its own query's.
CheckBudget(t) ==
    /\ Running /\ pc[t] = "budget"
    /\ \/ /\ MaxDisk > 0 /\ store /\ Len(rows) > MaxDisk
          /\ over' = [over EXCEPT ![t] = Overshoot(Len(rows))]
          /\ Goto(t, "trim")
       \/ /\ MaxDisk = 0 \/ ~store \/ Len(rows) <= MaxDisk
          /\ Goto(t, Return(t))
          /\ UNCHANGED over
    /\ UNCHANGED <<produced, buf, held, store, db, rows, attached, history, faults, crashes>>

\* DeleteOldestBytes, then addDropped.
DropOldest(t) ==
    /\ Running /\ pc[t] = "trim" /\ db
    /\ LET n == IF over[t] < Len(rows) THEN over[t] ELSE Len(rows)
       IN  /\ rows' = SubSeq(rows, n + 1, Len(rows))
           /\ dropped' = dropped \cup {rows[i] : i \in 1..n}
    /\ over' = [over EXCEPT ![t] = 0]
    /\ Goto(t, Return(t))
    /\ UNCHANGED <<produced, buf, held, store, db, attached, sent, acked, lost, faults, crashes>>

\* The database was closed in between.
BudgetFails(t) ==
    /\ Running /\ pc[t] = "trim" /\ ~db
    /\ over' = [over EXCEPT ![t] = 0]
    /\ Fail(t)
    /\ UNCHANGED <<produced, buf, held, store, db, rows, history, faults, crashes>>

---------------------------------------------------------------------------
(* The flush loop, the drain and the receive loop. *)

\* The flush ticker or flushNow; select may still choose it once done is
\* closed.
LoopTick ==
    /\ Running /\ pc[Loop] = "idle"
    /\ Goto(Loop, "flush")
    /\ UNCHANGED <<produced, buf, held, over, store, db, rows, attached, history, faults, crashes>>

\* done is closed: flushLoop returns.
LoopEnd ==
    /\ Running /\ pc[Loop] = "idle" /\ pc[Main] \in {"flush", "load", "insert", "budget",
                                                      "trim", "close", "closeDB"}
    /\ Goto(Loop, "stopped")
    /\ UNCHANGED <<produced, buf, held, over, store, db, rows, attached, history, faults, crashes>>

Attach ==
    /\ Running /\ ~Stopping /\ ~attached
    /\ attached' = TRUE
    /\ UNCHANGED <<produced, buf, held, over, pc, store, db, rows, history, faults, crashes>>

\* The stream breaks under the drain.
Detach ==
    /\ Running /\ attached /\ pc[Drainer] = "idle"
    /\ Stopping \/ faults < MaxFaults
    /\ attached' = FALSE
    /\ faults' = IF Stopping THEN faults ELSE faults + 1
    /\ UNCHANGED <<produced, buf, held, over, pc, store, db, rows, history, crashes>>

\* drainOnce starts with a flush ...
DrainFlush ==
    /\ Running /\ ~Stopping /\ attached /\ pc[Drainer] = "idle"
    /\ Goto(Drainer, "flush")
    /\ UNCHANGED <<produced, buf, held, over, store, db, rows, attached, history, faults, crashes>>

\* ... and sends what the store holds; without a store it sends nothing.
DrainRead ==
    /\ Running /\ pc[Drainer] = "read"
    /\ sent' = IF store THEN sent \cup ToSet(rows) ELSE sent
    /\ Goto(Drainer, "idle")
    /\ UNCHANGED <<produced, buf, held, over, store, db, rows, attached, acked,
                   dropped, lost, faults, crashes>>

\* Acked / DeleteUpTo: the server took a prefix of what was sent.
Acked ==
    /\ Running /\ attached /\ store
    /\ \E n \in 1..Len(rows) :
        /\ \A i \in 1..n : rows[i] \in sent
        /\ rows' = SubSeq(rows, n + 1, Len(rows))
        /\ acked' = acked \cup {rows[i] : i \in 1..n}
    /\ UNCHANGED <<produced, buf, held, over, pc, store, db, attached, sent,
                   dropped, lost, faults, crashes>>

---------------------------------------------------------------------------
(* runEnrolled: the end of the agent. *)

\* The context ends, or the server refused the identity.
Stop ==
    /\ Endings # {} /\ Running /\ pc[Main] = "idle"
    /\ Goto(Main, "stopped")
    /\ UNCHANGED <<produced, buf, held, over, store, db, rows, attached, history, faults, crashes>>

\* The collectors and the drain have returned; the flush loop has not.
Quiesced ==
    /\ Running /\ pc[Main] = "stopped"
    /\ ~attached /\ \A t \in Collectors \cup {Drainer} : pc[t] = "idle"

\* Discard, for a refused identity: the store and the buffer are given up.
Discard ==
    /\ Quiesced /\ store /\ "revoke" \in Endings
    /\ store' = FALSE /\ db' = FALSE
    /\ buf' = <<>> /\ rows' = <<>>
    /\ dropped' = dropped \cup ToSet(buf) \cup ToSet(rows)
    /\ UNCHANGED <<produced, held, over, pc, attached, sent, acked, lost, faults, crashes>>

\* Close: done is closed, then a last flush ...
Close ==
    /\ Quiesced /\ (store => "stop" \in Endings)
    /\ Goto(Main, "flush")
    /\ UNCHANGED <<produced, buf, held, over, store, db, rows, attached, history, faults, crashes>>

\* ... then the pointer is cleared under the lock ...
CloseStore ==
    /\ Running /\ pc[Main] = "close"
    /\ store' = FALSE
    /\ Goto(Main, "closeDB")
    /\ UNCHANGED <<produced, buf, held, over, db, rows, attached, history, faults, crashes>>

\* ... and the database closed.
CloseDB ==
    /\ Running /\ pc[Main] = "closeDB" /\ db
    /\ db' = FALSE
    /\ UNCHANGED <<produced, buf, held, over, pc, store, rows, attached, history, faults, crashes>>

\* The process ends; what is still in memory goes with it.
Exit ==
    /\ Running /\ pc[Main] = "closeDB" /\ ~db
    /\ Goto(Main, "exited")
    /\ lost' = lost \cup Unwritten
    /\ UNCHANGED <<produced, buf, held, over, store, db, rows, attached, sent,
                   acked, dropped, faults, crashes>>

\* The process is killed and comes back with the rows on disk.
Crash ==
    /\ Running /\ ~Stopping /\ crashes < MaxCrashes
    /\ lost' = lost \cup Unwritten
    /\ buf' = <<>> /\ held' = [t \in Threads |-> <<>>]
    /\ over' = [t \in Threads |-> 0] /\ pc' = [t \in Threads |-> "idle"]
    /\ attached' = FALSE
    /\ crashes' = crashes + 1
    /\ UNCHANGED <<produced, store, db, rows, sent, acked, dropped, faults>>

---------------------------------------------------------------------------
Flush(t) == \/ FlushTake(t) \/ FlushLoad(t) \/ FlushInsert(t)
            \/ CheckBudget(t) \/ DropOldest(t) \/ BudgetFails(t)

Next == \/ \E c \in Collectors : Send(c)
        \/ \E t \in Threads : Flush(t) \/ FlushFails(t)
        \/ LoopTick \/ LoopEnd
        \/ Attach \/ Detach \/ DrainFlush \/ DrainRead \/ Acked
        \/ Stop \/ Discard \/ Close \/ CloseStore \/ CloseDB \/ Exit
        \/ Crash

Spec == Init /\ [][Next]_vars

\* Every goroutine's flush, the flush ticker, the drain's ticker, the
\* reconnect loop and the closing main goroutine keep running.
Fairness ==
    /\ \A t \in Threads : WF_vars(Flush(t))
    /\ WF_vars(LoopTick) /\ WF_vars(Attach)
    /\ WF_vars(DrainFlush) /\ WF_vars(DrainRead)
    /\ WF_vars(Close) /\ WF_vars(CloseStore) /\ WF_vars(CloseDB) /\ WF_vars(Exit)

FairSpec == Spec /\ Fairness

---------------------------------------------------------------------------
(* Properties. *)

InMemory == buf \o FoldFunction(LAMBDA a, b : a \o b, <<>>, held)

\* Every event produced is in exactly one place: the buffer, one flush's
\* batch, the table, or one of the ways an event ends.  No flush, failed or
\* not, duplicates or forgets one (flush, trimMemoryLocked, Append).
Conserved ==
    Running =>
      /\ Events = ToSet(InMemory) \cup ToSet(rows) \cup acked \cup dropped \cup lost
      /\ produced = Len(InMemory) + Len(rows) + Cardinality(acked)
                      + Cardinality(dropped) + Cardinality(lost)

\* A buffer past the memory budget is about to be flushed or trimmed by the
\* collector that filled it, so until a write fails the collectors exceed the
\* budget by at most one event each (Send, flush).
BufferBounded ==
    faults = 0 /\ Len(buf) > MaxMemory =>
        Cardinality({c \in Collectors : pc[c] = "flush"}) >= Len(buf) - MaxMemory


\* Every event queued beside an open database is sent while the agent runs,
\* unless a bound dropped it or a crash lost it (flushLoop, drainOnce).
EventuallySent ==
    \A e \in 1..MaxEvents :
      (e <= produced /\ store) ~> (e \in sent \cup dropped \cup lost \/ ~store \/ Stopping)

\* "a clean stop has to push the buffer out on its way down"
\* (spool_test.go): after Close nothing queued is lost.
CleanCloseLosesNothing == ~Running => lost = {}
===========================================================================
