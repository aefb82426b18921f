------------------------- MODULE AgentReplayProofs -------------------------
(***************************************************************************)
(* Proofs about AgentReplay, for every bound, batch size and set of        *)
(* unreadable rows: the type invariant, that no event is lost, and that a  *)
(* refused event is sent again.                                            *)
(***************************************************************************)
EXTENDS AgentReplay, TLAPS

\* The tracker's operations return trackers (ack.go).
LEMMA TrackerType ==
    ASSUME NEW a \in Tracker, NEW seq \in Nat
    PROVE  /\ newAckTracker \in Tracker
           /\ accept(a, seq) \in Tracker
           /\ refuse(a, seq) \in Tracker
           /\ sent(a, a.highest) \in Tracker
BY DEF Tracker, newAckTracker, accept, refuse, sent

\* The drain's states are built from a place, a row and a batch.
LEMMA DrainType ==
    /\ Idle \in DrainState
    /\ \A pc \in {"check", "send"}, row \in Nat, batch \in SUBSET (Nat \ {0}) :
          Drain(pc, row, batch) \in DrainState
    /\ \A d \in DrainState : Rewound(d) \in DrainState
BY DEF Idle, Drain, DrainState, Rewound

\* Messages to the agent carry a kind and a sequence.
LEMMA MessageType ==
    /\ RateLimit \in Message
    /\ \A n \in Nat : Ack(n) \in Message
    /\ \A m \in Message : m.seq \in Nat
BY DEF Message, Ack, RateLimit

\* The variables keep their types through every step of the spool, the
\* stream and the push session.
LEMMA TypeStep == TypeOK /\ [Next]_vars => TypeOK'
<1> SUFFICES ASSUME TypeOK, [Next]_vars PROVE TypeOK'
  OBVIOUS
<1> USE DEF TypeOK
<1>1. CASE SpoolAppend
  BY <1>1, BoundsAssumption DEF SpoolAppend, streamVars, serverVars
<1>2. CASE DropOldest
  <2>1. PICK last \in rows : Delete({s \in rows : s <= last})
    BY <1>2 DEF DropOldest
  <2>2. rows' \subseteq rows /\ gone' \subseteq gone \cup rows
    BY <2>1 DEF Delete
  <2>3. UNCHANGED <<nextSeq, ackSeq, sendSeq, paused, drain, purging,
                    streamVars, serverVars, faults>>
    BY <2>1 DEF Delete
  <2> QED
    BY <2>2, <2>3 DEF streamVars, serverVars
<1>3. CASE PurgeExpired
  BY <1>3 DEF PurgeExpired, Delete, streamVars, serverVars
<1>4. CASE Attach
  <2>1. drain' \in DrainState /\ acks' \in Tracker
    BY <1>4, DrainType, TrackerType DEF Attach
  <2>2. paused' \in BOOLEAN /\ connected' \in BOOLEAN
    BY <1>4 DEF Attach
  <2> QED
    BY <1>4, <2>1, <2>2 DEF Attach
<1>5. CASE Detach
  <2>1. drain' \in DrainState
    BY <1>5, DrainType DEF Detach
  <2>2. connected' \in BOOLEAN
    BY <1>5 DEF Detach
  <2> QED
    BY <1>5, <2>1, <2>2 DEF Detach, serverVars
<1>6. CASE AgentCrash
  <2>1. drain' \in DrainState /\ acks' \in Tracker
    BY <1>6, DrainType, TrackerType DEF AgentCrash
  <2>2. paused' \in BOOLEAN /\ connected' \in BOOLEAN
    BY <1>6 DEF AgentCrash
  <2> QED
    BY <1>6, <2>1, <2>2 DEF AgentCrash
<1>7. CASE DrainRead
  <2>1. drain' \in DrainState
    BY <1>7, DrainType DEF DrainRead
  <2> QED
    BY <1>7, <2>1 DEF DrainRead, streamVars, serverVars
<1>8. CASE DrainCheck
  <2>1. PICK m \in drain.batch :
           \/ Advance(m, drain.batch \ {m})
           \/ UNCHANGED sendSeq /\ drain' \in {Idle, Drain("send", m, drain.batch \ {m})}
    BY <1>8 DEF DrainCheck
  <2>2. m \in Nat /\ drain.batch \ {m} \in SUBSET (Nat \ {0})
    BY DEF DrainState
  <2>3. drain' \in DrainState /\ sendSeq' \in Nat
    BY <2>1, <2>2, DrainType DEF Advance, Continue
  <2> QED
    BY <1>8, <2>3 DEF DrainCheck, streamVars, serverVars
<1>9. CASE DrainSend
  <2>1. drain' \in DrainState /\ drain.row \in Nat
    BY <1>9 DEF DrainSend, DrainState
  <2> QED
    BY <1>9, <2>1 DEF DrainSend, serverVars
<1>10. CASE DrainAdvance
  <2>1. drain.row \in Nat /\ drain.batch \in SUBSET (Nat \ {0})
    BY DEF DrainState
  <2>2. drain' \in DrainState /\ sendSeq' \in Nat
    BY <1>10, <2>1, DrainType DEF DrainAdvance, Advance, Continue
  <2> QED
    BY <1>10, <2>2 DEF DrainAdvance, streamVars, serverVars
<1>11. CASE SendSnapshot
  BY <1>11 DEF SendSnapshot, agentVars, serverVars
<1>12. CASE Resume
  BY <1>12 DEF Resume, streamVars, serverVars
<1>13. CASE RateLimited
  <2>1. drain' \in DrainState
    BY <1>13, DrainType DEF RateLimited
  <2> QED
    BY <1>13, <2>1 DEF RateLimited, serverVars
<1>14. CASE Acked
  <2>1. Head(down).seq \in Nat
    BY <1>14, MessageType DEF Acked
  <2> QED
    BY <1>14, <2>1 DEF Acked, serverVars
<1>15. CASE PurgeAcked
  BY <1>15 DEF PurgeAcked, streamVars, serverVars
<1>16. CASE PurgeFails
  BY <1>16 DEF PurgeFails, streamVars, serverVars
<1>17. CASE HandleEvent
  <2>1. Head(up) \in Nat /\ Tail(up) \in Seq(Nat)
    BY <1>17 DEF HandleEvent
  <2>2. accept(acks, Head(up)) \in Tracker
    BY <2>1, TrackerType
  <2>3. sent(accept(acks, Head(up)), accept(acks, Head(up)).highest) \in Tracker
    BY <2>2, TrackerType
  <2>4. accept(acks, Head(up)).highest \in Nat
    BY <2>2 DEF Tracker
  <2>5. Ack(accept(acks, Head(up)).highest) \in Message
    BY <2>4, MessageType
  <2>6. acks' \in Tracker /\ down' \in Seq(Message)
    <3> DEFINE a == accept(acks, Head(up))
    <3>1. CASE acks' = a /\ UNCHANGED down
      BY <3>1, <2>2
    <3>2. CASE acks' = sent(a, a.highest) /\ down' = Append(down, Ack(a.highest))
      BY <3>2, <2>3, <2>5
    <3> QED
      BY <1>17, <3>1, <3>2 DEF HandleEvent
  <2>7. accepted' \subseteq Nat \ {0} /\ stored' \subseteq accepted'
    BY <1>17, <2>1 DEF HandleEvent, Take
  <2> QED
    BY <1>17, <2>1, <2>6, <2>7 DEF HandleEvent, agentVars
<1>18. CASE RefuseEvent
  <2>1. Head(up) \in Nat /\ Tail(up) \in Seq(Nat)
    BY <1>18 DEF RefuseEvent
  <2>2. refuse(acks, Head(up)) \in Tracker
    BY <2>1, TrackerType
  <2> QED
    BY <1>18, <2>1, <2>2, MessageType DEF RefuseEvent, agentVars
<1>19. CASE AckTick
  <2>1. sent(acks, acks.highest) \in Tracker /\ acks.highest \in Nat
    BY TrackerType DEF Tracker
  <2> QED
    BY <1>19, <2>1, MessageType DEF AckTick, agentVars
<1>20. CASE LateEvent
  <2>1. Head(late) \in Nat /\ Tail(late) \in Seq(Nat)
    BY <1>20 DEF LateEvent
  <2> QED
    BY <1>20, <2>1 DEF LateEvent, Take, agentVars
<1>21. CASE ServerCrash
  <2>1. drain' \in DrainState /\ acks' \in Tracker
    BY <1>21, DrainType, TrackerType DEF ServerCrash
  <2>2. connected' \in BOOLEAN
    BY <1>21 DEF ServerCrash
  <2> QED
    BY <1>21, <2>1, <2>2 DEF ServerCrash
<1>22. CASE UNCHANGED vars
  BY <1>22 DEF vars, agentVars, streamVars, serverVars
<1> QED
  BY <1>1, <1>2, <1>3, <1>4, <1>5, <1>6, <1>7, <1>8, <1>9, <1>10, <1>11,
     <1>12, <1>13, <1>14, <1>15, <1>16, <1>17, <1>18, <1>19, <1>20, <1>21,
     <1>22 DEF Next, Agent, Server

---------------------------------------------------------------------------
(* The wire. *)

\* The tail of the wire keeps the rest in its order.
LEMMA TailFacts ==
    ASSUME NEW u \in Seq(Nat), u # <<>>
    PROVE  /\ Tail(u) \in Seq(Nat) /\ Len(Tail(u)) = Len(u) - 1
           /\ Len(u) \in Nat /\ Len(u) > 0
           /\ Head(u) = u[1] /\ u[1] \in Nat
           /\ \A i \in 1..Len(Tail(u)) : Tail(u)[i] = u[i + 1]
           /\ \A k \in 2..Len(u) : k - 1 \in 1..Len(Tail(u)) /\ Tail(u)[k - 1] = u[k]
           /\ \A i \in 1..Len(u) : u[i] \in Nat
<1>1. /\ Tail(u) \in Seq(Nat) /\ Len(Tail(u)) = Len(u) - 1
      /\ Len(u) \in Nat /\ Len(u) > 0
      /\ Head(u) = u[1] /\ u[1] \in Nat
      /\ \A i \in 1..Len(Tail(u)) : Tail(u)[i] = u[i + 1]
      /\ \A i \in 1..Len(u) : u[i] \in Nat
  OBVIOUS
<1>2. ASSUME NEW k \in 2..Len(u)
      PROVE  k - 1 \in 1..Len(Tail(u)) /\ Tail(u)[k - 1] = u[k]
  <2>1. k - 1 \in 1..Len(Tail(u)) /\ (k - 1) + 1 = k
    BY <1>1
  <2>2. Tail(u)[k - 1] = u[(k - 1) + 1]
    BY <1>1, <2>1
  <2> QED
    BY <2>1, <2>2
<1> QED
  BY <1>1, <1>2

\* Sending puts one event at the end of the wire.
LEMMA AppendFacts ==
    ASSUME NEW u \in Seq(Nat), NEW m \in Nat
    PROVE  /\ Append(u, m) \in Seq(Nat) /\ Len(Append(u, m)) = Len(u) + 1
           /\ Len(u) \in Nat
           /\ Append(u, m)[Len(u) + 1] = m
           /\ \A i \in 1..Len(u) : Append(u, m)[i] = u[i] /\ u[i] \in Nat
OBVIOUS

\* Settling more rows, and passing over settled ones, keeps the four facts.
LEMMA Grow ==
    ASSUME NEW u \in Seq(Nat), NEW St, NEW St2, St \subseteq St2,
           NEW r \in Nat, NEW c \in Nat, NEW S, NEW S2, S \subseteq S2 \cup St2
    PROVE  /\ OrderedWire(u, St) => OrderedWire(u, St2)
           /\ GaplessWire(u, St, r) => GaplessWire(u, St2, r)
           /\ Ordered(u, St, c, S) => Ordered(u, St2, c, S2)
           /\ Gapless(u, St, r, c, S) => Gapless(u, St2, r, c, S2)
<1>1. \A s : (s \in St => s \in St2) /\ (s \in S => s \in S2 \/ s \in St2)
  OBVIOUS
<1> QED
  BY <1>1 DEF OrderedWire, GaplessWire, Ordered, Gapless

\* The server takes the first event off the wire, whether it accepts or
\* refuses it: the order of the others does not change.
LEMMA TailOrdered ==
    ASSUME NEW u \in Seq(Nat), u # <<>>, NEW St, NEW c \in Nat, NEW S
    PROVE  /\ OrderedWire(u, St) => OrderedWire(Tail(u), St)
           /\ Ordered(u, St, c, S) => Ordered(Tail(u), St, c, S)
<1> DEFINE v == Tail(u)
<1> HIDE DEF v
<1>0. /\ v \in Seq(Nat) /\ Len(v) = Len(u) - 1 /\ Len(u) \in Nat
      /\ \A i \in 1..Len(v) : v[i] = u[i + 1] /\ v[i] \in Nat
      /\ \A k \in 2..Len(u) : k - 1 \in 1..Len(v) /\ v[k - 1] = u[k]
  BY TailFacts DEF v
<1>1. ASSUME OrderedWire(u, St) PROVE OrderedWire(v, St)
  <2> SUFFICES ASSUME NEW i \in 1..Len(v), NEW j \in 1..Len(v), i < j, v[i] # 0,
                      NEW s \in (v[i] + 1)..(v[j] - 1), s \notin St
               PROVE  \E k \in (i + 1)..(j - 1) : v[k] = s
    BY DEF OrderedWire
  <2>a. /\ i + 1 \in 1..Len(u) /\ j + 1 \in 1..Len(u) /\ i + 1 < j + 1
    BY <1>0
  <2>b. u[i + 1] = v[i] /\ u[j + 1] = v[j]
    BY <1>0
  <2>0. /\ i + 1 \in 1..Len(u) /\ j + 1 \in 1..Len(u) /\ i + 1 < j + 1
        /\ u[i + 1] = v[i] /\ u[j + 1] = v[j]
    BY <2>a, <2>b
  <2>1. \E k \in ((i + 1) + 1)..((j + 1) - 1) : u[k] = s
    BY <1>1, <2>0 DEF OrderedWire
  <2>2. PICK k \in (i + 2)..j : u[k] = s
    BY <2>1
  <2>3. k - 1 \in (i + 1)..(j - 1) /\ k \in 2..Len(u)
    BY <1>0
  <2> QED
    BY <1>0, <2>2, <2>3
<1>2. ASSUME Ordered(u, St, c, S) PROVE Ordered(v, St, c, S)
  <2> SUFFICES ASSUME NEW i \in 1..Len(v), v[i] # 0,
                      NEW s \in (v[i] + 1)..(c - 1), s \notin St, s \notin S
               PROVE  \E k \in (i + 1)..Len(v) : v[k] = s
    BY DEF Ordered
  <2>0. i + 1 \in 1..Len(u) /\ u[i + 1] = v[i]
    BY <1>0
  <2>1. \E k \in ((i + 1) + 1)..Len(u) : u[k] = s
    BY <1>2, <2>0 DEF Ordered
  <2>2. PICK k \in (i + 2)..Len(u) : u[k] = s
    BY <2>1
  <2>3. k - 1 \in (i + 1)..Len(v) /\ k \in 2..Len(u)
    BY <1>0
  <2> QED
    BY <1>0, <2>2, <2>3
<1> QED
  BY <1>1, <1>2 DEF v

\* Refusing the first event freezes the ack at or below it, so what may still
\* move the ack never waited for it.
LEMMA TailRefused ==
    ASSUME NEW u \in Seq(Nat), u # <<>>, NEW St, NEW c \in Nat, NEW S,
           NEW r \in Nat, NEW r2 \in Nat,
           r2 = 0 => r = 0 /\ u[1] = 0,
           r # 0 => r2 <= r,
           u[1] # 0 => r2 <= u[1]
    PROVE  /\ GaplessWire(u, St, r) => GaplessWire(Tail(u), St, r2)
           /\ Gapless(u, St, r, c, S) => Gapless(Tail(u), St, r2, c, S)
<1> DEFINE v == Tail(u)
<1> HIDE DEF v
<1>0. /\ v \in Seq(Nat) /\ Len(v) = Len(u) - 1 /\ Len(u) \in Nat
      /\ \A i \in 1..Len(v) : v[i] = u[i + 1] /\ v[i] \in Nat
      /\ \A k \in 2..Len(u) : k - 1 \in 1..Len(v) /\ v[k - 1] = u[k]
      /\ u[1] \in Nat
  BY TailFacts DEF v
<1>1. ASSUME GaplessWire(u, St, r) PROVE GaplessWire(v, St, r2)
  <2> SUFFICES ASSUME NEW j \in 1..Len(v), r2 = 0 \/ v[j] <= r2,
                      NEW s \in 1..(v[j] - 1), s \notin St
               PROVE  \E k \in 1..(j - 1) : v[k] = s
    BY DEF GaplessWire
  <2>0. v[j] = u[j + 1] /\ v[j] \in Nat /\ j + 1 \in 1..Len(u)
    BY <1>0
  <2>1. \E k \in 1..((j + 1) - 1) : u[k] = s
    BY <1>1, <2>0 DEF GaplessWire
  <2>2. PICK k \in 1..j : u[k] = s
    BY <2>1
  <2>a. s \in Nat /\ s # 0 /\ (r2 # 0 => s < r2)
    BY <2>0
  <2>b. u[1] # s
    <3>1. u[1] \in Nat
      BY <1>0
    <3>2. \A a \in Nat : (a # 0 => r2 <= a) /\ (r2 = 0 => a = 0) => a # s
      BY <2>a
    <3> QED
      BY <3>1, <3>2
  <2>3. k # 1
    BY <2>b, <2>2
  <2>4. k - 1 \in 1..(j - 1) /\ k \in 2..Len(u)
    BY <1>0, <2>3
  <2> QED
    BY <1>0, <2>2, <2>4
<1>2. ASSUME Gapless(u, St, r, c, S) PROVE Gapless(v, St, r2, c, S)
  <2> SUFFICES ASSUME r2 = 0 \/ c <= r2,
                      NEW s \in 1..(c - 1), s \notin St, s \notin S
               PROVE  \E k \in 1..Len(v) : v[k] = s
    BY DEF Gapless
  <2>1. PICK k \in 1..Len(u) : u[k] = s
    BY <1>0, <1>2 DEF Gapless
  <2>2. k # 1
    BY <1>0, <2>1
  <2>3. k - 1 \in 1..Len(v) /\ k \in 2..Len(u)
    BY <1>0, <2>2
  <2> QED
    BY <1>0, <2>1, <2>3
<1> QED
  BY <1>1, <1>2 DEF v

\* Accepting the first event settles it.  An acceptance that lifts the freeze
\* finds everything below the event settled, and everything above it in order
\* behind it.
LEMMA TailAccepted ==
    ASSUME NEW u \in Seq(Nat), u # <<>>, NEW St, NEW St2, St \subseteq St2,
           NEW c \in Nat, NEW S, NEW r \in Nat, NEW r2 \in Nat,
           u[1] # 0 => u[1] \in St2,
           r2 = r \/ (u[1] # 0 /\ u[1] <= r)
    PROVE  /\ OrderedWire(u, St) /\ GaplessWire(u, St, r) => GaplessWire(Tail(u), St2, r2)
           /\ Ordered(u, St, c, S) /\ GaplessWire(u, St, r) /\ Gapless(u, St, r, c, S)
                => Gapless(Tail(u), St2, r2, c, S)
<1> DEFINE v == Tail(u)
<1> HIDE DEF v
<1>0. /\ v \in Seq(Nat) /\ Len(v) = Len(u) - 1 /\ Len(u) \in Nat /\ Len(u) > 0
      /\ \A i \in 1..Len(v) : v[i] = u[i + 1] /\ v[i] \in Nat
      /\ \A k \in 2..Len(u) : k - 1 \in 1..Len(v) /\ v[k - 1] = u[k]
  BY TailFacts DEF v
<1>u. u[1] \in Nat
  BY TailFacts
<1>d. ASSUME GaplessWire(u, St, r), r2 # r, NEW s \in 1..u[1] PROVE s \in St2
  <2>a. 1 \in 1..Len(u) /\ u[1] <= r
    BY <1>d, <1>0
  <2>1. \A t \in 1..(u[1] - 1) : t \in St \/ \E k \in 1..(1 - 1) : u[k] = t
    BY <1>d, <2>a DEF GaplessWire
  <2>2. s = u[1] \/ s \in 1..(u[1] - 1)
    BY <1>u
  <2> QED
    BY <2>1, <2>2, <1>u, <1>d
<1>1. ASSUME OrderedWire(u, St), GaplessWire(u, St, r) PROVE GaplessWire(v, St2, r2)
  <2> SUFFICES ASSUME NEW j \in 1..Len(v), r2 = 0 \/ v[j] <= r2,
                      NEW s \in 1..(v[j] - 1), s \notin St2
               PROVE  \E k \in 1..(j - 1) : v[k] = s
    BY DEF GaplessWire
  <2>0. v[j] = u[j + 1] /\ v[j] \in Nat /\ j + 1 \in 1..Len(u) /\ j + 1 > 1
    BY <1>0
  <2>1. s \in Nat \ {0} /\ s \notin St /\ s # u[1]
    BY <2>0, <1>u
  <2>2. \E k \in 1..((j + 1) - 1) : u[k] = s
    <3>1. CASE r2 = r
      BY <3>1, <1>1, <2>0, <2>1 DEF GaplessWire
    <3>2. CASE r2 # r
      <4>1. u[1] # 0 /\ s \in (u[1] + 1)..(u[j + 1] - 1)
        BY <3>2, <1>1, <1>d, <1>u, <2>0, <2>1
      <4>2. 1 \in 1..Len(u) /\ 1 < j + 1
        BY <1>0
      <4>3. \E k \in (1 + 1)..((j + 1) - 1) : u[k] = s
        BY <4>1, <4>2, <1>1, <2>0, <2>1 DEF OrderedWire
      <4> QED
        BY <4>3
    <3> QED
      BY <3>1, <3>2
  <2>3. PICK k \in 1..j : u[k] = s
    BY <2>2
  <2>4. k # 1
    BY <2>1, <2>3
  <2>5. k - 1 \in 1..(j - 1) /\ k \in 2..Len(u)
    BY <1>0, <2>4
  <2> QED
    BY <1>0, <2>3, <2>5
<1>2. ASSUME Ordered(u, St, c, S), GaplessWire(u, St, r), Gapless(u, St, r, c, S)
      PROVE  Gapless(v, St2, r2, c, S)
  <2> SUFFICES ASSUME r2 = 0 \/ c <= r2,
                      NEW s \in 1..(c - 1), s \notin St2, s \notin S
               PROVE  \E k \in 1..Len(v) : v[k] = s
    BY DEF Gapless
  <2>1. s \in Nat \ {0} /\ s \notin St /\ s # u[1]
    BY <1>u
  <2>2. \E k \in 1..Len(u) : u[k] = s
    <3>1. CASE r2 = r
      BY <3>1, <1>2, <2>1 DEF Gapless
    <3>2. CASE r2 # r
      <4>1. u[1] # 0 /\ s \in (u[1] + 1)..(c - 1)
        BY <3>2, <1>2, <1>d, <1>u, <2>1
      <4>2. 1 \in 1..Len(u)
        BY <1>0
      <4>3. \E k \in (1 + 1)..Len(u) : u[k] = s
        BY <4>1, <4>2, <1>2, <2>1 DEF Ordered
      <4> QED
        BY <4>3
    <3> QED
      BY <3>1, <3>2
  <2>3. PICK k \in 1..Len(u) : u[k] = s
    BY <2>2
  <2>4. k # 1
    BY <2>1, <2>3
  <2>5. k - 1 \in 1..Len(v) /\ k \in 2..Len(u)
    BY <1>0, <2>4
  <2> QED
    BY <1>0, <2>3, <2>5
<1> QED
  BY <1>1, <1>2 DEF v

\* A row goes on the wire once everything below it is settled or ahead of it;
\* rows that follow it in the batch skip only settled ones.
LEMMA AppendRow ==
    ASSUME NEW u \in Seq(Nat), NEW St, NEW m \in Nat, NEW c \in Nat, NEW S,
           NEW r \in Nat
    PROVE  /\ OrderedWire(u, St) /\ Ordered(u, St, m, {})
                => OrderedWire(Append(u, m), St)
           /\ GaplessWire(u, St, r) /\ Gapless(u, St, r, m, {})
                => GaplessWire(Append(u, m), St, r)
           /\ (m # 0 => \A s \in (m + 1)..(c - 1) : s \in St \/ s \in S)
                => (Ordered(u, St, c, S \cup {m}) => Ordered(Append(u, m), St, c, S))
           /\ Gapless(u, St, r, c, S \cup {m}) => Gapless(Append(u, m), St, r, c, S)
           /\ Gapless(u, St, r, m, {}) => Gapless(Append(u, m), St, r, m + 1, {})
           /\ Ordered(u, St, m, {}) => Ordered(Append(u, m), St, m + 1, {})
<1> DEFINE v == Append(u, m)
           L == Len(u)
<1> HIDE DEF v, L
<1>0. /\ v \in Seq(Nat) /\ Len(v) = L + 1 /\ L \in Nat /\ Len(u) = L
      /\ v[L + 1] = m
      /\ \A i \in 1..L : v[i] = u[i] /\ u[i] \in Nat
  BY AppendFacts DEF v, L
<1>1. ASSUME OrderedWire(u, St), Ordered(u, St, m, {}) PROVE OrderedWire(v, St)
  <2> SUFFICES ASSUME NEW i \in 1..L, NEW j \in 1..(L + 1), i < j, u[i] # 0,
                      NEW s \in (u[i] + 1)..(v[j] - 1), s \notin St
               PROVE  \E k \in (i + 1)..(j - 1) : v[k] = s
    <3> SUFFICES ASSUME NEW i \in 1..(L + 1), NEW j \in 1..(L + 1), i < j, v[i] # 0,
                        NEW s \in (v[i] + 1)..(v[j] - 1), s \notin St
                 PROVE  \E k \in (i + 1)..(j - 1) : v[k] = s
      BY <1>0 DEF OrderedWire
    <3>1. i \in 1..L /\ v[i] = u[i]
      BY <1>0
    <3> QED
      BY <3>1
  <2>1. \E k \in (i + 1)..(j - 1) : u[k] = s
    <3>1. CASE j \in 1..L
      BY <3>1, <1>0, <1>1 DEF OrderedWire
    <3>2. CASE j = L + 1
      BY <3>2, <1>0, <1>1 DEF Ordered
    <3> QED
      BY <3>1, <3>2, <1>0
  <2> QED
    BY <2>1, <1>0
<1>2. ASSUME GaplessWire(u, St, r), Gapless(u, St, r, m, {}) PROVE GaplessWire(v, St, r)
  <2> SUFFICES ASSUME NEW j \in 1..(L + 1), r = 0 \/ v[j] <= r,
                      NEW s \in 1..(v[j] - 1), s \notin St
               PROVE  \E k \in 1..(j - 1) : v[k] = s
    BY <1>0 DEF GaplessWire
  <2>1. \E k \in 1..(j - 1) : u[k] = s
    <3>1. CASE j \in 1..L
      BY <3>1, <1>0, <1>2 DEF GaplessWire
    <3>2. CASE j = L + 1
      BY <3>2, <1>0, <1>2 DEF Gapless
    <3> QED
      BY <3>1, <3>2, <1>0
  <2> QED
    BY <2>1, <1>0
<1>3. ASSUME Ordered(u, St, c, S \cup {m}),
             m # 0 => \A s \in (m + 1)..(c - 1) : s \in St \/ s \in S
      PROVE  Ordered(v, St, c, S)
  <2> SUFFICES ASSUME NEW i \in 1..(L + 1), v[i] # 0,
                      NEW s \in (v[i] + 1)..(c - 1), s \notin St, s \notin S
               PROVE  \E k \in (i + 1)..(L + 1) : v[k] = s
    BY <1>0 DEF Ordered
  <2>1. i \in 1..L
    BY <1>0, <1>3
  <2>2. s = m \/ \E k \in (i + 1)..L : u[k] = s
    BY <2>1, <1>0, <1>3 DEF Ordered
  <2> QED
    BY <2>1, <2>2, <1>0
<1>4. ASSUME Gapless(u, St, r, c, S \cup {m}) PROVE Gapless(v, St, r, c, S)
  <2> SUFFICES ASSUME r = 0 \/ c <= r,
                      NEW s \in 1..(c - 1), s \notin St, s \notin S
               PROVE  \E k \in 1..(L + 1) : v[k] = s
    BY <1>0 DEF Gapless
  <2>1. s = m \/ \E k \in 1..L : u[k] = s
    BY <1>0, <1>4 DEF Gapless
  <2> QED
    BY <2>1, <1>0
<1>5. ASSUME Gapless(u, St, r, m, {}) PROVE Gapless(v, St, r, m + 1, {})
  <2> SUFFICES ASSUME r = 0 \/ m + 1 <= r, NEW s \in 1..m, s \notin St
               PROVE  \E k \in 1..(L + 1) : v[k] = s
    BY <1>0 DEF Gapless
  <2>1. s = m \/ \E k \in 1..L : u[k] = s
    BY <1>0, <1>5 DEF Gapless
  <2> QED
    BY <2>1, <1>0
<1>6. ASSUME Ordered(u, St, m, {}) PROVE Ordered(v, St, m + 1, {})
  <2> SUFFICES ASSUME NEW i \in 1..(L + 1), v[i] # 0,
                      NEW s \in (v[i] + 1)..m, s \notin St
               PROVE  \E k \in (i + 1)..(L + 1) : v[k] = s
    BY <1>0 DEF Ordered
  <2>1. i \in 1..L
    BY <1>0
  <2>2. s = m \/ \E k \in (i + 1)..L : u[k] = s
    BY <2>1, <1>0, <1>6 DEF Ordered
  <2> QED
    BY <2>1, <2>2, <1>0
<1> QED
  BY <1>1, <1>2, <1>3, <1>4, <1>5, <1>6 DEF v

---------------------------------------------------------------------------
(* The steps. *)

ProtoInv ==
    /\ AckInv /\ WireInv /\ CursorInv
    /\ BatchOrdered /\ BatchGapless(acks.refused) /\ BatchClosed
    /\ DrainInv /\ CursorBehind /\ ResendInv

\* The types of the fields the invariant reads.
LEMMA FieldTypes ==
    ASSUME TypeOK
    PROVE  /\ drain.row \in Nat /\ drain.batch \subseteq Nat \ {0}
           /\ drain.stale \in BOOLEAN
           /\ drain.pc \in {"idle", "check", "send", "advance"}
           /\ Reached \in Nat /\ sendSeq + 1 \in Nat /\ ackSeq + 1 \in Nat
           /\ acks.refused \in Nat /\ acks.highest \in Nat /\ acks.acked \in Nat
BY DEF TypeOK, DrainState, Tracker, Reached

\* A step that leaves the wire, the cursors and the drain alone keeps the
\* protocol's invariant, whatever it settles.
LEMMA Quiet ==
    ASSUME TypeOK, ProtoInv, Settled \subseteq Settled',
           UNCHANGED <<ackSeq, sendSeq, drain, purging, connected, up, down, acks>>
    PROVE  ProtoInv'
<1> DEFINE St == Settled
           St2 == Settled'
<1> HIDE DEF St, St2
<1>0. St \subseteq St2 /\ \A s : s \in St => s \in St2
  BY DEF St, St2
<1>t. up \in Seq(Nat)
  BY DEF TypeOK
<1>h. UNCHANGED <<InHand, Reached, ToSend>>
  BY DEF InHand, Reached, ToSend
<1>1. AckInv'
  BY <1>0 DEF ProtoInv, AckInv, SettledUpTo, St, St2
<1>2. WireInv'
  BY <1>0, <1>t, FieldTypes, Grow DEF ProtoInv, WireInv, St, St2
<1>3. CursorInv'
  BY <1>0, <1>t, FieldTypes, Grow DEF ProtoInv, CursorInv, St, St2
<1>4. BatchOrdered'
  BY <1>0, <1>t, <1>h, FieldTypes, Grow DEF ProtoInv, BatchOrdered, St, St2
<1>5. \A r \in Nat : BatchGapless(r) => BatchGapless(r)'
  BY <1>0, <1>t, <1>h, FieldTypes, Grow DEF ProtoInv, BatchGapless, St, St2
<1>6. BatchGapless(acks.refused)'
  BY <1>5, FieldTypes DEF ProtoInv
<1>7. BatchClosed'
  BY <1>0, <1>h DEF ProtoInv, BatchClosed, St, St2
<1>8. DrainInv' /\ CursorBehind'
  BY <1>0, <1>h DEF ProtoInv, DrainInv, CursorBehind, SettledUpTo, St, St2
<1>9. ResendInv'
  <2>1. Gapless(up, Settled, 0, sendSeq + 1, {})
          => Gapless(up, Settled, 0, sendSeq + 1, {})'
    BY <1>0, <1>t, FieldTypes, Grow DEF St, St2
  <2>2. BatchGapless(0) => BatchGapless(0)'
    BY <1>5
  <2> QED
    BY <2>1, <2>2 DEF ProtoInv, ResendInv, RateLimitComing
<1> QED
  BY <1>1, <1>2, <1>3, <1>4, <1>6, <1>7, <1>8, <1>9 DEF ProtoInv

\* A drain between two batches holds nothing.
LEMMA IdleBatch ==
    ASSUME drain' = Idle
    PROVE  /\ BatchOrdered' /\ BatchClosed' /\ DrainInv' /\ CursorBehind'
           /\ \A r : BatchGapless(r)'
BY DEF Idle, Drain, BatchOrdered, BatchClosed, DrainInv, CursorBehind, BatchGapless,
       InHand, ToSend

\* Nothing is out of order on an empty wire.
LEMMA EmptyWire ==
    ASSUME NEW St, NEW r, NEW c, NEW S
    PROVE  OrderedWire(<<>>, St) /\ GaplessWire(<<>>, St, r) /\ Ordered(<<>>, St, c, S)
BY DEF OrderedWire, GaplessWire, Ordered

\* A cursor that stands at the last acknowledged row leaves nothing behind.
LEMMA SettledBelow ==
    ASSUME NEW u \in Seq(Nat), NEW St, NEW n \in Nat, \A s \in 1..n : s \in St,
           NEW r \in Nat
    PROVE  Ordered(u, St, n + 1, {}) /\ Gapless(u, St, r, n + 1, {})
<1>1. \A i \in 1..Len(u) : u[i] \in Nat
  OBVIOUS
<1> QED
  BY <1>1 DEF Ordered, Gapless

\* A broken stream leaves the drain idle and the wire as it was.
LEMMA DetachStep == ASSUME TypeOK, ProtoInv, Detach PROVE ProtoInv'
<1>1. Settled' = Settled
  BY DEF Detach, Settled, serverVars
<1>2. AckInv' /\ WireInv'
  BY <1>1 DEF ProtoInv, AckInv, WireInv, SettledUpTo, Detach, serverVars
<1>3. CursorInv' /\ ResendInv'
  BY DEF Detach, CursorInv, ResendInv
<1>4. /\ BatchOrdered' /\ BatchClosed' /\ DrainInv' /\ CursorBehind'
      /\ BatchGapless(acks.refused)'
  BY IdleBatch DEF Detach
<1> QED
  BY <1>2, <1>3, <1>4 DEF ProtoInv

\* A crash of the agent forgets the cursors and the stream.
LEMMA AgentCrashStep == ASSUME TypeOK, ProtoInv, AgentCrash PROVE ProtoInv'
<1>1. AckInv'
  BY DEF AckInv, SettledUpTo, AgentCrash, newAckTracker
<1>2. WireInv'
  BY EmptyWire DEF WireInv, AgentCrash
<1>3. CursorInv' /\ ResendInv'
  BY DEF AgentCrash, CursorInv, ResendInv
<1>4. /\ BatchOrdered' /\ BatchClosed' /\ DrainInv' /\ CursorBehind'
      /\ BatchGapless(acks.refused)'
  BY IdleBatch DEF AgentCrash
<1> QED
  BY <1>1, <1>2, <1>3, <1>4 DEF ProtoInv

\* A restart of the server forgets the stream and its tracker.
LEMMA ServerCrashStep == ASSUME TypeOK, ProtoInv, ServerCrash PROVE ProtoInv'
<1>0. Settled' = Settled
  BY DEF ServerCrash, Settled
<1>1. AckInv'
  BY <1>0 DEF ProtoInv, AckInv, SettledUpTo, ServerCrash, newAckTracker
<1>2. WireInv'
  BY EmptyWire DEF WireInv, ServerCrash
<1>3. CursorInv' /\ ResendInv'
  BY DEF ServerCrash, CursorInv, ResendInv
<1>4. /\ BatchOrdered' /\ BatchClosed' /\ DrainInv' /\ CursorBehind'
      /\ BatchGapless(acks.refused)'
  BY IdleBatch DEF ServerCrash
<1> QED
  BY <1>1, <1>2, <1>3, <1>4 DEF ProtoInv

\* A new stream starts at the last ack with a new tracker.
LEMMA AttachStep == ASSUME TypeOK, ProtoInv, Attach PROVE ProtoInv'
<1>0. Settled' = Settled
  BY DEF Attach, Settled
<1>1. AckInv'
  BY <1>0 DEF ProtoInv, AckInv, SettledUpTo, Attach, newAckTracker
<1>2. WireInv'
  BY EmptyWire DEF WireInv, Attach
<1>3. /\ up' \in Seq(Nat) /\ sendSeq' \in Nat /\ acks'.refused \in Nat
      /\ \A s \in 1..sendSeq' : s \in Settled'
  BY <1>0 DEF Attach, TypeOK, newAckTracker, ProtoInv, AckInv, SettledUpTo
<1>4. CursorInv' /\ Gapless(up, Settled, 0, sendSeq + 1, {})'
  BY <1>3, SettledBelow DEF CursorInv
<1>5. /\ BatchOrdered' /\ BatchClosed' /\ DrainInv' /\ CursorBehind'
      /\ BatchGapless(acks.refused)' /\ BatchGapless(0)'
  BY IdleBatch DEF Attach
<1>6. ResendInv'
  BY <1>4, <1>5 DEF ResendInv
<1> QED
  BY <1>1, <1>2, <1>4, <1>5, <1>6 DEF ProtoInv

\* recvLoop: a refusal rewinds the cursor to the last ack.
LEMMA RateLimitedStep == ASSUME TypeOK, ProtoInv, RateLimited PROVE ProtoInv'
<1>0. /\ Settled' = Settled
      /\ UNCHANGED <<rows, nextSeq, ackSeq, purging, connected, up, acks>>
  BY DEF RateLimited, Settled, serverVars
<1>h. /\ UNCHANGED <<InHand, Reached, ToSend>> /\ drain'.batch = drain.batch
      /\ drain'.row = drain.row /\ drain'.pc = drain.pc /\ drain'.stale = TRUE
  BY DEF RateLimited, Rewound, InHand, Reached, ToSend
<1>t. /\ Tail(down) \in Seq(Message) /\ Len(Tail(down)) = Len(down) - 1
      /\ Len(down) \in Nat
      /\ \A i \in 1..Len(Tail(down)) : Tail(down)[i] = down[i + 1]
  BY DEF RateLimited, TypeOK
<1>1. AckInv'
  <2>1. \A i \in 1..Len(down') : down'[i].kind = "ack" => SettledUpTo(down'[i].seq)
    BY <1>t DEF RateLimited, ProtoInv, AckInv
  <2> QED
    BY <1>0, <2>1 DEF ProtoInv, AckInv, SettledUpTo
<1>2. WireInv'
  BY <1>0 DEF ProtoInv, WireInv
<1>3. /\ up' \in Seq(Nat) /\ sendSeq' \in Nat /\ acks'.refused \in Nat
      /\ \A s \in 1..sendSeq' : s \in Settled'
  BY <1>0, FieldTypes DEF RateLimited, TypeOK, ProtoInv, AckInv, SettledUpTo
<1>4. CursorInv' /\ Gapless(up, Settled, 0, sendSeq + 1, {})'
  BY <1>3, SettledBelow DEF CursorInv
<1>5. BatchOrdered' /\ BatchGapless(acks.refused)'
  BY <1>0, <1>h DEF ProtoInv, BatchOrdered, BatchGapless
<1>6. BatchClosed' /\ DrainInv' /\ CursorBehind'
  BY <1>0, <1>3, <1>h DEF ProtoInv, BatchClosed, DrainInv, CursorBehind, SettledUpTo
<1>7. ResendInv'
  BY <1>4, <1>h DEF ResendInv
<1> QED
  BY <1>1, <1>2, <1>4, <1>5, <1>6, <1>7 DEF ProtoInv

\* recvLoop: an ack moves ackSeq only over settled rows.
LEMMA AckedStep == ASSUME TypeOK, ProtoInv, Acked PROVE ProtoInv'
<1>0. /\ Settled' = Settled
      /\ UNCHANGED <<sendSeq, drain, connected, up, acks>>
  BY DEF Acked, Settled, serverVars
<1>h. UNCHANGED <<InHand, Reached, ToSend>>
  BY <1>0 DEF InHand, Reached, ToSend
<1>t. /\ Tail(down) \in Seq(Message) /\ Len(Tail(down)) = Len(down) - 1
      /\ Len(down) \in Nat /\ Len(down) > 0 /\ Head(down) = down[1]
      /\ \A i \in 1..Len(Tail(down)) : Tail(down)[i] = down[i + 1]
      /\ \A k \in 2..Len(down) : k - 1 \in 1..Len(Tail(down)) /\ Tail(down)[k - 1] = down[k]
  <2>1. /\ Tail(down) \in Seq(Message) /\ Len(Tail(down)) = Len(down) - 1
        /\ Len(down) \in Nat /\ Len(down) > 0 /\ Head(down) = down[1]
        /\ \A i \in 1..Len(Tail(down)) : Tail(down)[i] = down[i + 1]
    BY DEF Acked, TypeOK
  <2>2. ASSUME NEW k \in 2..Len(down)
        PROVE  k - 1 \in 1..Len(Tail(down)) /\ Tail(down)[k - 1] = down[k]
    <3>1. k - 1 \in 1..Len(Tail(down)) /\ (k - 1) + 1 = k
      BY <2>1
    <3>2. Tail(down)[k - 1] = down[(k - 1) + 1]
      BY <2>1, <3>1
    <3> QED
      BY <3>1, <3>2
  <2> QED
    BY <2>1, <2>2
<1>1. AckInv'
  <2>1. \A i \in 1..Len(down') : down'[i].kind = "ack" => SettledUpTo(down'[i].seq)
    BY <1>t DEF Acked, ProtoInv, AckInv
  <2>2. SettledUpTo(Head(down).seq)
    BY <1>t DEF Acked, ProtoInv, AckInv
  <2>3. SettledUpTo(ackSeq') /\ SettledUpTo(purging')
    BY <2>2 DEF Acked, ProtoInv, AckInv, SettledUpTo
  <2> QED
    BY <1>0, <2>1, <2>3 DEF ProtoInv, AckInv, SettledUpTo
<1>2. WireInv' /\ CursorInv'
  BY <1>0 DEF ProtoInv, WireInv, CursorInv
<1>3. BatchOrdered' /\ BatchGapless(acks.refused)' /\ (BatchGapless(0) => BatchGapless(0)')
  BY <1>0, <1>h DEF ProtoInv, BatchOrdered, BatchGapless
<1>4. BatchClosed' /\ DrainInv' /\ CursorBehind'
  BY <1>0, <1>h DEF ProtoInv, BatchClosed, DrainInv, CursorBehind, SettledUpTo
<1>5. RateLimitComing => RateLimitComing'
  <2> SUFFICES ASSUME NEW i \in 1..Len(down), down[i].kind = "rate_limited"
               PROVE  RateLimitComing'
    BY DEF RateLimitComing
  <2>1. i \in 2..Len(down)
    BY <1>t DEF Acked
  <2> QED
    BY <1>t, <2>1 DEF RateLimitComing, Acked
<1>6. ResendInv'
  BY <1>0, <1>3, <1>5 DEF ProtoInv, ResendInv
<1> QED
  BY <1>1, <1>2, <1>3, <1>4, <1>6 DEF ProtoInv

---------------------------------------------------------------------------
(* drainOnce. *)

\* The batch just read holds every unsettled row between the cursor and its
\* last row.
LEMMA DrainReadStep == ASSUME TypeOK, NoLoss, ProtoInv, DrainRead PROVE ProtoInv'
<1>0. /\ Settled' = Settled
      /\ UNCHANGED <<ackSeq, sendSeq, purging, connected, up, down, acks>>
  BY DEF DrainRead, Settled, streamVars, serverVars
<1>1. PICK batch \in SUBSET {s \in rows : s > sendSeq} :
        /\ \A s \in batch, t \in {x \in rows : x > sendSeq} \ batch : s < t
        /\ drain' = Drain("check", 0, batch)
  BY DEF DrainRead
<1>2. /\ drain'.pc = "check" /\ drain'.batch = batch /\ drain'.row = 0
      /\ ~InHand' /\ ToSend' = batch
  BY <1>1 DEF Drain, InHand, ToSend
<1>3. ASSUME NEW m \in batch, NEW s \in Nat, s > sendSeq, s < m
      PROVE  s \in Settled \/ s \in batch
  <2>1. s \in 1..(nextSeq - 1)
    BY <1>3 DEF TypeOK
  <2>2. s \in rows \/ s \in Settled
    BY <2>1 DEF NoLoss
  <2>3. s \in rows => s \in batch
    BY <1>1, <1>3 DEF TypeOK
  <2> QED
    BY <2>2, <2>3
<1>t. /\ batch \subseteq Nat /\ \A m \in batch : m > sendSeq
      /\ sendSeq \in Nat /\ up \in Seq(Nat) /\ \A i \in 1..Len(up) : up[i] \in Nat
  BY DEF TypeOK
<1>4. ASSUME NEW m \in batch PROVE Ordered(up, Settled, m, batch)
  <2> SUFFICES ASSUME NEW i \in 1..Len(up), up[i] # 0,
                      NEW s \in (up[i] + 1)..(m - 1), s \notin Settled, s \notin batch
               PROVE  \E k \in (i + 1)..Len(up) : up[k] = s
    BY DEF Ordered
  <2>1. s \in Nat /\ s < m
    BY <1>t
  <2>2. s \in (up[i] + 1)..((sendSeq + 1) - 1)
    BY <2>1, <1>3, <1>t
  <2> QED
    BY <2>2 DEF ProtoInv, CursorInv, Ordered, DrainRead
<1>5. ASSUME NEW m \in batch, NEW r \in Nat, Gapless(up, Settled, r, sendSeq + 1, {})
      PROVE  Gapless(up, Settled, r, m, batch)
  <2> SUFFICES ASSUME r = 0 \/ m <= r,
                      NEW s \in 1..(m - 1), s \notin Settled, s \notin batch
               PROVE  \E k \in 1..Len(up) : up[k] = s
    BY DEF Gapless
  <2>1. s \in Nat /\ s < m /\ (r = 0 \/ sendSeq + 1 <= r)
    BY <1>t
  <2>2. s \in 1..((sendSeq + 1) - 1)
    BY <2>1, <1>3, <1>t
  <2> QED
    BY <1>5, <2>1, <2>2 DEF Gapless
<1>6. BatchOrdered'
  BY <1>0, <1>2, <1>4 DEF BatchOrdered
<1>7. \A r \in Nat : Gapless(up, Settled, r, sendSeq + 1, {}) => BatchGapless(r)'
  BY <1>0, <1>2, <1>5 DEF BatchGapless
<1>8. BatchGapless(acks.refused)'
  BY <1>0, <1>7, FieldTypes DEF ProtoInv, CursorInv, DrainRead
<1>9. BatchClosed'
  <2> SUFFICES ASSUME NEW m \in batch, NEW n \in batch, NEW s \in (n + 1)..(m - 1)
               PROVE  s \in Settled \/ s \in batch
    BY <1>0, <1>2 DEF BatchClosed
  <2>1. s \in Nat /\ s > sendSeq /\ s < m
    BY <1>t
  <2> QED
    BY <2>1, <1>3
<1>10. DrainInv' /\ CursorBehind'
  BY <1>0, <1>2, <1>t DEF DrainInv, CursorBehind, DrainRead
<1>11. ResendInv'
  BY <1>0, <1>7 DEF ProtoInv, ResendInv, RateLimitComing
<1>12. AckInv' /\ WireInv' /\ CursorInv'
  BY <1>0 DEF ProtoInv, AckInv, SettledUpTo, WireInv, CursorInv
<1> QED
  BY <1>6, <1>8, <1>9, <1>10, <1>11, <1>12 DEF ProtoInv

\* The drain gives its batch up: a rewind happened, or the batch is done.
LEMMA LeaveBatch ==
    ASSUME TypeOK, ProtoInv, drain' = Idle, Settled' = Settled,
           UNCHANGED <<ackSeq, sendSeq, purging, connected, up, down, acks>>
    PROVE  ProtoInv'
<1>1. /\ BatchOrdered' /\ BatchClosed' /\ DrainInv' /\ CursorBehind'
      /\ BatchGapless(acks.refused)' /\ BatchGapless(0)'
  BY IdleBatch
<1>2. AckInv' /\ WireInv' /\ CursorInv'
  BY DEF ProtoInv, AckInv, SettledUpTo, WireInv, CursorInv
<1>3. ResendInv'
  BY <1>1 DEF ProtoInv, ResendInv, RateLimitComing
<1> QED
  BY <1>1, <1>2, <1>3 DEF ProtoInv

\* The drain moves its cursor to n and goes on with the rest of its batch.
LEMMA ContinueBatch ==
    ASSUME TypeOK, ProtoInv, Settled' = Settled,
           UNCHANGED <<ackSeq, purging, connected, up, down, acks>>,
           connected, drain.stale = FALSE,
           NEW n \in Nat, NEW rest \in SUBSET drain.batch,
           sendSeq' = n, drain' = Continue(rest),
           Ordered(up, Settled, n + 1, {}),
           \A r \in Nat : BatchGapless(r) => Gapless(up, Settled, r, n + 1, {}),
           \A m \in rest : Ordered(up, Settled, m, rest),
           \A r \in Nat : BatchGapless(r) =>
                \A m \in rest : Gapless(up, Settled, r, m, rest),
           \A m, k \in rest : \A s \in (k + 1)..(m - 1) : s \in Settled \/ s \in rest,
           \A k \in rest : n < k
    PROVE  ProtoInv'
<1>1. /\ drain'.batch = rest /\ ~InHand' /\ ToSend' = rest
      /\ drain'.pc = "idle" => rest = {}
      /\ drain'.pc \in {"idle", "check"}
  BY DEF Continue, Idle, Drain, InHand, ToSend
<1>2. BatchOrdered' /\ BatchClosed' /\ DrainInv' /\ CursorBehind'
  BY <1>1 DEF BatchOrdered, BatchClosed, DrainInv, CursorBehind
<1>3. \A r \in Nat : BatchGapless(r) => BatchGapless(r)'
  BY <1>1 DEF BatchGapless
<1>4. BatchGapless(acks.refused)' /\ (BatchGapless(0) => BatchGapless(0)')
  BY <1>3, FieldTypes DEF ProtoInv
<1>5. CursorInv'
  BY FieldTypes DEF ProtoInv, CursorInv
<1>6. AckInv' /\ WireInv'
  BY DEF ProtoInv, AckInv, SettledUpTo, WireInv
<1>7. ResendInv'
  BY <1>4 DEF ProtoInv, ResendInv, RateLimitComing
<1> QED
  BY <1>2, <1>4, <1>5, <1>6, <1>7 DEF ProtoInv

\* The lowest row of a batch: everything below it is settled or on the wire.
LEMMA LowestRow ==
    ASSUME TypeOK, NEW St, NEW B \in SUBSET Nat, NEW m \in B, \A s \in B : m <= s,
           NEW r \in Nat
    PROVE  /\ Ordered(up, St, m, B) => Ordered(up, St, m, {})
           /\ Gapless(up, St, r, m, B) => Gapless(up, St, r, m, {})
           /\ m \in St /\ Ordered(up, St, m, B) => Ordered(up, St, m + 1, {})
           /\ m \in St /\ Gapless(up, St, r, m, B) => Gapless(up, St, r, m + 1, {})
<1>1. \A i \in 1..Len(up) : up[i] \in Nat
  BY DEF TypeOK
<1>2. Ordered(up, St, m, B) => Ordered(up, St, m, {})
  BY <1>1 DEF Ordered
<1>3. Gapless(up, St, r, m, B) => Gapless(up, St, r, m, {})
  BY DEF Gapless
<1>4. m \in St /\ Ordered(up, St, m, {}) => Ordered(up, St, m + 1, {})
  <2> SUFFICES ASSUME m \in St, Ordered(up, St, m, {}),
                      NEW i \in 1..Len(up), up[i] # 0,
                      NEW s \in (up[i] + 1)..((m + 1) - 1), s \notin St
               PROVE  \E k \in (i + 1)..Len(up) : up[k] = s
    BY DEF Ordered
  <2>1. s # m
    OBVIOUS
  <2>2. s \in (up[i] + 1)..(m - 1)
    BY <2>1, <1>1
  <2> QED
    BY <2>2 DEF Ordered
<1>5. m \in St /\ Gapless(up, St, r, m, {}) => Gapless(up, St, r, m + 1, {})
  <2> SUFFICES ASSUME m \in St, Gapless(up, St, r, m, {}), r = 0 \/ m + 1 <= r,
                      NEW s \in 1..((m + 1) - 1), s \notin St
               PROVE  \E k \in 1..Len(up) : up[k] = s
    BY DEF Gapless
  <2>1. s # m
    OBVIOUS
  <2>2. s \in 1..(m - 1) /\ (r = 0 \/ m <= r)
    BY <2>1
  <2> QED
    BY <2>2 DEF Gapless
<1> QED
  BY <1>2, <1>3, <1>4, <1>5

\* drainOnce looks at the next row: an unreadable one is settled by passing
\* it, a readable one is taken in hand.
LEMMA DrainCheckStep == ASSUME TypeOK, ProtoInv, DrainCheck PROVE ProtoInv'
<1>0. /\ Settled' = Settled
      /\ UNCHANGED <<ackSeq, purging, connected, up, down, acks>>
  BY DEF DrainCheck, Settled, streamVars, serverVars
<1>1. PICK m \in drain.batch :
        /\ \A s \in drain.batch : m <= s
        /\ \/ m \in Unreadable /\ Advance(m, drain.batch \ {m})
           \/ /\ drain' = IF drain.stale THEN Idle ELSE Drain("send", m, drain.batch \ {m})
              /\ UNCHANGED sendSeq
  BY DEF DrainCheck
<1> DEFINE B == drain.batch
           rest == drain.batch \ {m}
<1>t. /\ B \in SUBSET Nat /\ rest \in SUBSET B /\ m \in Nat /\ m # 0
      /\ up \in Seq(Nat) /\ connected /\ acks.refused \in Nat
  BY FieldTypes DEF TypeOK, DrainCheck, ProtoInv, DrainInv
<1>h. ~InHand /\ ToSend = B
  BY DEF DrainCheck, InHand, ToSend
<1>2. \A k \in B : Ordered(up, Settled, k, B)
  BY <1>h DEF ProtoInv, BatchOrdered
<1>3. ASSUME NEW r \in Nat, BatchGapless(r), NEW k \in B
      PROVE  Gapless(up, Settled, r, k, B)
  BY <1>3, <1>h DEF BatchGapless
<1>4. \A k, n \in B : \A s \in (n + 1)..(k - 1) : s \in Settled \/ s \in B
  BY DEF ProtoInv, BatchClosed
<1>5. \A k, n \in rest : \A s \in (n + 1)..(k - 1) : s \in Settled \/ s \in rest
  BY <1>1, <1>4, <1>t
<1>6. CASE drain' = Idle /\ UNCHANGED sendSeq
  BY <1>0, <1>6, LeaveBatch
<1>7. CASE m \in Unreadable /\ drain.stale = FALSE /\ sendSeq' = m /\ drain' = Continue(rest)
  <2>1. m \in Settled
    BY <1>7 DEF Settled
  <2>2. Ordered(up, Settled, m + 1, {})
    BY <1>1, <1>2, <1>t, <2>1, LowestRow
  <2>3. \A r \in Nat : BatchGapless(r) => Gapless(up, Settled, r, m + 1, {})
    BY <1>1, <1>3, <1>t, <2>1, LowestRow
  <2>4. B \subseteq rest \cup Settled
    BY <2>1
  <2>a. ASSUME NEW k \in rest, NEW r \in Nat
        PROVE  /\ Ordered(up, Settled, k, B) => Ordered(up, Settled, k, rest)
               /\ Gapless(up, Settled, r, k, B) => Gapless(up, Settled, r, k, rest)
    <3>1. k \in Nat /\ Settled \subseteq Settled
      BY <1>t
    <3> HIDE DEF B, rest
    <3> QED
      BY <3>1, <1>t, <2>4, Grow
  <2>5. \A k \in rest : Ordered(up, Settled, k, rest)
    BY <1>2, <1>t, <2>a
  <2>6. \A r \in Nat : BatchGapless(r) => \A k \in rest : Gapless(up, Settled, r, k, rest)
    BY <1>3, <1>t, <2>a
  <2>7. \A k \in rest : m < k
    BY <1>1, <1>t
  <2> HIDE DEF rest
  <2> QED
    BY <1>0, <1>t, <1>5, <1>7, <2>2, <2>3, <2>5, <2>6, <2>7, ContinueBatch
<1>8. CASE drain' = Drain("send", m, rest) /\ UNCHANGED sendSeq /\ drain.stale = FALSE
  <2>1. /\ drain'.pc = "send" /\ drain'.row = m /\ drain'.batch = rest
        /\ InHand' /\ Reached' = m /\ ToSend' = B
    BY <1>8 DEF Drain, InHand, Reached, ToSend
  <2>2. Ordered(up, Settled, m, {})
    BY <1>1, <1>2, <1>t, LowestRow
  <2>3. \A r \in Nat : BatchGapless(r) => Gapless(up, Settled, r, m, {})
    BY <1>1, <1>3, <1>t, LowestRow
  <2>4. BatchOrdered'
    BY <1>0, <1>2, <2>1, <2>2 DEF BatchOrdered
  <2>5. \A r \in Nat : BatchGapless(r) => BatchGapless(r)'
    BY <1>0, <1>3, <2>1, <2>3 DEF BatchGapless
  <2>6. BatchGapless(acks.refused)' /\ (BatchGapless(0) => BatchGapless(0)')
    BY <1>0, <1>t, <2>5 DEF ProtoInv
  <2>7. BatchClosed'
    <3> SUFFICES ASSUME NEW k \in rest, NEW n \in B, NEW s \in (n + 1)..(k - 1)
                 PROVE  s \in Settled \/ s \in rest
      BY <1>0, <2>1 DEF BatchClosed
    <3>1. s # m
      BY <1>1, <1>t
    <3> QED
      BY <3>1, <1>4
  <2>8. DrainInv' /\ CursorBehind'
    <3>1. \A k \in rest : m < k
      BY <1>1, <1>t
    <3> QED
      BY <1>0, <1>t, <1>8, <2>1, <3>1 DEF ProtoInv, DrainInv, CursorBehind, SettledUpTo
  <2>9. AckInv' /\ WireInv' /\ CursorInv'
    BY <1>0, <1>8 DEF ProtoInv, AckInv, SettledUpTo, WireInv, CursorInv
  <2>10. ResendInv'
    BY <1>0, <1>8, <2>6 DEF ProtoInv, ResendInv, RateLimitComing
  <2> QED
    BY <2>4, <2>6, <2>7, <2>8, <2>9, <2>10 DEF ProtoInv
<1> QED
  BY <1>1, <1>6, <1>7, <1>8, FieldTypes DEF Advance

\* sink.Send puts the row in hand on the wire.
LEMMA DrainSendStep == ASSUME TypeOK, ProtoInv, DrainSend PROVE ProtoInv'
<1> DEFINE B == drain.batch
           m == drain.row
           St == Settled
           R == acks.refused
<1>0. /\ Settled' = St /\ up' = Append(up, m)
      /\ UNCHANGED <<ackSeq, sendSeq, purging, connected, down, acks>>
      /\ drain.pc = "send"
  BY DEF DrainSend, Settled, serverVars
<1>1. /\ drain'.pc = "advance" /\ drain'.row = m /\ drain'.batch = B
      /\ drain'.stale = drain.stale
      /\ InHand' /\ Reached' = m + 1 /\ ToSend' = B
  BY DEF DrainSend, InHand, Reached, ToSend
<1>2. InHand /\ Reached = m /\ ToSend = B \cup {m}
  BY <1>0 DEF InHand, Reached, ToSend
<1>t. /\ up \in Seq(Nat) /\ m \in Nat /\ m # 0 /\ B \subseteq Nat /\ R \in Nat
      /\ sendSeq + 1 \in Nat
  BY <1>2, FieldTypes DEF TypeOK, ProtoInv, DrainInv
<1>3. /\ OrderedWire(up, St) /\ GaplessWire(up, St, R)
      /\ Ordered(up, St, m, {}) /\ Gapless(up, St, R, m, {})
      /\ \A k \in B : Ordered(up, St, k, B \cup {m}) /\ Gapless(up, St, R, k, B \cup {m})
      /\ \A k \in B : \A s \in (m + 1)..(k - 1) : s \in St \/ s \in B
      /\ connected
  BY <1>0, <1>2 DEF ProtoInv, WireInv, BatchOrdered, BatchGapless, BatchClosed, DrainInv
<1>c. Ordered(up, St, sendSeq + 1, {}) /\ Gapless(up, St, R, sendSeq + 1, {})
  BY <1>3 DEF ProtoInv, CursorInv
<1>4. \A r \in Nat : BatchGapless(r) =>
         /\ Gapless(up, St, r, m, {})
         /\ \A k \in B : Gapless(up, St, r, k, B \cup {m})
  BY <1>2 DEF BatchGapless
<1>5. AckInv'
  BY <1>0 DEF ProtoInv, AckInv, SettledUpTo
<1>x. connected' /\ acks' = acks /\ drain'.stale = drain.stale
  BY <1>0, <1>1, <1>3
<1> HIDE DEF B, m, St, R
<1>6. OrderedWire(Append(up, m), St) /\ GaplessWire(Append(up, m), St, R)
  BY <1>3, <1>t, AppendRow
<1>7. /\ Ordered(Append(up, m), St, m + 1, {})
      /\ \A k \in B : Ordered(Append(up, m), St, k, B)
  <2>1. Ordered(Append(up, m), St, m + 1, {})
    BY <1>3, <1>t, AppendRow
  <2>2. ASSUME NEW k \in B PROVE Ordered(Append(up, m), St, k, B)
    BY <1>3, <1>t, AppendRow
  <2> QED
    BY <2>1, <2>2
<1>8. ASSUME NEW r \in Nat, Gapless(up, St, r, m, {}),
             \A k \in B : Gapless(up, St, r, k, B \cup {m})
      PROVE  /\ Gapless(Append(up, m), St, r, m + 1, {})
             /\ \A k \in B : Gapless(Append(up, m), St, r, k, B)
  BY <1>8, <1>t, AppendRow
<1>9. /\ Ordered(up, St, sendSeq + 1, {}) => Ordered(Append(up, m), St, sendSeq + 1, {})
      /\ \A r \in Nat : Gapless(up, St, r, sendSeq + 1, {})
                           => Gapless(Append(up, m), St, r, sendSeq + 1, {})
  <2>1. ASSUME NEW s \in (m + 1)..((sendSeq + 1) - 1) PROVE s \in St
    <3>1. SettledUpTo(sendSeq) \/ sendSeq < m
      BY <1>2 DEF ProtoInv, CursorBehind, m
    <3>2. sendSeq \in Nat
      BY DEF TypeOK
    <3> QED
      BY <1>t, <3>1, <3>2 DEF SettledUpTo, St
  <2>2. Ordered(up, St, sendSeq + 1, {}) => Ordered(up, St, sendSeq + 1, {} \cup {m})
    BY DEF Ordered
  <2>3. ASSUME NEW r \in Nat, Gapless(up, St, r, sendSeq + 1, {})
        PROVE  Gapless(up, St, r, sendSeq + 1, {} \cup {m})
    BY <2>3 DEF Gapless
  <2> QED
    BY <1>t, <2>1, <2>2, <2>3, AppendRow
<1> USE DEF B, m, St, R
<1>10. WireInv'
  BY <1>0, <1>6 DEF WireInv
<1>11. CursorInv'
  BY <1>0, <1>9, <1>c, <1>t DEF CursorInv
<1>12. BatchOrdered'
  BY <1>0, <1>1, <1>7 DEF BatchOrdered
<1>13. \A r \in Nat : BatchGapless(r) => BatchGapless(r)'
  BY <1>0, <1>1, <1>4, <1>8 DEF BatchGapless
<1>14. BatchGapless(acks.refused)' /\ (BatchGapless(0) => BatchGapless(0)')
  BY <1>0, <1>t, <1>13 DEF ProtoInv
<1>15. BatchClosed'
  BY <1>0, <1>1, <1>2 DEF ProtoInv, BatchClosed
<1>16. DrainInv' /\ CursorBehind'
  BY <1>0, <1>1, <1>2, <1>3, <1>t DEF ProtoInv, DrainInv, CursorBehind, SettledUpTo
<1>17. ResendInv'
  BY <1>0, <1>9, <1>14, <1>x DEF ProtoInv, ResendInv, RateLimitComing
<1> QED
  BY <1>5, <1>10, <1>11, <1>12, <1>14, <1>15, <1>16, <1>17 DEF ProtoInv

\* advance moves the cursor to the row just sent, unless a rewind happened.
LEMMA DrainAdvanceStep == ASSUME TypeOK, ProtoInv, DrainAdvance PROVE ProtoInv'
<1>0. /\ Settled' = Settled /\ drain.pc = "advance"
      /\ UNCHANGED <<ackSeq, purging, connected, up, down, acks>>
  BY DEF DrainAdvance, Settled, streamVars, serverVars
<1>1. InHand /\ Reached = drain.row + 1 /\ ToSend = drain.batch
  BY <1>0 DEF InHand, Reached, ToSend
<1>2. CASE drain' = Idle /\ UNCHANGED sendSeq
  BY <1>0, <1>2, LeaveBatch
<1>3. CASE drain.stale = FALSE /\ sendSeq' = drain.row /\ drain' = Continue(drain.batch)
  <2>1. /\ connected /\ drain.row \in Nat /\ drain.batch \in SUBSET drain.batch
        /\ \A k \in drain.batch : drain.row < k
    BY <1>0, <1>1, FieldTypes DEF ProtoInv, DrainInv, CursorBehind
  <2>2. /\ Ordered(up, Settled, drain.row + 1, {})
        /\ \A k \in drain.batch : Ordered(up, Settled, k, drain.batch)
        /\ \A k, n \in drain.batch : \A s \in (n + 1)..(k - 1) :
              s \in Settled \/ s \in drain.batch
    BY <1>1 DEF ProtoInv, BatchOrdered, BatchClosed
  <2>3. \A r \in Nat : BatchGapless(r) =>
           /\ Gapless(up, Settled, r, drain.row + 1, {})
           /\ \A k \in drain.batch : Gapless(up, Settled, r, k, drain.batch)
    BY <1>1 DEF BatchGapless
  <2> QED
    BY <1>0, <1>3, <2>1, <2>2, <2>3, ContinueBatch
<1> QED
  BY <1>2, <1>3, FieldTypes DEF DrainAdvance, Advance

\* A snapshot carries no sequence, so it says nothing about any row.
LEMMA AppendZero ==
    ASSUME NEW u \in Seq(Nat), NEW St, NEW c \in Nat, NEW S, NEW r \in Nat
    PROVE  /\ OrderedWire(u, St) => OrderedWire(Append(u, 0), St)
           /\ GaplessWire(u, St, r) => GaplessWire(Append(u, 0), St, r)
           /\ Ordered(u, St, c, S) => Ordered(Append(u, 0), St, c, S)
           /\ Gapless(u, St, r, c, S) => Gapless(Append(u, 0), St, r, c, S)
<1>1. Ordered(u, St, 0, {}) /\ Gapless(u, St, r, 0, {})
  <2>1. \A i \in 1..Len(u) : u[i] \in Nat
    OBVIOUS
  <2> QED
    BY <2>1 DEF Ordered, Gapless
<1>2. /\ Ordered(u, St, c, S) => Ordered(u, St, c, S \cup {0})
      /\ Gapless(u, St, r, c, S) => Gapless(u, St, r, c, S \cup {0})
  BY DEF Ordered, Gapless
<1> QED
  BY <1>1, <1>2, AppendRow

\* Sending a snapshot keeps the invariant.
LEMMA SendSnapshotStep == ASSUME TypeOK, ProtoInv, SendSnapshot PROVE ProtoInv'
<1> DEFINE St == Settled
<1>0. /\ Settled' = St /\ up' = Append(up, 0) /\ connected
      /\ UNCHANGED <<ackSeq, sendSeq, drain, purging, connected, down, acks>>
  BY DEF SendSnapshot, Settled, agentVars, serverVars
<1>h. UNCHANGED <<InHand, Reached, ToSend>>
  BY <1>0 DEF InHand, Reached, ToSend
<1>t. up \in Seq(Nat) /\ {} \subseteq Nat
  BY DEF TypeOK
<1>1. AckInv'
  BY <1>0 DEF ProtoInv, AckInv, SettledUpTo
<1>2. WireInv'
  BY <1>0, <1>t, FieldTypes, AppendZero DEF ProtoInv, WireInv
<1>3. CursorInv'
  BY <1>0, <1>t, FieldTypes, AppendZero DEF ProtoInv, CursorInv
<1>4. BatchOrdered'
  BY <1>0, <1>h, <1>t, FieldTypes, AppendZero DEF ProtoInv, BatchOrdered
<1>5. \A r \in Nat : BatchGapless(r) => BatchGapless(r)'
  BY <1>0, <1>h, <1>t, FieldTypes, AppendZero DEF BatchGapless
<1>6. BatchGapless(acks.refused)' /\ (BatchGapless(0) => BatchGapless(0)')
  BY <1>0, <1>5, FieldTypes DEF ProtoInv
<1>7. BatchClosed' /\ DrainInv' /\ CursorBehind'
  BY <1>0, <1>h DEF ProtoInv, BatchClosed, DrainInv, CursorBehind, SettledUpTo
<1>8. Gapless(up, Settled, 0, sendSeq + 1, {}) => Gapless(up, Settled, 0, sendSeq + 1, {})'
  BY <1>0, <1>t, FieldTypes, AppendZero
<1>9. ResendInv'
  BY <1>0, <1>6, <1>8 DEF ProtoInv, ResendInv, RateLimitComing
<1> QED
  BY <1>1, <1>2, <1>3, <1>4, <1>6, <1>7, <1>9 DEF ProtoInv

---------------------------------------------------------------------------
(* The push session. *)

\* A message to the agent goes behind the others.
LEMMA DownFacts ==
    ASSUME TypeOK, NEW x \in Message
    PROVE  /\ Len(Append(down, x)) = Len(down) + 1 /\ Len(down) \in Nat
           /\ Append(down, x)[Len(down) + 1] = x
           /\ \A i \in 1..Len(down) : Append(down, x)[i] = down[i]
BY DEF TypeOK

\* What is on its way to the agent stays on its way.
LEMMA DownAppend ==
    ASSUME TypeOK, NEW x \in Message, down' = Append(down, x),
           Settled \subseteq Settled',
           \A i \in 1..Len(down) : down[i].kind = "ack" => SettledUpTo(down[i].seq),
           x.kind = "ack" => \A s \in 1..x.seq : s \in Settled'
    PROVE  /\ (\A i \in 1..Len(down) : down[i].kind = "ack" => SettledUpTo(down[i].seq))'
           /\ RateLimitComing => RateLimitComing'
           /\ x.kind = "rate_limited" => RateLimitComing'
BY DownFacts DEF SettledUpTo, RateLimitComing

\* The ticker acknowledges the highest sequence the tracker may claim.
LEMMA AckTickStep == ASSUME TypeOK, ProtoInv, AckTick PROVE ProtoInv'
<1>0. /\ Settled' = Settled /\ acks' = sent(acks, acks.highest)
      /\ down' = Append(down, Ack(acks.highest))
      /\ UNCHANGED <<ackSeq, sendSeq, drain, purging, connected, up>>
  BY DEF AckTick, Settled, agentVars
<1>1. acks'.highest = acks.highest /\ acks'.refused = acks.refused
  BY <1>0 DEF sent
<1>2. Ack(acks.highest) \in Message /\ Ack(acks.highest).seq = acks.highest
  BY FieldTypes, MessageType DEF Ack
<1>3. SettledUpTo(acks.highest) /\ SettledUpTo(acks.highest)'
  BY <1>0, <1>1 DEF ProtoInv, AckInv, SettledUpTo
<1>4. /\ (\A i \in 1..Len(down) : down[i].kind = "ack" => SettledUpTo(down[i].seq))'
      /\ RateLimitComing => RateLimitComing'
  <2>1. \A s \in 1..Ack(acks.highest).seq : s \in Settled'
    BY <1>0, <1>2, <1>3 DEF SettledUpTo
  <2>2. Settled \subseteq Settled'
    BY <1>0
  <2>3. \A i \in 1..Len(down) : down[i].kind = "ack" => SettledUpTo(down[i].seq)
    BY DEF ProtoInv, AckInv
  <2> QED
    BY <1>0, <1>2, <2>1, <2>2, <2>3, DownAppend
<1>5. AckInv'
  BY <1>0, <1>3, <1>4 DEF ProtoInv, AckInv, SettledUpTo
<1>h. UNCHANGED <<InHand, Reached, ToSend>>
  BY <1>0 DEF InHand, Reached, ToSend
<1>6. WireInv' /\ CursorInv'
  BY <1>0, <1>1 DEF ProtoInv, WireInv, CursorInv
<1>7. BatchOrdered' /\ BatchGapless(acks.refused)' /\ (BatchGapless(0) => BatchGapless(0)')
  BY <1>0, <1>1, <1>h DEF ProtoInv, BatchOrdered, BatchGapless
<1>8. BatchClosed' /\ DrainInv' /\ CursorBehind'
  BY <1>0, <1>h DEF ProtoInv, BatchClosed, DrainInv, CursorBehind, SettledUpTo
<1>9. ResendInv'
  BY <1>0, <1>4, <1>7 DEF ProtoInv, ResendInv
<1> QED
  BY <1>5, <1>6, <1>7, <1>8, <1>9 DEF ProtoInv

\* A refused event leaves the wire and a rate_limited error takes its place.
LEMMA RefuseEventStep == ASSUME TypeOK, ProtoInv, RefuseEvent PROVE ProtoInv'
<1> DEFINE m == Head(up)
           R == acks.refused
           R2 == refuse(acks, m).refused
<1>0. /\ Settled' = Settled /\ acks' = refuse(acks, m) /\ up' = Tail(up)
      /\ down' = Append(down, RateLimit) /\ up # <<>>
      /\ UNCHANGED <<ackSeq, sendSeq, drain, purging, connected>>
  BY DEF RefuseEvent, Settled, agentVars
<1>t. /\ up \in Seq(Nat) /\ m = up[1] /\ m \in Nat /\ R \in Nat /\ R2 \in Nat
  <2>1. up \in Seq(Nat) /\ acks \in Tracker
    BY DEF TypeOK
  <2>2. m = up[1] /\ m \in Nat
    BY <1>0, <2>1, TailFacts
  <2>3. refuse(acks, m) \in Tracker
    BY <2>1, <2>2, TrackerType
  <2> QED
    BY <2>1, <2>2, <2>3 DEF Tracker
<1>1. /\ acks'.refused = R2 /\ acks'.highest = acks.highest
      /\ R2 = 0 => R = 0 /\ up[1] = 0
      /\ R # 0 => R2 <= R
      /\ up[1] # 0 => R2 <= up[1]
  BY <1>0, <1>t DEF refuse
<1>2. /\ (\A i \in 1..Len(down) : down[i].kind = "ack" => SettledUpTo(down[i].seq))'
      /\ RateLimitComing'
  <2>1. RateLimit \in Message /\ RateLimit.kind = "rate_limited"
    BY MessageType DEF RateLimit
  <2>2. Settled \subseteq Settled'
    BY <1>0
  <2>3. \A i \in 1..Len(down) : down[i].kind = "ack" => SettledUpTo(down[i].seq)
    BY DEF ProtoInv, AckInv
  <2> QED
    BY <1>0, <2>1, <2>2, <2>3, DownAppend
<1>3. AckInv'
  BY <1>0, <1>1, <1>2 DEF ProtoInv, AckInv, SettledUpTo
<1>h. UNCHANGED <<InHand, Reached, ToSend>>
  BY <1>0 DEF InHand, Reached, ToSend
<1>4. BatchClosed' /\ DrainInv' /\ CursorBehind'
  BY <1>0, <1>h DEF ProtoInv, BatchClosed, DrainInv, CursorBehind, SettledUpTo
<1>5. ResendInv'
  BY <1>2 DEF ResendInv
<1>6. OrderedWire(Tail(up), Settled) /\ GaplessWire(Tail(up), Settled, R2)
  <2>1. OrderedWire(up, Settled) /\ GaplessWire(up, Settled, R)
    BY DEF ProtoInv, WireInv
  <2> HIDE DEF R, R2
  <2> QED
    BY <1>0, <1>1, <1>t, <2>1, TailOrdered, TailRefused
<1>7. ASSUME NEW c \in Nat, NEW S
      PROVE  /\ Ordered(up, Settled, c, S) => Ordered(Tail(up), Settled, c, S)
             /\ Gapless(up, Settled, R, c, S) => Gapless(Tail(up), Settled, R2, c, S)
  <2> HIDE DEF R, R2
  <2> QED
    BY <1>0, <1>1, <1>t, TailOrdered, TailRefused
<1>8. WireInv'
  BY <1>0, <1>1, <1>6 DEF WireInv
<1> HIDE DEF R2
<1>9. CursorInv'
  BY <1>0, <1>1, <1>7, FieldTypes DEF ProtoInv, CursorInv
<1>10. BatchOrdered'
  BY <1>0, <1>h, <1>7, FieldTypes DEF ProtoInv, BatchOrdered
<1>11. BatchGapless(acks.refused)'
  BY <1>0, <1>1, <1>h, <1>7, FieldTypes DEF ProtoInv, BatchGapless
<1> QED
  BY <1>3, <1>4, <1>5, <1>8, <1>9, <1>10, <1>11 DEF ProtoInv

\* An accepted event is settled; the tracker may claim it only when
\* everything below it is.
LEMMA HandleEventStep == ASSUME TypeOK, ProtoInv, HandleEvent PROVE ProtoInv'
<1> DEFINE m == Head(up)
           a == accept(acks, m)
           R == acks.refused
           R2 == a.refused
           St2 == Settled'
<1>0. /\ up' = Tail(up) /\ up # <<>>
      /\ accepted' = accepted \cup ({m} \ {0}) /\ gone' = gone
      /\ UNCHANGED <<ackSeq, sendSeq, drain, purging, connected>>
      /\ \/ acks' = a /\ down' = down
         \/ acks' = sent(a, a.highest) /\ down' = Append(down, Ack(a.highest))
  BY DEF HandleEvent, Take, agentVars
<1>s. Settled \subseteq Settled' /\ (m # 0 => m \in Settled')
  BY <1>0 DEF Settled
<1>t. /\ up \in Seq(Nat) /\ m = up[1] /\ m \in Nat /\ R \in Nat /\ R2 \in Nat
      /\ a.highest \in Nat /\ acks.highest \in Nat
      /\ 1 \in 1..Len(up)
  <2>1. up \in Seq(Nat) /\ acks \in Tracker
    BY DEF TypeOK
  <2>2. m = up[1] /\ m \in Nat /\ 1 \in 1..Len(up)
    BY <1>0, <2>1, TailFacts
  <2>3. a \in Tracker
    BY <2>1, <2>2, TrackerType
  <2> QED
    BY <2>1, <2>2, <2>3 DEF Tracker
<1>1. /\ acks'.refused = R2 /\ acks'.highest = a.highest
  BY <1>0 DEF sent
<1>2. R2 = R \/ (m # 0 /\ m <= R)
  BY <1>t DEF accept
<1>3. a.highest = acks.highest \/ (a.highest = m /\ m # 0 /\ (R = 0 \/ m <= R))
  BY <1>t DEF accept
<1>4. \A s \in 1..a.highest : s \in Settled'
  <2>1. CASE a.highest = acks.highest
    BY <2>1, <1>s DEF ProtoInv, AckInv, SettledUpTo
  <2>2. CASE a.highest = m /\ m # 0 /\ (R = 0 \/ m <= R)
    <3>1. \A s \in 1..(up[1] - 1) : s \in Settled \/ \E k \in 1..(1 - 1) : up[k] = s
      BY <2>2, <1>t DEF ProtoInv, WireInv, GaplessWire
    <3>2. \A s \in 1..(m - 1) : s \in Settled
      BY <3>1, <1>t
    <3> QED
      BY <2>2, <3>2, <1>s, <1>t
  <2> QED
    BY <1>3, <2>1, <2>2
<1>5. /\ (\A i \in 1..Len(down) : down[i].kind = "ack" => SettledUpTo(down[i].seq))'
      /\ RateLimitComing => RateLimitComing'
  <2>0. \A i \in 1..Len(down) : down[i].kind = "ack" => SettledUpTo(down[i].seq)
    BY DEF ProtoInv, AckInv
  <2>1. CASE down' = down
    BY <2>0, <2>1, <1>s DEF SettledUpTo, RateLimitComing
  <2>2. CASE down' = Append(down, Ack(a.highest))
    <3>1. Ack(a.highest) \in Message /\ Ack(a.highest).seq = a.highest
      BY <1>t, MessageType DEF Ack
    <3>2. \A s \in 1..Ack(a.highest).seq : s \in Settled'
      BY <3>1, <1>4
    <3> HIDE DEF a
    <3> QED
      BY <2>0, <2>2, <3>1, <3>2, <1>s, DownAppend
  <2> QED
    BY <1>0, <2>1, <2>2
<1>6. AckInv'
  <2>1. SettledUpTo(acks.highest)'
    BY <1>1, <1>4 DEF SettledUpTo
  <2>2. SettledUpTo(ackSeq)' /\ SettledUpTo(purging)'
    BY <1>0, <1>s DEF ProtoInv, AckInv, SettledUpTo
  <2> QED
    BY <1>5, <2>1, <2>2 DEF AckInv
<1>h. UNCHANGED <<InHand, Reached, ToSend>>
  BY <1>0 DEF InHand, Reached, ToSend
<1>7. BatchClosed' /\ DrainInv' /\ CursorBehind'
  BY <1>0, <1>h, <1>s DEF ProtoInv, BatchClosed, DrainInv, CursorBehind, SettledUpTo
<1>8. OrderedWire(up, Settled) /\ GaplessWire(up, Settled, R)
  BY DEF ProtoInv, WireInv
<1> HIDE DEF m, a, R, R2, St2
<1>9. OrderedWire(Tail(up), St2) /\ GaplessWire(Tail(up), St2, R2)
  <2>1. OrderedWire(Tail(up), Settled)
    BY <1>0, <1>t, <1>8, TailOrdered
  <2>2. Tail(up) \in Seq(Nat)
    BY <1>0, <1>t
  <2>3. OrderedWire(Tail(up), St2)
    BY <2>1, <2>2, <1>s, Grow DEF St2
  <2>4. GaplessWire(Tail(up), St2, R2)
    BY <1>0, <1>t, <1>s, <1>2, <1>8, TailAccepted DEF St2
  <2> QED
    BY <2>3, <2>4
<1>10. ASSUME NEW c \in Nat, NEW S, Ordered(up, Settled, c, S)
       PROVE  /\ Ordered(Tail(up), St2, c, S)
              /\ Gapless(up, Settled, R, c, S) => Gapless(Tail(up), St2, R2, c, S)
  <2>1. Ordered(Tail(up), Settled, c, S)
    BY <1>0, <1>t, <1>10, TailOrdered
  <2>2. Tail(up) \in Seq(Nat) /\ S \subseteq S \cup St2
    BY <1>0, <1>t
  <2>3. Ordered(Tail(up), St2, c, S)
    BY <2>1, <2>2, <1>s, Grow DEF St2
  <2>4. Gapless(up, Settled, R, c, S) => Gapless(Tail(up), St2, R2, c, S)
    BY <1>0, <1>t, <1>s, <1>2, <1>8, <1>10, TailAccepted DEF St2
  <2> QED
    BY <2>3, <2>4
<1>11. ASSUME NEW c \in Nat, NEW S, Gapless(up, Settled, 0, c, S)
       PROVE  Gapless(Tail(up), St2, 0, c, S)
  <2> SUFFICES ASSUME NEW s \in 1..(c - 1), s \notin St2, s \notin S
               PROVE  \E k \in 1..Len(Tail(up)) : Tail(up)[k] = s
    BY DEF Gapless
  <2>1. PICK k \in 1..Len(up) : up[k] = s
    BY <1>11, <1>s DEF Gapless, St2
  <2>2. s # 0 /\ s # m
    BY <1>s DEF St2
  <2>3. k \in 2..Len(up)
    BY <1>t, <2>1, <2>2
  <2> QED
    BY <1>0, <1>t, <2>1, <2>3, TailFacts
<1>12. WireInv'
  BY <1>0, <1>1, <1>9 DEF WireInv, St2
<1>13. CursorInv'
  BY <1>0, <1>1, <1>10, FieldTypes DEF ProtoInv, CursorInv, St2, R
<1>14. BatchOrdered'
  BY <1>0, <1>h, <1>10, FieldTypes DEF ProtoInv, BatchOrdered, St2
<1>15. BatchGapless(acks.refused)'
  BY <1>0, <1>1, <1>h, <1>10, FieldTypes DEF ProtoInv, BatchOrdered, BatchGapless, St2, R
<1>16. BatchGapless(0) => BatchGapless(0)'
  BY <1>0, <1>h, <1>11, FieldTypes DEF BatchGapless, St2
<1>17. ResendInv'
  BY <1>0, <1>5, <1>11, <1>16, FieldTypes DEF ProtoInv, ResendInv, St2
<1> QED
  BY <1>6, <1>7, <1>12, <1>13, <1>14, <1>15, <1>17 DEF ProtoInv

---------------------------------------------------------------------------
(* The theorems. *)

\* A step that only settles rows leaves nothing lost.
LEMMA NoLossKept ==
    ASSUME NoLoss, UNCHANGED <<rows, nextSeq>>, Settled \subseteq Settled'
    PROVE  NoLoss'
BY DEF NoLoss

\* The receive loop is done with a purge, whether the delete worked or not.
LEMMA PurgeDone ==
    ASSUME TypeOK, ProtoInv, purging' = 0, Settled' = Settled,
           UNCHANGED <<ackSeq, sendSeq, drain, connected, up, down, acks>>
    PROVE  ProtoInv'
<1>h. UNCHANGED <<InHand, Reached, ToSend>>
  BY DEF InHand, Reached, ToSend
<1>1. AckInv'
  BY DEF ProtoInv, AckInv, SettledUpTo
<1>2. WireInv' /\ CursorInv'
  BY DEF ProtoInv, WireInv, CursorInv
<1>3. /\ BatchOrdered' /\ BatchGapless(acks.refused)'
      /\ BatchGapless(0) => BatchGapless(0)'
  BY <1>h DEF ProtoInv, BatchOrdered, BatchGapless
<1>4. BatchClosed' /\ DrainInv' /\ CursorBehind'
  BY <1>h DEF ProtoInv, BatchClosed, DrainInv, CursorBehind, SettledUpTo
<1>5. ResendInv'
  BY <1>3 DEF ProtoInv, ResendInv, RateLimitComing
<1> QED
  BY <1>1, <1>2, <1>3, <1>4, <1>5 DEF ProtoInv

\* Rows appended are on disk, rows dropped are accounted for, and a purge
\* deletes only what the ack covers.
LEMMA StoreStep ==
    ASSUME TypeOK, NoLoss, ProtoInv,
           SpoolAppend \/ DropOldest \/ PurgeExpired \/ PurgeAcked
    PROVE  NoLoss' /\ ProtoInv'
<1>1. CASE SpoolAppend
  <2>1. PICK n \in 1..(MaxSeq + 1 - nextSeq) :
           rows' = rows \cup nextSeq..(nextSeq + n - 1) /\ nextSeq' = nextSeq + n
    BY <1>1 DEF SpoolAppend
  <2>2. Settled' = Settled
    BY <1>1 DEF SpoolAppend, Settled, serverVars
  <2>3. n \in Nat
    BY BoundsAssumption DEF TypeOK
  <2>4. \A s \in 1..(nextSeq + n - 1) :
           s \in 1..(nextSeq - 1) \/ s \in nextSeq..(nextSeq + n - 1)
    BY <2>3 DEF TypeOK
  <2>5. NoLoss'
    <3>1. nextSeq' - 1 = nextSeq + n - 1
      BY <2>1, <2>3 DEF TypeOK
    <3>2. \A s \in 1..(nextSeq + n - 1) : s \in rows' \/ s \in Settled
      BY <2>1, <2>4 DEF NoLoss
    <3> QED
      BY <2>2, <3>1, <3>2 DEF NoLoss
  <2>6. UNCHANGED <<ackSeq, sendSeq, drain, purging, connected, up, down, acks>>
    BY <1>1 DEF SpoolAppend, streamVars, serverVars
  <2>7. ProtoInv'
    BY <2>2, <2>6, Quiet
  <2> QED
    BY <2>5, <2>7
<1>2. ASSUME NEW S, Delete(S) PROVE NoLoss' /\ ProtoInv'
  <2>1. /\ rows' = rows \ S /\ gone' = gone \cup S
        /\ UNCHANGED <<nextSeq, accepted>>
        /\ UNCHANGED <<ackSeq, sendSeq, drain, purging, connected, up, down, acks>>
    BY <1>2 DEF Delete, streamVars, serverVars
  <2>2. Settled \subseteq Settled'
    BY <2>1 DEF Settled
  <2>3. ProtoInv'
    BY <2>1, <2>2, Quiet
  <2>4. NoLoss'
    BY <2>1 DEF NoLoss, Settled
  <2> QED
    BY <2>3, <2>4
<1>3. CASE PurgeAcked
  <2>1. /\ rows' = {s \in rows : s > purging} /\ purging' = 0
        /\ UNCHANGED <<nextSeq, ackSeq, sendSeq, drain, connected, up, down, acks>>
        /\ Settled' = Settled
    BY <1>3 DEF PurgeAcked, Settled, streamVars, serverVars
  <2>2. \A s \in 1..purging : s \in Settled
    BY DEF ProtoInv, AckInv, SettledUpTo
  <2>3. NoLoss'
    <3> SUFFICES ASSUME NEW s \in 1..(nextSeq - 1), s \notin Settled
                 PROVE  s \in rows'
      BY <2>1 DEF NoLoss
    <3>1. s \in rows
      BY DEF NoLoss
    <3> QED
      BY <2>1, <2>2, <3>1 DEF TypeOK
  <2>4. ProtoInv'
    BY <2>1, PurgeDone
  <2> QED
    BY <2>3, <2>4
<1> QED
  BY <1>1, <1>2, <1>3 DEF DropOldest, PurgeExpired

\* Every step of the spool, the stream and the push session keeps the
\* inductive invariant.
LEMMA IInvStep == IInv /\ [Next]_vars => IInv'
<1> SUFFICES ASSUME IInv, [Next]_vars PROVE IInv'
  OBVIOUS
<1>0. TypeOK /\ NoLoss /\ ProtoInv
  BY DEF IInv, ProtoInv
<1>t. TypeOK'
  BY <1>0, TypeStep
<1> SUFFICES NoLoss' /\ ProtoInv'
  BY <1>t DEF IInv, ProtoInv
<1>1. CASE SpoolAppend \/ DropOldest \/ PurgeExpired \/ PurgeAcked
  BY <1>0, <1>1, StoreStep
<1>2. ASSUME UNCHANGED <<rows, nextSeq>>, Settled \subseteq Settled' PROVE NoLoss'
  BY <1>0, <1>2, NoLossKept
<1>3. CASE Attach
  BY <1>0, <1>2, <1>3, AttachStep DEF Attach, Settled
<1>4. CASE Detach
  BY <1>0, <1>2, <1>4, DetachStep DEF Detach, Settled, serverVars
<1>5. CASE AgentCrash
  BY <1>0, <1>2, <1>5, AgentCrashStep DEF AgentCrash, Settled
<1>6. CASE DrainRead
  BY <1>0, <1>2, <1>6, DrainReadStep DEF DrainRead, Settled, serverVars
<1>7. CASE DrainCheck
  BY <1>0, <1>2, <1>7, DrainCheckStep DEF DrainCheck, Settled, serverVars
<1>8. CASE DrainSend
  BY <1>0, <1>2, <1>8, DrainSendStep DEF DrainSend, Settled, serverVars
<1>9. CASE DrainAdvance
  BY <1>0, <1>2, <1>9, DrainAdvanceStep DEF DrainAdvance, Settled, serverVars
<1>10. CASE SendSnapshot
  BY <1>0, <1>2, <1>10, SendSnapshotStep DEF SendSnapshot, Settled, agentVars, serverVars
<1>11. CASE Resume
  <2>1. /\ Settled' = Settled /\ UNCHANGED <<rows, nextSeq>>
        /\ UNCHANGED <<ackSeq, sendSeq, drain, purging, connected, up, down, acks>>
    BY <1>11 DEF Resume, Settled, streamVars, serverVars
  <2> QED
    BY <1>0, <1>2, <2>1, Quiet
<1>12. CASE RateLimited
  BY <1>0, <1>2, <1>12, RateLimitedStep DEF RateLimited, Settled, serverVars
<1>13. CASE Acked
  BY <1>0, <1>2, <1>13, AckedStep DEF Acked, Settled, serverVars
<1>14. CASE PurgeFails
  <2>1. /\ purging' = 0 /\ Settled' = Settled /\ UNCHANGED <<rows, nextSeq>>
        /\ UNCHANGED <<ackSeq, sendSeq, drain, connected, up, down, acks>>
    BY <1>14 DEF PurgeFails, Settled, streamVars, serverVars
  <2> QED
    BY <1>0, <1>2, <2>1, PurgeDone
<1>15. CASE HandleEvent
  BY <1>0, <1>2, <1>15, HandleEventStep DEF HandleEvent, Take, Settled, agentVars
<1>16. CASE RefuseEvent
  BY <1>0, <1>2, <1>16, RefuseEventStep DEF RefuseEvent, Settled, agentVars
<1>17. CASE AckTick
  BY <1>0, <1>2, <1>17, AckTickStep DEF AckTick, Settled, agentVars
<1>18. CASE LateEvent
  <2>1. /\ Settled \subseteq Settled' /\ UNCHANGED <<rows, nextSeq>>
        /\ UNCHANGED <<ackSeq, sendSeq, drain, purging, connected, up, down, acks>>
    BY <1>18 DEF LateEvent, Take, Settled, agentVars
  <2> QED
    BY <1>0, <1>2, <2>1, Quiet
<1>19. CASE ServerCrash
  BY <1>0, <1>2, <1>19, ServerCrashStep DEF ServerCrash, Settled
<1>20. CASE UNCHANGED vars
  <2>1. /\ Settled' = Settled /\ UNCHANGED <<rows, nextSeq>>
        /\ UNCHANGED <<ackSeq, sendSeq, drain, purging, connected, up, down, acks>>
    BY <1>20 DEF vars, Settled, agentVars, streamVars, serverVars
  <2> QED
    BY <1>0, <1>2, <2>1, Quiet
<1> QED
  BY <1>1, <1>3, <1>4, <1>5, <1>6, <1>7, <1>8, <1>9, <1>10, <1>11, <1>12,
     <1>13, <1>14, <1>15, <1>16, <1>17, <1>18, <1>19, <1>20
     DEF Next, Agent, Server

\* The agent starts with an empty spool and no stream.
LEMMA InitIInv == Init => IInv
<1> SUFFICES ASSUME Init PROVE IInv
  OBVIOUS
<1>1. TypeOK
  <2>1. newAckTracker \in Tracker /\ Idle \in DrainState
    BY DrainType DEF newAckTracker, Tracker
  <2>2. paused \in BOOLEAN /\ connected \in BOOLEAN
    BY DEF Init
  <2>3. up \in Seq(Nat) /\ late \in Seq(Nat) /\ down \in Seq(Message)
    BY DEF Init
  <2> QED
    BY <2>1, <2>2, <2>3 DEF Init, TypeOK
<1>2. NoLoss /\ AckInv
  BY DEF Init, NoLoss, AckInv, SettledUpTo, newAckTracker
<1>3. WireInv /\ CursorInv /\ ResendInv
  BY EmptyWire DEF Init, WireInv, CursorInv, ResendInv
<1>4. /\ drain.batch = {} /\ drain.pc = "idle" /\ ~InHand
  BY DEF Init, Idle, Drain, InHand
<1>5. BatchOrdered /\ BatchGapless(acks.refused) /\ BatchClosed /\ DrainInv /\ CursorBehind
  BY <1>4 DEF BatchOrdered, BatchGapless, BatchClosed, DrainInv, CursorBehind
<1> QED
  BY <1>1, <1>2, <1>3, <1>5 DEF IInv

\* The inductive invariant holds in every reachable state: no ack ever covers
\* a row that is not settled.
THEOREM Inductive == Spec => []IInv
BY InitIInv, IInvStep, PTL DEF Spec

\* The spool's, the stream's and the session's state keep their types: in
\* particular no row number is ever reused or invented, and the server stores
\* only what it accepted.
THEOREM TypeCorrect == Spec => []TypeOK
<1>1. IInv => TypeOK
  BY DEF IInv
<1> QED
  BY <1>1, Inductive, PTL

\* At-least-once: an event once spooled stays on the agent's disk until the
\* server accepted it or the agent dropped it on purpose, through every
\* interleaving of refusals, rewinds, breaks and crashes.
THEOREM NothingLost == Spec => []NoLoss
<1>1. IInv => NoLoss
  BY DEF IInv
<1> QED
  BY <1>1, Inductive, PTL

\* An event below the send cursor is settled, on the wire, or a rate_limited
\* error that rewinds the cursor is on its way: advance and RateLimited never
\* strand a refused event behind the cursor.
THEOREM RefusedResent == Spec => []RefusedIsResent
<1>1. IInv => RefusedIsResent
  <2> SUFFICES ASSUME IInv, connected, NEW s \in rows, s <= sendSeq, ~RateLimitComing
               PROVE  s \in Settled \cup InFlight
    BY DEF RefusedIsResent, RateLimitComing
  <2>1. s \in 1..((sendSeq + 1) - 1)
    BY DEF IInv, TypeOK
  <2>2. Gapless(up, Settled, 0, sendSeq + 1, {})
    BY DEF IInv, ResendInv
  <2> QED
    BY <2>1, <2>2 DEF Gapless, InFlight
<1> QED
  BY <1>1, Inductive, PTL
===========================================================================
