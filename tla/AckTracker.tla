---------------------------- MODULE AckTracker ----------------------------
(***************************************************************************)
(* The server's ackTracker (internal/commercial/multihost/ack.go): which   *)
(* event sequence a Push stream may acknowledge.  A tracker lives as long  *)
(* as its stream.  Sequence 0 is an unnumbered event (a state snapshot).   *)
(* The count of accepted events and the time of the last ack only decide   *)
(* when afterEvent may ack; the sessions that use the tracker choose that  *)
(* moment nondeterministically.                                            *)
(***************************************************************************)
EXTENDS Integers

Tracker == [highest : Nat, refused : Nat, acked : Nat]

newAckTracker == [highest |-> 0, refused |-> 0, acked |-> 0]

\* Plausible bug: an accepted event above a refused one moves the ack.
acceptPastRefused(a, seq) ==
    IF seq > a.highest THEN [highest |-> seq, refused |-> a.refused, acked |-> a.acked] ELSE a

\* accept: an event the server took.  While something is refused, only a
\* replay at or below it moves the ack again, and it restarts from there.
accept(a, seq) ==
    IF seq = 0 \/ (a.refused > 0 /\ seq > a.refused) THEN a
    ELSE [highest |-> IF a.refused > 0 \/ seq > a.highest THEN seq ELSE a.highest,
          refused |-> 0, acked |-> a.acked]

\* refuse: the lowest refused sequence freezes the ack.
refuse(a, seq) ==
    IF seq # 0 /\ (a.refused = 0 \/ seq < a.refused)
    THEN [highest |-> a.highest, refused |-> seq, acked |-> a.acked]
    ELSE a

\* pending: is an acknowledgement past the last one owed?
pending(a) == a.highest > a.acked

sent(a, seq) == [highest |-> a.highest, refused |-> a.refused, acked |-> seq]
===========================================================================
