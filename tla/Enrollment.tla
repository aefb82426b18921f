----------------------------- MODULE Enrollment -----------------------------
(***************************************************************************)
(* Enrollment of agents with one-time tokens: the API that creates and     *)
(* deletes tokens and agents, RegisterAgent and EnrollAtomic on the server *)
(* (internal/commercial/multihost/enrollment.go, internal/store/agents.go) *)
(* and enrollAndServe with identity.json on each host                      *)
(* (internal/agent/agent.go, enrollment.go, identity.go).                  *)
(***************************************************************************)
EXTENDS Naturals, FiniteSets

CONSTANTS Hosts, Ids, Tokens, Nobody,
          HostLimit   \* extension.Limit(agent_hosts)

VARIABLES enAgents,   \* agents: the status of each id
          enTokens,   \* enrollment_tokens: the state of each token
          enBy,       \* consumed_by_agent_id
          enHost,     \* each host's agent: where it is, its identity and token
          enDisk      \* identity.json: the id on disk, and Registered

vars == <<enAgents, enTokens, enBy, enHost, enDisk>>

\* Every variable ranges over the values the code can give it.
TypeOK ==
    /\ enAgents \in [Ids -> {"none", "active", "revoked", "deleted"}]
    /\ enTokens \in [Tokens -> {"none", "fresh", "expired", "consumed", "deleted"}]
    /\ enBy \in [Tokens -> Ids \cup {Nobody}]
    /\ enHost \in [Hosts -> [pc : {"down", "enroll", "checked", "reply", "serving"},
                             id : Ids \cup {Nobody}, token : Tokens, again : BOOLEAN]]
    /\ enDisk \in [Hosts -> [id : Ids \cup {Nobody}, registered : BOOLEAN]]

Down(t) == [pc |-> "down", id |-> Nobody, token |-> t, again |-> FALSE]

Init ==
    /\ enAgents = [i \in Ids |-> "none"] /\ enTokens = [t \in Tokens |-> "none"]
    /\ enBy = [t \in Tokens |-> Nobody]
    /\ enHost \in [Hosts -> {Down(t) : t \in Tokens}]
    /\ enDisk = [h \in Hosts |-> [id |-> Nobody, registered |-> FALSE]]

Active == {i \in Ids : enAgents[i] = "active"}
Goto(h, pc) == enHost' = [enHost EXCEPT ![h].pc = pc]
Exit(h) == enHost' = [enHost EXCEPT ![h] = Down(enHost[h].token)]

\* newIdentity: an id nobody has had.
Unused == {i \in Ids : /\ enAgents[i] = "none"
                       /\ \A h \in Hosts : i \notin {enHost[h].id, enDisk[h].id}}

-----------------------------------------------------------------------------
\* HandleCreateEnrollmentToken, refused when the cap is reached.
CreateToken(t) ==
    /\ enTokens[t] = "none" /\ Cardinality(Active) < HostLimit
    /\ enTokens' = [enTokens EXCEPT ![t] = "fresh"]
    /\ UNCHANGED <<enAgents, enBy, enHost, enDisk>>
TokenExpires(t) ==
    /\ enTokens[t] = "fresh" /\ enTokens' = [enTokens EXCEPT ![t] = "expired"]
    /\ UNCHANGED <<enAgents, enBy, enHost, enDisk>>
\* DeleteToken and GcExpiredTokens remove tokens that are not consumed.
DeleteToken(t) ==
    /\ enTokens[t] \in {"fresh", "expired"} /\ enTokens' = [enTokens EXCEPT ![t] = "deleted"]
    /\ UNCHANGED <<enAgents, enBy, enHost, enDisk>>
\* HandleRevokeAgent and HandleDeleteAgent, as far as the row goes.
RemoveAgent(i, status) ==
    /\ enAgents[i] \in {"active", "revoked"} /\ enAgents[i] # status
    /\ enAgents' = [enAgents EXCEPT ![i] = status]
    /\ UNCHANGED <<enTokens, enBy, enHost, enDisk>>

-----------------------------------------------------------------------------
\* LoadOrCreate, then enrollAndServe: a registered identity is served.
Start(h) ==
    /\ enHost[h].pc = "down"
    /\ \E i \in IF enDisk[h].id = Nobody THEN Unused ELSE {enDisk[h].id} :
         /\ enDisk' = [enDisk EXCEPT ![h].id = i]
         /\ enHost' = [enHost EXCEPT ![h].id = i,
                         ![h].pc = IF enDisk[h].registered THEN "serving" ELSE "enroll"]
    /\ UNCHANGED <<enAgents, enTokens, enBy>>

\* RegisterAgent looks the token up before it queues on the writer.
TokenExists(h) ==
    /\ enHost[h].pc = "enroll"
    /\ IF enTokens[enHost[h].token] \in {"none", "deleted"} THEN Exit(h) ELSE Goto(h, "checked")
    /\ UNCHANGED <<enAgents, enTokens, enBy, enDisk>>

\* enrollTx: the cap, the token and the insert in one transaction; a refusal
\* rolls all of it back.  A deleted agent leaves no row: a host that never learnt
\* it was enrolled may come back with the same id and another token.
UnderCapPlusOne == Cardinality(Active) <= HostLimit
UnderCap == Cardinality(Active) < HostLimit
UsableTwice(t) == enTokens[t] \in {"fresh", "consumed"}
Usable(t) == enTokens[t] = "fresh"
MayEnroll(h) ==
    UnderCap /\ Usable(enHost[h].token) /\ enAgents[enHost[h].id] \in {"none", "deleted"}
EnrollAtomic(h) ==
    LET t == enHost[h].token IN
      /\ enHost[h].pc = "checked"
      /\ IF MayEnroll(h)
         THEN /\ enAgents' = [enAgents EXCEPT ![enHost[h].id] = "active"]
              /\ enTokens' = [enTokens EXCEPT ![t] = "consumed"]
              /\ enBy' = [enBy EXCEPT ![t] = enHost[h].id] /\ Goto(h, "reply")
         ELSE Exit(h) /\ UNCHANGED <<enAgents, enTokens, enBy>>
      /\ UNCHANGED enDisk

\* RunEnrollment saves the identity once the server has answered.
RunEnrollment(h) ==
    /\ enHost[h].pc = "reply" /\ Goto(h, "serving")
    /\ enDisk' = [enDisk EXCEPT ![h] = [id |-> enHost[h].id, registered |-> TRUE]]
    /\ UNCHANGED <<enAgents, enTokens, enBy>>
\* The agent stops, or the answer never reaches it.
Stop(h) ==
    /\ enHost[h].pc # "down" /\ Exit(h)
    /\ UNCHANGED <<enAgents, enTokens, enBy, enDisk>>

DiskOnRefusal(h, i) == enDisk
Refused(h) ==
    /\ enHost[h].pc = "serving" /\ enAgents[enHost[h].id] \in {"revoked", "deleted"}
    /\ IF enHost[h].again THEN Exit(h) /\ UNCHANGED enDisk
       ELSE \E i \in Unused :
              /\ enHost' = [enHost EXCEPT ![h].pc = "enroll", ![h].id = i, ![h].again = TRUE]
              /\ enDisk' = DiskOnRefusal(h, i)
    /\ UNCHANGED <<enAgents, enTokens, enBy>>
\* The operator gives a stopped agent another token.
NewToken(h, t) ==
    /\ enHost[h].pc = "down" /\ enHost[h].token # t /\ enHost' = [enHost EXCEPT ![h] = Down(t)]
    /\ UNCHANGED <<enAgents, enTokens, enBy, enDisk>>

Next ==
    \/ \E t \in Tokens : CreateToken(t) \/ TokenExpires(t) \/ DeleteToken(t)
    \/ \E i \in Ids, status \in {"revoked", "deleted"} : RemoveAgent(i, status)
    \/ \E h \in Hosts : \/ Start(h) \/ TokenExists(h) \/ EnrollAtomic(h) \/ RunEnrollment(h)
                        \/ Stop(h) \/ Refused(h)
    \/ \E h \in Hosts, t \in Tokens : NewToken(h, t)

Spec == Init /\ [][Next]_vars

-----------------------------------------------------------------------------
\* Concurrent enrollments never exceed the host cap (EnrollAtomic).
CapHeld == Cardinality(Active) <= HostLimit

\* A token buys one host, and a refused enrollment leaves it unused: a token names
\* the agent it enrolled exactly when it is consumed, and the agents that were ever
\* enrolled are those the tokens name, so that no two agents share one (enrollTx).
TokenBuysOneHost ==
    /\ {t \in Tokens : enBy[t] # Nobody} = {t \in Tokens : enTokens[t] = "consumed"}
    /\ {i \in Ids : enAgents[i] # "none"} = {enBy[t] : t \in Tokens} \ {Nobody}

=============================================================================
