------------------------------- MODULE Pairing -------------------------------
(***************************************************************************)
(* Pairing of remote agents and the administration of their registrations. *)
(*                                                                         *)
(* An administrator names an address, a pairing code and a certificate     *)
(* fingerprint ("pin").  The server connects to the agent's temporary      *)
(* listener, compares the certificate it sees, writes a pending agent with *)
(* a committing pairing, posts the request to the agent, activates the     *)
(* registration when the agent accepts and posts the request again as the  *)
(* acknowledgement that closes the listener.  Each of these is a step of   *)
(* its own: any other pairing, revocation, deletion or rename, a lost      *)
(* reply, a replaced machine or a restart of the server falls between.     *)
(*                                                                         *)
(* The listener of the agent binary is external: it is modelled from the   *)
(* replies the server's code distinguishes.  Status 'disabled' and pairing *)
(* state 'pending' are in the schema, but no code writes them.             *)
(***************************************************************************)
EXTENDS Naturals, FiniteSets

CONSTANTS Ids,          \* agent ids the server may draw
          Endpoints,    \* addresses of agents
          Pins,         \* certificate fingerprints
          Codes,        \* pairing codes
          Labels,       \* capability labels
          Environments, \* environments an agent may serve
          None,         \* no value
          MaxRequests,  \* bound: pairing, poll and rename requests
          MaxRestarts,  \* bound: restarts of agents' listeners
          StaleAfter,   \* ticks of silence until an agent is stale (120 s)
          OfflineAfter, \* ticks of silence until it is offline (600 s)
          Start,        \* agents registered when the instance starts (at most one)
          Ops           \* operations this instance exercises

PairingAssumption ==
    /\ MaxRequests \in Nat /\ MaxRestarts \in Nat
    /\ Start \subseteq Ids /\ Cardinality(Start) < 2
    /\ StaleAfter \in Nat /\ OfflineAfter \in Nat /\ StaleAfter < OfflineAfter

VARIABLES agent,      \* rows of agents with their labels
          pairing,    \* rows of agent_pairings
          caps,       \* whose advertised capabilities an agent's rows hold
          work,       \* an agent's remote step run and the pin it started under
          age,        \* ticks since the last heartbeat, or since pairing
          challenges, \* pairing confirmations, in the server's memory
          req,        \* requests in flight
          listener,   \* external: the listener at each address
          restarts,   \* restarts of listeners so far
          confirmed,  \* ghost: inputs an administrator confirmed
          admitted,   \* ghost: pins prepared for an agent since its revocation
          activated,  \* ghost: codes of activated rows and of the requests that did it
          alarm,      \* ghost: the last health alert about an agent
          renamed     \* ghost: a rename wrote back an endpoint it read earlier

vars == <<agent, pairing, caps, work, age, challenges, req, listener, restarts,
          confirmed, admitted, activated, alarm, renamed>>
ghosts == <<confirmed, admitted, activated, alarm, renamed>>
rows == <<agent, pairing, caps, work, age>>

Requests == 1..MaxRequests
NoAgent == [status |-> "none", endpoint |-> None, fp |-> None, draining |-> FALSE,
            health |-> "unknown", heard |-> FALSE, labels |-> {}, envs |-> {}]
NoPairing == [state |-> "none", code |-> None, pin |-> None]
NoCaps == [exec |-> None, transfer |-> None]
NoWork == [state |-> "none", pin |-> None]
Idle == [op |-> "none", pc |-> "idle", address |-> None, code |-> None, pin |-> None,
         want |-> None, id |-> None, conn |-> 0]

Registered == {i \in Ids : agent[i].status \in {"pending", "active", "revoked"}}

\* Uncertain: runs whose effect on the machine the server does not know.
Uncertain == {"lost", "cleanup"}

-----------------------------------------------------------------------------
(* Requests in flight *)

Ask(r, fields) ==
    /\ req[r].pc = "idle" /\ \A s \in Requests : s < r => req[s].pc # "idle"
    /\ req' = [req EXCEPT ![r] = [f \in DOMAIN Idle |->
                  IF f \in DOMAIN fields THEN fields[f] ELSE Idle[f]]]
Goto(r, pc) == req' = [req EXCEPT ![r].pc = pc]
Done(r) == Goto(r, "done")

\* PairingInput: what the administrator confirms and ParsePairingInput keeps.
PairingInput == [address : Endpoints, code : Codes, pin : Pins]

\* Answers: the connection is to the listener that is still open.
Answers(r) == listener[req[r].address].up
              /\ listener[req[r].address].born = req[r].conn

-----------------------------------------------------------------------------
(* prepare: the durable tuple, in one transaction *)

\* Candidates: registrations that share the code, the pin or the address.
Candidates(t) ==
    {i \in Ids : /\ pairing[i].state # "none"
                 /\ \/ pairing[i].code = t.code
                    \/ pairing[i].pin = t.pin
                    \/ agent[i].endpoint = t.address}

expectedPairingAgent(t) ==
    t.want # None =>
      /\ agent[t.want].status \in {"pending", "active", "revoked"}
      /\ Candidates(t) \subseteq {t.want}
      /\ agent[t.want].status # "revoked" => Candidates(t) = {t.want}

samePairingTuple(i, t) ==
    pairing[i].code = t.code /\ pairing[i].pin = t.pin /\ agent[i].endpoint = t.address

Committing(t) == [state |-> "committing", code |-> t.code, pin |-> t.pin]

\* ResetRevokedAgentPairing also meets UNIQUE(code) and UNIQUE(pin): every row
\* that holds one of them is a candidate, and the only candidate is this agent.
resetRevokedPairing(t) ==
    /\ agent[t.want].status = "revoked"
    /\ work[t.want].state \notin Uncertain
    /\ pairing' = [pairing EXCEPT ![t.want] = Committing(t)]
    /\ agent' = [agent EXCEPT ![t.want].endpoint = t.address, ![t.want].status = "pending",
                              ![t.want].draining = FALSE, ![t.want].health = "unknown",
                              ![t.want].fp = None, ![t.want].heard = FALSE]
    /\ caps' = [caps EXCEPT ![t.want] = NoCaps]
    /\ admitted' = [admitted EXCEPT ![t.want] = {t.pin}]
    /\ alarm' = [alarm EXCEPT ![t.want] = "none"]

\* createPairingTuple, after deleteExpiredPairing removed the registrations in
\* gone, under a fresh id.
createPairingTuple(i, t, gone) ==
    /\ agent[i].status = "none"
    /\ agent' = [j \in Ids |->
          CASE j = i -> [NoAgent EXCEPT !.status = "pending", !.endpoint = t.address]
            [] j \in gone -> [NoAgent EXCEPT !.status = "deleted"]
            [] OTHER -> agent[j]]
    /\ pairing' = [j \in Ids |-> CASE j = i -> Committing(t)
                                   [] j \in gone -> NoPairing
                                   [] OTHER -> pairing[j]]
    /\ caps' = [j \in Ids |-> IF j \in gone THEN NoCaps ELSE caps[j]]
    /\ admitted' = [j \in Ids |-> CASE j = i -> {t.pin}
                                    [] j \in gone -> {}
                                    [] OTHER -> admitted[j]]
    /\ UNCHANGED alarm

deleteExpiredPairing(i, t) ==
    /\ pairing[i].state = "expired" /\ pairing[i].code # t.code
    /\ agent[i].status = "pending"

\* preparePairingTuple: i is the agent whose pairing the request goes on with.
preparePairingTuple(t, i) ==
    /\ expectedPairingAgent(t)
    /\ \/ /\ t.want # None /\ agent[t.want].status = "revoked"
          /\ i = t.want /\ resetRevokedPairing(t)
       \/ /\ t.want # None => agent[t.want].status # "revoked"
          /\ \/ Candidates(t) = {} /\ createPairingTuple(i, t, {})
             \/ \E c \in Ids : /\ Candidates(t) = {c} /\ deleteExpiredPairing(c, t)
                               /\ createPairingTuple(i, t, {c})
             \/ /\ Candidates(t) = {i} /\ samePairingTuple(i, t)
                /\ pairing[i].state \in {"committing", "paired"}
                /\ UNCHANGED <<agent, pairing, caps, admitted, alarm>>

-----------------------------------------------------------------------------
(* The pairing service *)

\* Begin: the certificate seen at the address becomes a confirmation.
Begin(r) ==
    /\ "begin" \in Ops
    /\ \E e \in Endpoints, c \in Codes :
          /\ Ask(r, [op |-> "begin", pc |-> "done"])
          /\ listener[e].up
          /\ challenges' = challenges \cup
                {[address |-> e, code |-> c, pin |-> listener[e].pin]}
    /\ UNCHANGED <<rows, listener, restarts, ghosts>>

\* Approve takes the confirmation out before it pairs: it is used once.
Approve(r) ==
    \E c \in challenges :
       /\ Ask(r, [op |-> "pair", pc |-> "connect", address |-> c.address,
                    code |-> c.code, pin |-> c.pin])
       /\ challenges' = challenges \ {c}
       /\ confirmed' = confirmed \cup {c}
       /\ UNCHANGED <<rows, listener, restarts, admitted, activated, alarm, renamed>>

\* Deny, and pruneChallenges once pairingTTL is over.
Deny == \E c \in challenges :
           /\ challenges' = challenges \ {c}
           /\ UNCHANGED <<rows, req, listener, restarts, ghosts>>

pruneChallenges == /\ challenges # {} /\ challenges' = {}
                   /\ UNCHANGED <<rows, req, listener, restarts, ghosts>>

\* pair, of the API: the administrator sends the fingerprint with the request.
pair(r, want) ==
    \E input \in PairingInput :
       /\ Ask(r, [op |-> "pair", pc |-> "connect", address |-> input.address,
                    code |-> input.code, pin |-> input.pin, want |-> want])
       /\ confirmed' = confirmed \cup {input}
       /\ UNCHANGED <<rows, challenges, listener, restarts, admitted, activated, alarm,
                      renamed>>

PairAgent(r) == "pair" \in Ops /\ pair(r, None)
RetryPair(r) == "retry" \in Ops /\ \E i \in Registered : pair(r, i)

\* connectPairing: the fingerprint observed must be the one confirmed.
ObservedPin(r, pin) == pin = req[r].pin

connectPairing(r) ==
    LET at == listener[req[r].address] IN
    /\ req[r].pc = "connect"
    /\ IF at.up /\ ObservedPin(r, at.pin)
       THEN req' = [req EXCEPT ![r].pc = "prepare", ![r].pin = at.pin, ![r].conn = at.born]
       ELSE Done(r)
    /\ UNCHANGED <<rows, challenges, listener, restarts, ghosts>>

\* prepare: a pairing that is already 'paired' goes straight to cleanup.
prepare(r) ==
    /\ req[r].pc = "prepare"
    /\ \E i \in Ids :
          /\ preparePairingTuple(req[r], i)
          /\ req' = [req EXCEPT ![r].id = i, ![r].pc =
                        IF pairing'[i].state = "paired" THEN "ack" ELSE "post"]
    /\ UNCHANGED <<work, age, challenges, listener, restarts, confirmed, activated, renamed>>

\* Rejected: preparePairingTuple found a conflict and nothing was written.
PrepareConflict(r) ==
    /\ req[r].pc = "prepare"
    /\ \/ ~expectedPairingAgent(req[r])
       \/ Cardinality(Candidates(req[r])) > 1
       \/ \E c \in Candidates(req[r]) :
             \/ /\ agent[c].status = "revoked" /\ req[r].want = c
                /\ work[c].state \in Uncertain
             \/ /\ ~deleteExpiredPairing(c, req[r])
                /\ ~(req[r].want = c /\ agent[c].status = "revoked")
                /\ ~(samePairingTuple(c, req[r])
                     /\ pairing[c].state \in {"committing", "paired"})
    /\ Done(r)
    /\ UNCHANGED <<rows, challenges, listener, restarts, ghosts>>

\* FirstPhase: what the first request carries as its acknowledgement flag.
FirstPhase == FALSE

\* ServerInit: the listener's answer; the acknowledgement closes it.
ServerInit(r, ack) ==
    listener' = IF ack /\ Answers(r) /\ listener[req[r].address].code = req[r].code
                THEN [listener EXCEPT ![req[r].address].up = FALSE] ELSE listener

Post(r) ==
    /\ req[r].pc = "post"
    /\ ServerInit(r, FirstPhase)
    /\ \/ Answers(r) /\ Goto(r, IF listener[req[r].address].code = req[r].code
                                THEN "activate" ELSE "rejected")
       \/ Done(r)                       \* the reply is lost, or the time is over
    /\ UNCHANGED <<rows, challenges, restarts, ghosts>>

\* ExpireCommittingAgentPairing after 401 or 410.
ExpireCommitting(r) ==
    /\ req[r].pc = "rejected"
    /\ pairing' = [pairing EXCEPT ![req[r].id].state =
                      IF @ = "committing" THEN "expired" ELSE @]
    /\ Done(r)
    /\ UNCHANGED <<agent, caps, work, age, challenges, listener, restarts, ghosts>>

\* Mutant: a revoked registration is activated as well.
ActivatableAnyStatus(i, pin) == \A j \in Ids \ {i} : agent[j].fp # pin

\* ActivatePairedAgent's guard, and the unique index on the fingerprint.
Activatable(i, pin) ==
    /\ agent[i].status = "pending"
    /\ \A j \in Ids \ {i} : agent[j].fp # pin

\* CommitAgentPairing: the pin is the one of this request, not of the row.
CommitAgentPairing(r) ==
    LET i == req[r].id
    IN  /\ req[r].pc = "activate"
        /\ IF pairing[i].state = "committing" /\ Activatable(i, req[r].pin)
           THEN /\ pairing' = [pairing EXCEPT ![i].state = "paired"]
                /\ agent' = [agent EXCEPT ![i].status = "active", ![i].fp = req[r].pin]
                /\ age' = [age EXCEPT ![i] = 0]
                /\ activated' = activated \cup {req[r].code, pairing[i].code}
                /\ Goto(r, "ack")
           ELSE /\ Done(r) /\ UNCHANGED <<pairing, agent, age, activated>>
        /\ UNCHANGED <<caps, work, challenges, listener, restarts, confirmed, admitted,
                       alarm, renamed>>

\* cleanup posts the acknowledgement; an error is only logged ...
cleanup(r) ==
    /\ req[r].pc = "ack"
    /\ ServerInit(r, TRUE) \/ UNCHANGED listener
    /\ Goto(r, "check")
    /\ UNCHANGED <<rows, challenges, restarts, ghosts>>

\* ... and the live tuple decides what the administrator is told.
GetRegisteredAgentPairing(r) ==
    LET i == req[r].id IN
    /\ pairing[i].state = "paired" /\ agent[i].status = "active"
    /\ agent[i].fp = pairing[i].pin
    /\ pairing[i].pin = req[r].pin /\ pairing[i].code = req[r].code

confirm(r) == /\ req[r].pc = "check"
              /\ Goto(r, IF GetRegisteredAgentPairing(r) THEN "paired" ELSE "done")
              /\ UNCHANGED <<rows, challenges, listener, restarts, ghosts>>

\* Timeout of a request, or its client goes away.
Timeout(r) == /\ req[r].op = "pair" /\ req[r].pc \in {"connect", "prepare", "post",
                                                      "rejected", "activate"}
              /\ Done(r)
              /\ UNCHANGED <<rows, challenges, listener, restarts, ghosts>>

-----------------------------------------------------------------------------
(* The mutual-TLS boundary and polls *)

\* PinnedPairing: the committed pairing must name the same certificate.
PinnedPairing(i, pin) == pairing[i].state = "paired" /\ pairing[i].pin = pin

authenticate(i, pin) == /\ agent[i].status = "active" /\ agent[i].fp = pin
                        /\ PinnedPairing(i, pin)

\* Authenticated: a machine with a certificate polls; the id goes with it.
Authenticated(r) ==
    /\ "poll" \in Ops
    /\ \E i \in Ids, p \in Pins :
          /\ authenticate(i, p)
          /\ Ask(r, [op |-> "poll", pc |-> "poll", id |-> i, pin |-> p])
    /\ UNCHANGED <<rows, challenges, listener, restarts, ghosts>>

\* HeartbeatAgent's WHERE clause.
HeartbeatAgent(i, pin) == /\ agent[i].status = "active" /\ agent[i].fp = pin
                          /\ pairing[i].state = "paired"

\* RecordAgentPollCapabilities; a poll without transfer headers keeps what an
\* earlier poll recorded, and a ready poll confirms an outstanding cleanup.
RecordAgentPollCapabilities(r) ==
    LET i == req[r].id IN
    /\ req[r].pc = "poll"
    /\ IF HeartbeatAgent(i, req[r].pin)
       THEN /\ agent' = [agent EXCEPT ![i].heard = TRUE]
            /\ age' = [age EXCEPT ![i] = 0]
            /\ \E transfer, ready \in BOOLEAN :
                 /\ caps' = [caps EXCEPT ![i].exec = req[r].pin,
                       ![i].transfer = IF transfer THEN req[r].pin ELSE @]
                 /\ work' = IF ready /\ work[i].state = "cleanup"
                            THEN [work EXCEPT ![i] = NoWork] ELSE work
       ELSE UNCHANGED <<agent, age, caps, work>>
    /\ req' = [req EXCEPT ![r] = [Idle EXCEPT !.pc = "done"]]
    /\ UNCHANGED <<pairing, challenges, listener, restarts, ghosts>>

-----------------------------------------------------------------------------
(* Remote step runs, as far as registrations depend on them (module RemoteStep) *)

LockClaimAgent(i) == agent[i].status = "active" /\ pairing[i].state = "paired"

\* Assign, claim, report, lose: steps of an agent's run.
RunStep(i) ==
    /\ "work" \in Ops
    /\ \/ /\ work[i].state = "none" /\ LockClaimAgent(i) /\ ~agent[i].draining
          /\ work' = [work EXCEPT ![i].state = "waiting"]
       \/ /\ work[i].state = "waiting" /\ authenticate(i, agent[i].fp) /\ ~agent[i].draining
          /\ work' = [work EXCEPT ![i] = [state |-> "started", pin |-> agent[i].fp]]
       \/ /\ work[i].state \in {"started", "lost"} /\ authenticate(i, agent[i].fp)
          /\ \/ work' = [work EXCEPT ![i] = NoWork]
             \/ work' = [work EXCEPT ![i].state = "cleanup"]
       \/ /\ work[i].state = "started"
          /\ work' = [work EXCEPT ![i].state = "lost"]
    /\ UNCHANGED <<agent, pairing, caps, age, challenges, req, listener, restarts, ghosts>>

\* RevokeAgentRemoteStepRuns: waiting work fails, claimed work is lost.
RevokeAgentRemoteStepRuns(w) ==
    CASE w.state = "waiting" -> NoWork
      [] w.state = "started" -> [w EXCEPT !.state = "lost"]
      [] OTHER -> w

-----------------------------------------------------------------------------
(* Administration of registrations *)

\* RevokeAgent: pending and active registrations; their transfer capabilities
\* and resource policy go with them.
RevokeAgent(i) ==
    /\ agent[i].status \in {"pending", "active"}
    /\ agent' = [agent EXCEPT ![i].status = "revoked"]
    /\ caps' = [caps EXCEPT ![i].transfer = None]
    /\ work' = [work EXCEPT ![i] = RevokeAgentRemoteStepRuns(@)]
    /\ admitted' = [admitted EXCEPT ![i] = {}]
    /\ UNCHANGED <<pairing, age, challenges, req, listener, restarts, confirmed, activated,
                   alarm, renamed>>

\* CountAgentDeletionBlockers.
DeletionBlocked(i) == work[i].state \in {"started"} \cup Uncertain

DeleteAgent(i) ==
    /\ i \in Registered /\ ~DeletionBlocked(i)
    /\ agent' = [agent EXCEPT ![i] = [NoAgent EXCEPT !.status = "deleted"]]
    /\ pairing' = [pairing EXCEPT ![i] = NoPairing]
    /\ caps' = [caps EXCEPT ![i] = NoCaps]
    /\ work' = [work EXCEPT ![i] = NoWork]
    /\ admitted' = [admitted EXCEPT ![i] = {}]
    /\ alarm' = [alarm EXCEPT ![i] = "none"]
    /\ UNCHANGED <<age, challenges, req, listener, restarts, confirmed, activated, renamed>>

SetAgentDraining(i, draining) ==
    /\ LockClaimAgent(i) /\ agent[i].draining # draining
    /\ agent' = [agent EXCEPT ![i].draining = draining]
    /\ UNCHANGED <<pairing, caps, work, age, challenges, req, listener, restarts, ghosts>>

AddAgentLabel(i, l) == agent' = [agent EXCEPT ![i].labels = @ \cup {l}]
DeleteAgentLabel(i, l) == agent' = [agent EXCEPT ![i].labels = @ \ {l}]
AddAgentEnvironmentLabel(i, e) == agent' = [agent EXCEPT ![i].envs = @ \cup {e}]
DeleteAgentEnvironmentLabel(i, e) == agent' = [agent EXCEPT ![i].envs = @ \ {e}]

\* UpdateName reads the agent, and writes its name with the endpoint it read.
UpdateName(r) ==
    /\ "rename" \in Ops
    /\ \E i \in Registered :
          Ask(r, [op |-> "rename", pc |-> "write", id |-> i,
                    address |-> agent[i].endpoint])
    /\ UNCHANGED <<rows, challenges, listener, restarts, ghosts>>

UpdateAgent(r) ==
    LET i == req[r].id IN
    /\ req[r].pc = "write"
    /\ IF agent[i].status \in {"pending", "active"}
       THEN /\ agent' = [agent EXCEPT ![i].endpoint = req[r].address]
            /\ renamed' = (renamed \/ agent[i].endpoint # req[r].address)
       ELSE UNCHANGED <<agent, renamed>>
    /\ Done(r)
    /\ UNCHANGED <<pairing, caps, work, age, challenges, listener, restarts, confirmed,
                   admitted, activated, alarm>>

RevokePage(i) == "revoke" \in Ops /\ RevokeAgent(i)
RevokeAPI(i) == "revoke" \in Ops /\ RevokeAgent(i)
DeletePage(i) == "delete" \in Ops /\ DeleteAgent(i)
DeleteAPI(i) == "delete" \in Ops /\ DeleteAgent(i)
setDrainPage(i) == "drain" \in Ops /\ \E d \in BOOLEAN : SetAgentDraining(i, d)
setDrainAPI(i) == "drain" \in Ops /\ \E d \in BOOLEAN : SetAgentDraining(i, d)

\* Label edits of both surfaces; a row of a missing agent meets the foreign key.
LabelFrame == UNCHANGED <<pairing, caps, work, age, challenges, req, listener, restarts,
                          ghosts>>
AddLabelPage(i) == i \in Registered /\ (\E l \in Labels : AddAgentLabel(i, l)) /\ LabelFrame
AddLabelAPI(i) == i \in Registered /\ (\E l \in Labels : AddAgentLabel(i, l)) /\ LabelFrame
DeleteLabelPage(i) == (\E l \in agent[i].labels : DeleteAgentLabel(i, l)) /\ LabelFrame
DeleteLabelAPI(i) == (\E l \in agent[i].labels : DeleteAgentLabel(i, l)) /\ LabelFrame
AddEnvironmentLabelPage(i) ==
    i \in Registered /\ (\E e \in Environments : AddAgentEnvironmentLabel(i, e)) /\ LabelFrame
DeleteEnvironmentLabelPage(i) ==
    (\E e \in agent[i].envs : DeleteAgentEnvironmentLabel(i, e)) /\ LabelFrame
setEnvironmentAPI(i) ==
    /\ i \in Registered
    /\ \/ \E e \in Environments : AddAgentEnvironmentLabel(i, e)
       \/ \E e \in agent[i].envs : DeleteAgentEnvironmentLabel(i, e)
    /\ LabelFrame

-----------------------------------------------------------------------------
(* Health *)

AgentHealthAt(i) ==
    CASE agent[i].status # "active" -> "unknown"
      [] age[i] >= OfflineAfter -> "offline"
      [] age[i] >= StaleAfter -> "stale"
      [] ~agent[i].heard -> "unknown"
      [] OTHER -> "healthy"

\* maintainHealth: the alert a transition publishes.
Alert(i, previous, health) ==
    CASE health \in {"stale", "offline"} -> health
      [] health = "healthy" /\ previous \in {"stale", "offline"} -> "recovered"
      [] OTHER -> alarm[i]

Transitions == {i \in Ids : LockClaimAgent(i) /\ AgentHealthAt(i) # agent[i].health}

\* AdvanceAgentHealth moves every active agent in one transaction.
AdvanceAgentHealth ==
    /\ "health" \in Ops /\ Transitions # {}
    /\ agent' = [i \in Ids |-> IF i \in Transitions
                    THEN [agent[i] EXCEPT !.health = AgentHealthAt(i)] ELSE agent[i]]
    /\ alarm' = [i \in Ids |-> IF i \in Transitions
                    THEN Alert(i, agent[i].health, AgentHealthAt(i)) ELSE alarm[i]]
    /\ UNCHANGED <<pairing, caps, work, age, challenges, req, listener, restarts, confirmed,
                   admitted, activated, renamed>>

\* Tick: time passes; ages past OfflineAfter are not told apart.
Tick == /\ "health" \in Ops
        /\ \E i \in Ids : age[i] < OfflineAfter
        /\ age' = [i \in Ids |-> IF age[i] < OfflineAfter THEN age[i] + 1 ELSE age[i]]
        /\ UNCHANGED <<agent, pairing, caps, work, challenges, req, listener, restarts, ghosts>>

-----------------------------------------------------------------------------
(* Faults *)

\* AgentRestart: another machine, or the same one, opens the listener anew.
AgentRestart(e) ==
    /\ restarts < MaxRestarts
    /\ restarts' = restarts + 1
    /\ \E p \in Pins, c \in Codes :
          listener' = [listener EXCEPT ![e] = [pin |-> p, code |-> c, up |-> TRUE,
                                                   born |-> restarts']]
    /\ UNCHANGED <<rows, challenges, req, ghosts>>

\* Crash of the server: requests and confirmations are gone, rows stay.
Crash == /\ "crash" \in Ops
         /\ \E r \in Requests : req[r].pc \notin {"idle", "done", "paired"}
         /\ req' = [r \in Requests |-> IF req[r].pc \in {"idle", "paired"} THEN req[r]
                                       ELSE [req[r] EXCEPT !.pc = "done"]]
         /\ challenges' = {}
         /\ UNCHANGED <<rows, listener, restarts, ghosts>>

-----------------------------------------------------------------------------
\* Init: nobody is registered, or the agents in Start were paired with input t.
Init ==
    /\ \E t \in PairingInput :
          /\ agent = [i \in Ids |-> IF i \in Start
                THEN [NoAgent EXCEPT !.status = "active", !.endpoint = t.address, !.fp = t.pin]
                ELSE NoAgent]
          /\ pairing = [i \in Ids |-> IF i \in Start
                THEN [Committing(t) EXCEPT !.state = "paired"] ELSE NoPairing]
          /\ confirmed = {t : i \in Start}
          /\ admitted = [i \in Ids |-> {t.pin : s \in Start \cap {i}}]
          /\ activated = {t.code : i \in Start}
    /\ caps = [i \in Ids |-> NoCaps] /\ work = [i \in Ids |-> NoWork]
    /\ age = [i \in Ids |-> 0]
    /\ challenges = {} /\ req = [r \in Requests |-> Idle]
    /\ \E code \in [Endpoints -> Codes], pin \in [Endpoints -> Pins] :
          listener = [e \in Endpoints |-> [pin |-> pin[e], code |-> code[e], up |-> TRUE,
                                           born |-> 0]]
    /\ restarts = 0
    /\ alarm = [i \in Ids |-> "none"] /\ renamed = FALSE

Pair(r) == \/ PairAgent(r) \/ RetryPair(r) \/ connectPairing(r) \/ prepare(r)
           \/ PrepareConflict(r) \/ Post(r) \/ ExpireCommitting(r)
           \/ CommitAgentPairing(r) \/ cleanup(r) \/ confirm(r) \/ Timeout(r)

Confirmation(r) == Begin(r) \/ Approve(r)

Poll(r) == Authenticated(r) \/ RecordAgentPollCapabilities(r)

Rename(r) == UpdateName(r) \/ UpdateAgent(r)

Administer(i) ==
    \/ RevokePage(i) \/ RevokeAPI(i) \/ DeletePage(i) \/ DeleteAPI(i)
    \/ setDrainPage(i) \/ setDrainAPI(i)
    \/ AddLabelPage(i) \/ AddLabelAPI(i) \/ DeleteLabelPage(i) \/ DeleteLabelAPI(i)
    \/ AddEnvironmentLabelPage(i) \/ DeleteEnvironmentLabelPage(i) \/ setEnvironmentAPI(i)

Maintain == AdvanceAgentHealth \/ Tick

Next ==
    \/ \E r \in Requests : Pair(r) \/ Confirmation(r) \/ Poll(r) \/ Rename(r)
    \/ \E i \in Ids : Administer(i) \/ RunStep(i)
    \/ Deny \/ pruneChallenges \/ Maintain \/ Crash
    \/ \E e \in Endpoints : AgentRestart(e)

Spec == Init /\ [][Next]_vars

-----------------------------------------------------------------------------
(* Properties *)

\* Types of every variable, and the NOT NULL columns of a stored pairing
\* (CreateCommittingAgentPairing).
TypeOK ==
    /\ agent \in [Ids -> [status : {"none", "pending", "active", "revoked", "deleted"},
                          endpoint : Endpoints \cup {None}, fp : Pins \cup {None},
                          draining : BOOLEAN, heard : BOOLEAN,
                          health : {"unknown", "healthy", "stale", "offline"},
                          labels : SUBSET Labels, envs : SUBSET Environments]]
    /\ pairing \in [Ids -> [state : {"none", "committing", "paired", "expired"},
                            code : Codes \cup {None}, pin : Pins \cup {None}]]
    /\ \A i \in Ids : pairing[i].state # "none" => pairing[i].code # None /\ pairing[i].pin # None
    /\ caps \in [Ids -> [exec : Pins \cup {None}, transfer : Pins \cup {None}]]
    /\ work \in [Ids -> [state : {"none", "waiting", "started"} \cup Uncertain,
                         pin : Pins \cup {None}]]
    /\ age \in [Ids -> 0..OfflineAfter]
    /\ challenges \subseteq PairingInput /\ confirmed \subseteq PairingInput
    /\ \A r \in Requests : req[r].id \in Ids \cup {None}
    /\ restarts \in 0..MaxRestarts

\* A certificate the boundary accepts (authenticate) was prepared for that
\* agent after its last revocation: a pairing that was in flight when the
\* agent was revoked, or re-paired with another machine, admits nobody.
NoEntryAfterRevoke ==
    \A i \in Ids, p \in Pins : authenticate(i, p) => p \in admitted[i]

\* Every stored pairing (preparePairingTuple) carries a pin, a code and, until
\* a rename raced a re-pairing, an address that an administrator confirmed
\* together, whatever machine answers there by then.
PairedTupleWasConfirmed ==
    \A i \in Ids : pairing[i].state # "none" =>
       \E c \in confirmed : /\ c.pin = pairing[i].pin /\ c.code = pairing[i].code
                            /\ renamed \/ c.address = agent[i].endpoint

\* Two registrations share an address only after a rename (UpdateName) wrote
\* back an endpoint it had read before a re-pairing moved the agent.
OneRegistrationPerEndpoint ==
    \A i, j \in Registered :
       agent[i].endpoint = agent[j].endpoint => i = j \/ renamed

\* An uncertain run (lost, or its cleanup unconfirmed) disappears only while
\* the certificate it started under is accepted: neither a re-pairing
\* (ResetRevokedAgentForPairing) nor a deletion clears the obligation.
UncertainWorkStays ==
    [][\A i \in Ids : work[i].state \in Uncertain /\ work'[i].state \notin Uncertain
          => authenticate(i, work[i].pin)]_vars

\* Capabilities recorded for an agent (RecordAgentPollCapabilities) are those of
\* the certificate it is registered with, and a revoked agent keeps no transfer
\* capability, although a poll authenticated earlier may still be under way.
CapabilitiesOfCurrentCertificate ==
    \A i \in Ids : /\ agent[i].status = "active" => caps[i].exec \in {None, agent[i].fp}
                   /\ agent[i].status = "active" => caps[i].transfer \in {None, agent[i].fp}
                   /\ agent[i].status = "revoked" => caps[i].transfer = None

\* A pairing reported as done (the last check of cleanup) can be used: at that
\* moment the boundary accepts the confirmed certificate.
SuccessMeansRegistered ==
    [][\A r \in Requests : req[r].pc = "check" /\ req'[r].pc = "paired"
          => authenticate(req[r].id, req[r].pin)]_vars

\* An agent stored as healthy (AdvanceAgentHealth) polled under its current
\* registration: a re-paired machine does not inherit its predecessor's health.
HealthyMeansHeard ==
    \A i \in Ids : agent[i].status = "active" /\ agent[i].health = "healthy"
                   => caps[i].exec = agent[i].fp

=============================================================================
