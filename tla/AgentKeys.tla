----------------------------- MODULE AgentKeys -----------------------------
(***************************************************************************)
(* Agents, their keys, and everyone who may start or stop one.             *)
(*   services/astrolift_clusters.py  mint, renew, revoke, disconnect       *)
(*   api/views/register.py, models/bootstrap_token.py                      *)
(*   api/views/deregister.py, agent_control.py, operator.py                *)
(*   schema/mutations/endpoint.py, models/endpoint.py                      *)
(*                                                                         *)
(* An Astrolift install mints keys under its own row's lock and the        *)
(* agent's.  Others read an agent without a lock and write it later: by    *)
(* named fields, or, in the portal's mutations, every field of the object  *)
(* they read.  An agent id is a name; deleting and creating an agent gives *)
(* it another row, with another primary key.                               *)
(*                                                                         *)
(* A mint or a renewal is audited in another database, inside the agent    *)
(* row's transaction: the record is there before the row is, and stays     *)
(* when the transaction fails.                                             *)
(*                                                                         *)
(* A key is known by who issued it, a time by a small number.              *)
(***************************************************************************)
EXTENDS Integers, FiniteSets, FiniteSetsExt

CONSTANTS
  Agents, Installs,
  Bootstrap, Operator, Portal,  \* the other issuers of keys
  NoKey,                        \* the hash a revoked agent is left with
  Requests,   \* requests of installs, registrations and agents
  Portals,    \* requests of the portal's mutations, one mutation each
  Ttls,       \* the lives a key may be asked for
  Lifetime,   \* ASTROLIFT_AGENT_KEY_MAX_LIFETIME_SECONDS
  Grace,      \* RENEWAL_AUDIT_GRACE
  MaxUses,    \* of the bootstrap token
  MaxRows,    \* rows an agent id ever has: a bound
  MaxTime     \* a bound

ASSUME KeysAssumption ==
  /\ Ttls \subseteq Nat \ {0} /\ Lifetime \in Nat \ {0} /\ Grace \in Nat
  /\ MaxUses \in Nat /\ MaxRows \in Nat /\ MaxTime \in Nat \ {0}
  /\ Installs \cap {Bootstrap, Operator, Portal, NoKey} = {}

VARIABLES
  now,
  agent,     \* [Agents -> Agent], the committed rows
  rows,      \* [Agents -> Nat], rows created so far: the primary keys
  connected, \* the installs that have not been disconnected
  uses,      \* use_count of the bootstrap token
  request,   \* [Requests -> what the request holds between its statements]
  portal,    \* [Portals -> the object the mutation read]
  shown,     \* history: [Agents -> the latest expiry its audit records show,
             \* from the last record on whose change took effect]
  overridden \* history: agents a portal save made active, or overwrote stale

keyVars == <<agent, rows, shown, overridden>>
vars == <<now, keyVars, connected, uses, request, portal>>

Never == 0
Owners == Installs \cup {Bootstrap, Operator}

\* stopper is history, not a column: who stopped the agent last.
Agent == [status : {"absent", "active", "suspended", "terminated"},
          pk : Nat, owner : Owners, key : Owners \cup {Portal, NoKey},
          issued : Nat, expires : Nat, audited : Nat,
          revokedAt : BOOLEAN, stopper : {"nobody", "install", "others"}]

Created(pk, owner, issued, expires, audited) ==
  [status |-> "active", pk |-> pk, owner |-> owner, key |-> owner,
   issued |-> issued, expires |-> expires, audited |-> audited,
   revokedAt |-> FALSE, stopper |-> "nobody"]

Absent == [Created(0, Bootstrap, Never, Never, Never) EXCEPT !.status = "absent"]

\* row and at are of a mint or a renewal that is recorded: the row it will
\* commit, and when it read the clock.
Idle == [op |-> "idle", agent |-> CHOOSE a \in Agents : TRUE, pk |-> 0,
         install |-> Bootstrap, row |-> Absent, at |-> Never]
Unread == [stage |-> "unread", agent |-> CHOOSE a \in Agents : TRUE, row |-> Absent]

Init ==
  /\ now = 1
  /\ agent = [a \in Agents |-> Absent]
  /\ rows = [a \in Agents |-> 0]
  /\ connected = Installs
  /\ uses = 0
  /\ request = [r \in Requests |-> Idle]
  /\ portal = [p \in Portals |-> Unread]
  /\ shown = [a \in Agents |-> Never]
  /\ overridden = {}

Exists(a) == agent[a].status # "absent"
Held(r) == agent[request[r].agent]

\* The row the request read is still there.
SameRow(r) == Exists(request[r].agent) /\ Held(r).pk = request[r].pk

Expired(row) == row.expires # Never /\ row.expires <= now

\* What authentication accepts.
Usable(row) == row.status = "active" /\ ~Expired(row)

\* A mint or a renewal holds the agent's row, or its name, until it commits.
RowLocked(a) ==
  \E r \in Requests : request[r].op \in {"minted", "renewed"} /\ request[r].agent = a

Write(a, row) == ~RowLocked(a) /\ agent' = [agent EXCEPT ![a] = row]
Begin(r, op, a, i, pk) ==
  request' = [request EXCEPT ![r] =
    [Idle EXCEPT !.op = op, !.agent = a, !.install = i, !.pk = pk]]
End(r) == request' = [request EXCEPT ![r] = Idle]

Marked(row, status, stopper) ==
  [row EXCEPT !.status = status, !.revokedAt = stopper = "install",
              !.stopper = stopper]

\* A bound on rows, not a limit of the code.
MayCreate(a) == ~Exists(a) /\ rows[a] < MaxRows

Create(a, owner, issued, expires, audited) ==
  /\ MayCreate(a)
  /\ Write(a, Created(rows[a] + 1, owner, issued, expires, audited))
  /\ rows' = [rows EXCEPT ![a] = @ + 1]

-----------------------------------------------------------------------------
(***************************************************************************)
(* Astrolift installs.                                                     *)
(***************************************************************************)
Locked(i) ==
  \E r \in Requests : request[r].op \in {"mint", "minted"} /\ request[r].install = i

\* mint_agent_key locks the install, which must still be connected ...
BeginMint(r, i, a) ==
  /\ request[r] = Idle
  /\ i \in connected
  /\ ~Locked(i)
  /\ Begin(r, "mint", a, i, 0)
  /\ UNCHANGED <<now, keyVars, connected, uses, portal>>

\* Stopped by anyone but the install's own revoke.
StoppedByOthers(row) ==
  row.status # "active" /\ ~(row.status = "terminated" /\ row.revokedAt)

Later(t, u) == IF u > t THEN u ELSE t

\* The audit record, if any, is written, and the row is to be committed.
Record(r, op, row, audited) ==
  /\ request' = [request EXCEPT ![r].op = op, ![r].row = row, ![r].at = now]
  /\ shown' = [shown EXCEPT ![request[r].agent] = Later(@, audited)]
  /\ UNCHANGED <<now, agent, rows, overridden, connected, uses, portal>>

\* ... and then the agent.
RecordMint(r, ttl) ==
  LET a == request[r].agent
      expires == now + Min({ttl, Lifetime})
      Minted(pk) == Record(r, "minted",
        Created(pk, request[r].install, now, expires, expires), expires)
  IN  /\ request[r].op = "mint"
      /\ ~RowLocked(a)
      /\ \/ MayCreate(a) /\ Minted(rows[a] + 1)
         \/ /\ Exists(a) /\ Held(r).owner = request[r].install
            /\ ~StoppedByOthers(Held(r))
            /\ Minted(Held(r).pk)

\* agent_id_taken or agent_suspended.
MintRefused(r) ==
  /\ request[r].op = "mint"
  /\ Exists(request[r].agent) /\ ~RowLocked(request[r].agent)
  /\ Held(r).owner # request[r].install \/ StoppedByOthers(Held(r))
  /\ End(r)
  /\ UNCHANGED <<now, keyVars, connected, uses, portal>>

\* renew_agent_key checks an unlocked read ...
BeginRenew(r, i, a) ==
  /\ request[r] = Idle
  /\ i \in connected
  /\ Exists(a) /\ agent[a].owner = i /\ agent[a].status = "active"
  /\ Begin(r, "renew", a, i, agent[a].pk)
  /\ UNCHANGED <<now, keyVars, connected, uses, portal>>

\* Faulty: takes the agent as it was read for still running.
RenewableAsRead(r) == SameRow(r)

Renewable(r) == SameRow(r) /\ Usable(Held(r))

\* Faulty: measures from the expiry the key has.
PastGraceOfCurrent(row, expires) == expires > row.expires + Grace

\* Whether a renewal has to be audited.
PastGrace(row, expires) == expires > row.audited + Grace

\* ... and then locks the agent where it is still live.
RecordRenew(r, ttl) ==
  LET expires == Min({now + ttl, Held(r).issued + Lifetime})
      audit == PastGrace(Held(r), expires)
  IN  /\ request[r].op = "renew"
      /\ ~RowLocked(request[r].agent)
      /\ Renewable(r)
      /\ Record(r, "renewed",
                [Held(r) EXCEPT !.expires = expires,
                                !.audited = IF audit THEN expires ELSE @],
                IF audit THEN expires ELSE Never)

RenewRefused(r) ==
  /\ request[r].op = "renew"
  /\ ~RowLocked(request[r].agent)
  /\ ~Renewable(r)
  /\ End(r)
  /\ UNCHANGED <<now, keyVars, connected, uses, portal>>

\* The agent row's transaction commits: it is as its last record shows.
Commit(r) ==
  LET a == request[r].agent
      row == request[r].row
      audited == request[r].op = "minted" \/ row.audited # agent[a].audited
  IN  /\ request[r].op \in {"minted", "renewed"}
      /\ agent' = [agent EXCEPT ![a] = row]
      /\ rows' = [rows EXCEPT ![a] = IF Exists(a) THEN @ ELSE row.pk]
      /\ shown' = [shown EXCEPT ![a] = IF audited THEN row.audited ELSE @]
      /\ End(r)
      /\ UNCHANGED <<now, overridden, connected, uses, portal>>

\* It fails, before the record or after it.
Fails(r) ==
  /\ request[r].op \in {"mint", "renew", "minted", "renewed"}
  /\ End(r)
  /\ UNCHANGED <<now, keyVars, connected, uses, portal>>

\* revoke_agent_key: only a live agent changes.
Revoke(i, a) ==
  /\ i \in connected
  /\ agent[a].owner = i /\ agent[a].status = "active"
  /\ Write(a, Marked(agent[a], "terminated", "install"))
  /\ UNCHANGED <<now, rows, shown, overridden, connected, uses, request, portal>>

\* Faulty: does not wait for a mint that holds the install.
DisconnectUnlocked(i) ==
  /\ i \in connected
  /\ connected' = connected \ {i}
  /\ agent' = [a \in Agents |->
                 IF agent[a].owner = i /\ agent[a].status \in {"active", "suspended"}
                 THEN Marked(agent[a], "terminated", "others") ELSE agent[a]]
  /\ UNCHANGED <<now, rows, shown, overridden, uses, request, portal>>

\* disconnect_install.
Disconnect(i) ==
  /\ ~Locked(i)
  /\ \A a \in Agents : agent[a].owner = i => ~RowLocked(a)
  /\ DisconnectUnlocked(i)

-----------------------------------------------------------------------------
(***************************************************************************)
(* Registration with a bootstrap token, and the agent itself.              *)
(***************************************************************************)

\* Faulty: any running agent may be registered again.
RunningAgent(row) == row.status = "active"

\* What _refuse_reregister lets through.
MayReregister(row) == /\ row.owner = Bootstrap /\ row.expires = Never
                      /\ row.status = "active"

\* The token's conditional UPDATE, then the unlocked read of the agent.
ClaimToken(r, a) ==
  /\ request[r] = Idle
  /\ uses < MaxUses
  /\ uses' = uses + 1
  /\ IF Exists(a) /\ ~MayReregister(agent[a]) THEN UNCHANGED request
     ELSE Begin(r, IF Exists(a) THEN "reregister" ELSE "register", a, Bootstrap,
                agent[a].pk)
  /\ UNCHANGED <<now, keyVars, connected, portal>>

\* Faulty: finds the agent again by its name.
ReregisterByName(r) ==
  /\ request[r].op = "reregister"
  /\ IF Exists(request[r].agent)
     THEN Write(request[r].agent, [Held(r) EXCEPT !.key = Bootstrap])
     ELSE UNCHANGED agent
  /\ End(r)
  /\ UNCHANGED <<now, rows, shown, overridden, connected, uses, portal>>

\* Named fields only, so the status read before is not written back.
Reregister(r) ==
  /\ request[r].op = "reregister"
  /\ IF SameRow(r)
     THEN Write(request[r].agent, [Held(r) EXCEPT !.key = Bootstrap])
     ELSE UNCHANGED agent
  /\ End(r)
  /\ UNCHANGED <<now, rows, shown, overridden, connected, uses, portal>>

\* The insert, which the unique (tenant, agent_id) may refuse.
Register(r) ==
  LET a == request[r].agent IN
  /\ request[r].op = "register"
  /\ \/ Create(a, Bootstrap, Never, Never, Never)
     \/ Exists(a) /\ UNCHANGED <<agent, rows>>
  /\ End(r)
  /\ UNCHANGED <<now, shown, overridden, connected, uses, portal>>

\* deregister: the key is checked and the agent read ...
BeginDeregister(r, a) ==
  /\ request[r] = Idle
  /\ Usable(agent[a]) /\ agent[a].key # NoKey
  /\ Begin(r, "deregister", a, Bootstrap, agent[a].pk)
  /\ UNCHANGED <<now, keyVars, connected, uses, portal>>

\* ... and its status written later, whatever it has become.
Deregister(r) ==
  /\ request[r].op = "deregister"
  /\ IF SameRow(r)
     THEN Write(request[r].agent, Marked(Held(r), "terminated", "others"))
     ELSE UNCHANGED agent
  /\ End(r)
  /\ UNCHANGED <<now, rows, shown, overridden, connected, uses, portal>>

-----------------------------------------------------------------------------
(***************************************************************************)
(* Administrators: agent control and the operator API write under a lock   *)
(* or in one statement, the portal saves objects it read.                  *)
(***************************************************************************)

\* Faulty: an administrator's stop leaves astrolift_revoked_at.
ControlKeepsRevokedAt(a, action) ==
  /\ Exists(a)
  /\ Write(a, IF action = "suspend"
              THEN [agent[a] EXCEPT !.status = "suspended", !.stopper = "others"]
              ELSE [agent[a] EXCEPT !.status = "terminated", !.stopper = "others",
                                    !.key = NoKey])
  /\ UNCHANGED <<now, rows, shown, overridden, connected, uses, request, portal>>

\* AgentControlView.post: suspend, or revoke and emergency_stop.
Control(a, action) ==
  /\ Exists(a)
  /\ Write(a, IF action = "suspend" THEN Marked(agent[a], "suspended", "others")
              ELSE [Marked(agent[a], "terminated", "others") EXCEPT !.key = NoKey])
  /\ UNCHANGED <<now, rows, shown, overridden, connected, uses, request, portal>>

OperatorDelete(a) ==
  /\ Exists(a)
  /\ Write(a, Marked(agent[a], "terminated", "others"))
  /\ UNCHANGED <<now, rows, shown, overridden, connected, uses, request, portal>>

OperatorCreate(a, expires) ==
  /\ Create(a, Operator, Never, expires, Never)
  /\ UNCHANGED <<now, shown, overridden, connected, uses, request, portal>>

PortalDelete(a) ==
  /\ Exists(a)
  /\ Write(a, Absent)
  /\ shown' = [shown EXCEPT ![a] = Never]
  /\ overridden' = overridden \ {a}
  /\ UNCHANGED <<now, rows, connected, uses, request, portal>>

PortalOps == {"update", "suspend", "activate", "regenerate", "set_active",
              "set_terminated"}

PortalRead(p, a) ==
  /\ portal[p] = Unread
  /\ Exists(a)
  /\ portal' = [portal EXCEPT ![p] = [stage |-> "read", agent |-> a, row |-> agent[a]]]
  /\ UNCHANGED <<now, keyVars, connected, uses, request>>

Intended(op, row) ==
  CASE op = "update"         -> row
    [] op = "regenerate"     -> [row EXCEPT !.key = Portal]
    [] op = "suspend"        -> Marked(row, "suspended", "others")
    [] op = "activate"       -> [row EXCEPT !.status = "active", !.stopper = "nobody"]
    [] op = "set_active"     -> Marked(row, "active", "nobody")
    [] op = "set_terminated" -> Marked(row, "terminated", "others")

\* What the mutation checks of the object it read.
Permits(op, row) == /\ op = "suspend" => row.status # "suspended"
                    /\ op = "activate" => row.status = "suspended"

\* The save makes an inactive agent active, or its object is stale by now.
Overrides(p, op) ==
  LET read == portal[p].row IN
  \/ agent[portal[p].agent] # read
  \/ read.status # "active" /\ Intended(op, read).status = "active"

\* endpoint.save() writes every field.  A row deleted meanwhile is inserted
\* again, unless another has its name.
PortalSave(p, op) ==
  LET a == portal[p].agent
      read == portal[p].row
  IN  /\ portal[p].stage = "read"
      /\ IF Exists(a) /\ agent[a].pk # read.pk
         THEN UNCHANGED <<agent, overridden>>
         ELSE /\ Permits(op, read)
              /\ Write(a, Intended(op, read))
              /\ overridden' = overridden \cup (IF Overrides(p, op) THEN {a} ELSE {})
      /\ portal' = [portal EXCEPT ![p] = [Unread EXCEPT !.stage = "saved"]]
      /\ UNCHANGED <<now, rows, shown, connected, uses, request>>

Tick ==
  /\ now < MaxTime
  /\ now' = now + 1
  /\ UNCHANGED <<keyVars, connected, uses, request, portal>>

-----------------------------------------------------------------------------
RequestStep(r) ==
  \/ \E i \in Installs, a \in Agents : BeginMint(r, i, a) \/ BeginRenew(r, i, a)
  \/ \E ttl \in Ttls : RecordMint(r, ttl) \/ RecordRenew(r, ttl)
  \/ MintRefused(r)
  \/ RenewRefused(r)
  \/ Commit(r)
  \/ Fails(r)
  \/ \E a \in Agents : ClaimToken(r, a) \/ BeginDeregister(r, a)
  \/ Reregister(r)
  \/ Register(r)
  \/ Deregister(r)

AdminStep(a) ==
  \/ \E action \in {"suspend", "revoke"} : Control(a, action)
  \/ OperatorDelete(a)
  \/ \E expires \in {Never} \cup {now + ttl : ttl \in Ttls} : OperatorCreate(a, expires)
  \/ PortalDelete(a)

Next ==
  \/ \E r \in Requests : RequestStep(r)
  \/ \E i \in Installs : Disconnect(i) \/ \E a \in Agents : Revoke(i, a)
  \/ \E a \in Agents : AdminStep(a)
  \/ \E p \in Portals, a \in Agents : PortalRead(p, a)
  \/ \E p \in Portals, op \in PortalOps : PortalSave(p, op)
  \/ Tick

Spec == Init /\ [][Next]_vars
-----------------------------------------------------------------------------
(***************************************************************************)
(* Properties.                                                             *)
(***************************************************************************)

\* Types; "set only when the minting install revoked the agent, the one stop
\* that install may undo": astrolift_revoked_at is on terminated agents of an
\* install that nobody else stopped since.
TypeOK ==
  /\ now \in 1..MaxTime /\ uses \in 0..MaxUses /\ connected \subseteq Installs
  /\ agent \in [Agents -> Agent]
  /\ \A a \in Agents : agent[a].pk <= rows[a] /\ rows[a] <= MaxRows
  /\ \A a \in Agents : agent[a].revokedAt =>
       /\ agent[a].status = "terminated" /\ agent[a].owner \in Installs
       /\ agent[a].stopper = "install"
  /\ \A r \in Requests : request[r] # Idle => request[r].agent \in Agents
  /\ \A i \in Installs : Cardinality({r \in Requests :
       request[r].op \in {"mint", "minted"} /\ request[r].install = i}) <= 1

\* A bootstrap token never replaces the key of an agent an operator or an
\* install issued, and an install never that of one it did not mint, however
\* deletions, new rows and requests that read the old ones interleave.
KeyOfOwner ==
  \A a \in Agents : Exists(a) => agent[a].key \in {agent[a].owner, Portal, NoKey}

\* Disconnecting an install leaves none of its agents running, also not one
\* minted beside it; only the portal can start one again.
DisconnectStopsAll ==
  \A a \in Agents \ overridden :
    agent[a].owner \in Installs \ connected => agent[a].status # "active"

\* A live install key lasts no longer than its lifetime after its mint, and
\* "is never live more than a day past what its tenant's chain shows": past the
\* latest expiry shown by its audit records, from the last on whose change took
\* effect.  Later ones are of changes under way or that never happened, and the
\* last record alone may show less than the key has.
KeyBounded ==
  \A a \in Agents \ overridden :
    agent[a].owner \in Installs /\ Exists(a) =>
      /\ agent[a].expires <= agent[a].issued + Lifetime
      /\ agent[a].expires <= shown[a] + Grace

MintedNow(a) ==
  \E r \in Requests : /\ request[r].op = "minted" /\ request[r].agent = a
                      /\ request'[r] = Idle
\* By a transaction that found the key live when it locked the agent.
RenewedLive(a) ==
  \E r \in Requests : /\ request[r].op = "renewed" /\ request[r].agent = a
                      /\ request'[r] = Idle
                      /\ agent[a].status = "active" /\ agent[a].expires > request[r].at
OverriddenNow(a) ==
  \E p \in Portals : /\ portal[p].stage = "read" /\ portal'[p].stage = "saved"
                     /\ portal[p].agent = a
                     /\ agent[a] # portal[p].row \/ agent'[a].status = "active"
StaysTheRow(a) == Exists(a) /\ Exists(a)' /\ agent'[a].pk = agent[a].pk

\* A stop by anyone but the install stands: no mint, renewal or registration
\* that was under way undoes it.  An expired key takes a fresh mint.  Only the
\* portal may do otherwise, asked to activate or with an object gone stale.
StopStands ==
  [][\A a \in Agents : StaysTheRow(a) /\ ~OverriddenNow(a) =>
       /\ agent[a].stopper = "others" => agent'[a].stopper = "others"
       /\ ~Usable(agent[a]) /\ Usable(agent[a])' =>
            MintedNow(a) \/ RenewedLive(a)]_vars
=============================================================================
