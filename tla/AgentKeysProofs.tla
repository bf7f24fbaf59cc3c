-------------------------- MODULE AgentKeysProofs --------------------------
(***************************************************************************)
(* Keys stay with their issuer, stops stand and keys end, for any number   *)
(* of agents, installs, requests and portal mutations.                     *)
(***************************************************************************)
EXTENDS AgentKeys, FiniteSetTheorems, TLAPS

Statuses == {"absent", "active", "suspended", "terminated"}
Stoppers == {"nobody", "install", "others"}

\* What every row is, in the table or in an object that was read: only an
\* install's stop sets astrolift_revoked_at, and a row that others stopped is
\* not active.
RowOK(row) ==
  /\ row \in Agent
  /\ row.revokedAt => /\ row.status = "terminated" /\ row.owner \in Installs
                      /\ row.stopper = "install"
  /\ row.stopper = "others" => row.status \in {"suspended", "terminated"}
  /\ row.status # "absent" => row.key \in {row.owner, Portal, NoKey}

StateTypes ==
  /\ now \in 1..MaxTime /\ uses \in 0..MaxUses /\ connected \subseteq Installs
  /\ agent \in [Agents -> Agent]
  /\ rows \in [Agents -> Nat]
  /\ shown \in [Agents -> Nat]

RowsOK ==
  \A a \in Agents : RowOK(agent[a]) /\ agent[a].pk <= rows[a] /\ rows[a] <= MaxRows

RequestRecord ==
  [op : {"mint", "minted", "renew", "renewed", "register", "reregister", "deregister"},
   agent : Agents, pk : Nat, install : Installs \cup {Bootstrap}, row : Agent, at : Nat]

Minting(r) == request[r].op \in {"mint", "minted"}
Pending(r) == request[r].op \in {"minted", "renewed"}

\* A mint holds a connected install, and a recorded change an agent's row; each
\* holds it alone.
RequestsOK ==
  /\ request \in [Requests -> RequestRecord \cup {Idle}]
  /\ \A r \in Requests : Minting(r) => request[r].install \in connected
  /\ \A r, s \in Requests :
       Minting(r) /\ Minting(s) /\ request[r].install = request[s].install => r = s
  /\ \A r, s \in Requests :
       Pending(r) /\ Pending(s) /\ request[r].agent = request[s].agent => r = s

\* What a minted row may replace, or that it is new.
MintedOver(row, old, last) ==
  IF old.status # "absent"
  THEN row.pk = old.pk /\ row.owner = old.owner /\ old.stopper # "others"
  ELSE row.pk = last + 1 /\ row.pk <= MaxRows

\* A renewed row is the old one, found live at some time, but for its expiry.
RenewedOf(row, old, at) ==
  /\ row.pk = old.pk /\ row.owner = old.owner /\ row.issued = old.issued
  /\ old.status = "active" /\ (old.expires = Never \/ old.expires > at)

\* A row to be committed ends with its lifetime and within the grace of the
\* expiry its record shows.
PendingRow(row) ==
  /\ RowOK(row) /\ row.status = "active"
  /\ row.expires <= row.issued + Lifetime /\ row.expires <= row.audited + Grace

Recorded(r) ==
  LET a == request[r].agent
      row == request[r].row
  IN  /\ PendingRow(row)
      /\ request[r].op = "minted" =>
           row.owner = request[r].install /\ MintedOver(row, agent[a], rows[a])
      /\ request[r].op = "renewed" => RenewedOf(row, agent[a], request[r].at)

PendingOK == \A r \in Requests : Pending(r) => Recorded(r)

PortalRecord == [stage : {"read"}, agent : Agents, row : Agent]

\* An object a mutation read was a row, and looked like one.
PortalsOK ==
  /\ portal \in [Portals -> PortalRecord \cup {Unread, [Unread EXCEPT !.stage = "saved"]}]
  /\ \A p \in Portals : portal[p].stage = "read" =>
       /\ RowOK(portal[p].row) /\ portal[p].row.status # "absent"
       /\ portal[p].row.pk <= rows[portal[p].agent]

\* Somebody takes the row of agent a with primary key k for one of o's: the
\* table, a mutation that read it, or a registration that checked it.
Known(a, k, o) ==
  \/ Exists(a) /\ agent[a].pk = k /\ agent[a].owner = o
  \/ \E p \in Portals : /\ portal[p].stage = "read" /\ portal[p].agent = a
                        /\ portal[p].row.pk = k /\ portal[p].row.owner = o
  \/ \E r \in Requests : /\ request[r].op = "reregister" /\ request[r].agent = a
                         /\ request[r].pk = k /\ o = Bootstrap

\* A row has one owner as long as anyone remembers it, whatever is deleted and
\* created under its name.
OneOwner ==
  \A a \in Agents, k \in Nat, o, q \in Owners :
    Known(a, k, o) => k <= rows[a] /\ (Known(a, k, q) => o = q)

\* An install's live key ends with its lifetime; the expiry the row remembers
\* having audited is one the chain shows, or shows to have passed.
KeyEnds ==
  \A a \in Agents \ overridden :
    agent[a].owner \in Installs /\ Exists(a) =>
      /\ agent[a].expires <= agent[a].issued + Lifetime
      /\ agent[a].expires <= agent[a].audited + Grace
      /\ agent[a].audited <= shown[a]

IInv ==
  /\ StateTypes
  /\ RowsOK
  /\ RequestsOK
  /\ PendingOK
  /\ PortalsOK
  /\ OneOwner
  /\ DisconnectStopsAll
  /\ KeyEnds

-----------------------------------------------------------------------------
(***************************************************************************)
(* Rows.                                                                   *)
(***************************************************************************)
LEMMA MinBound ==
  ASSUME NEW x \in Nat, NEW y \in Nat
  PROVE  Min({x, y}) \in Nat /\ Min({x, y}) <= x /\ Min({x, y}) <= y
<1>1. \E m \in {x, y} : \A z \in {x, y} : m <= z
  OBVIOUS
<1>. QED
  BY <1>1 DEF Min

LEMMA AbsentRow ==
  RowOK(Absent) /\ Absent.status = "absent" /\ Absent.pk = 0 /\ Absent.owner = Bootstrap
BY DEF Absent, Created, RowOK, Agent, Never, Owners

\* What a stop, a new key or a portal save leaves of a row.
Kept(old, new) ==
  /\ RowOK(new) /\ new.status # "absent"
  /\ new.pk = old.pk /\ new.owner = old.owner
  /\ new.issued = old.issued /\ new.expires = old.expires /\ new.audited = old.audited

Amended(old, new) ==
  Kept(old, new) /\ (new.status = "active" => old.status = "active")

LEMMA MarkedRow ==
  ASSUME NEW row, RowOK(row), row.status # "absent",
         NEW status \in Statuses \ {"absent"}, NEW stopper \in Stoppers,
         stopper = "install" => status = "terminated" /\ row.owner \in Installs,
         stopper = "others" => status \in {"suspended", "terminated"}
  PROVE  LET new == Marked(row, status, stopper) IN
         /\ Kept(row, new) /\ new.status = status /\ new.stopper = stopper
         /\ new.key = row.key
BY DEF Marked, RowOK, Agent, Kept, Statuses, Stoppers

LEMMA RekeyedRow ==
  ASSUME NEW row, RowOK(row), row.status # "absent",
         NEW key \in {row.owner, Portal, NoKey}
  PROVE  LET new == [row EXCEPT !.key = key] IN
         /\ Amended(row, new) /\ new.status = row.status /\ new.stopper = row.stopper
BY DEF RowOK, Agent, Kept, Amended

\* What a portal mutation makes of the object it read.
LEMMA IntendedRow ==
  ASSUME NEW row, RowOK(row), row.status # "absent", NEW op \in PortalOps, Permits(op, row)
  PROVE  /\ Kept(row, Intended(op, row))
         /\ row.stopper = "others" =>
              \/ Intended(op, row).stopper = "others"
              \/ Intended(op, row).status = "active"
<1>1. CASE op = "update"
  BY <1>1 DEF Intended, Kept, RowOK
<1>2. CASE op = "regenerate"
  BY <1>2, RekeyedRow DEF Intended, Amended
<1>3. CASE op = "suspend"
  BY <1>3, MarkedRow DEF Intended, Statuses, Stoppers
<1>4. CASE op = "activate"
  BY <1>4 DEF Intended, Permits, Kept, RowOK, Agent
<1>5. CASE op = "set_active"
  BY <1>5, MarkedRow DEF Intended, Statuses, Stoppers
<1>6. CASE op = "set_terminated"
  BY <1>6, MarkedRow DEF Intended, Statuses, Stoppers
<1>. QED
  BY <1>1, <1>2, <1>3, <1>4, <1>5, <1>6 DEF PortalOps

-----------------------------------------------------------------------------
(***************************************************************************)
(* Requests, mutations, and what they remember.                            *)
(***************************************************************************)
LEMMA IdleRecords ==
  /\ Idle.op = "idle"
  /\ Unread.stage = "unread" /\ [Unread EXCEPT !.stage = "saved"].stage = "saved"
BY DEF Idle, Unread

LEMMA RequestTypes ==
  ASSUME RequestsOK, NEW r \in Requests, request[r].op # "idle"
  PROVE  request[r] \in RequestRecord
BY IdleRecords DEF RequestsOK

LEMMA PortalTypes ==
  ASSUME PortalsOK, NEW p \in Portals, portal[p].stage = "read"
  PROVE  portal[p] \in PortalRecord
BY IdleRecords DEF PortalsOK

LEMMA EndKeeps ==
  ASSUME RequestsOK, connected' = connected, UNCHANGED request \/ \E r \in Requests : End(r)
  PROVE  /\ RequestsOK'
         /\ \A s \in Requests : request'[s] = request[s] \/ request'[s].op = "idle"
<1>1. CASE UNCHANGED request
  BY <1>1 DEF RequestsOK, Minting, Pending
<1>2. ASSUME NEW r \in Requests, End(r)
      PROVE  /\ RequestsOK'
             /\ \A s \in Requests : request'[s] = request[s] \/ request'[s].op = "idle"
  <2>1. request' \in [Requests -> RequestRecord \cup {Idle}]
    BY <1>2 DEF RequestsOK, End
  <2>2. request'[r].op = "idle" /\ \A s \in Requests \ {r} : request'[s] = request[s]
    BY <1>2, IdleRecords DEF RequestsOK, End
  <2>. QED
    BY <2>1, <2>2 DEF RequestsOK, Minting, Pending
<1>. QED
  BY <1>1, <1>2

\* A recorded change stands while its agent's row and rows are as they were.
LEMMA PendingKept ==
  ASSUME PendingOK,
         \A s \in Requests : Pending(s)' =>
           LET a == request[s].agent IN
           /\ request'[s] = request[s]
           /\ agent'[a] = agent[a] /\ rows'[a] = rows[a]
  PROVE  PendingOK'
<1>1. ASSUME NEW s \in Requests, Pending(s)' PROVE Recorded(s)'
  <2>1. /\ request'[s] = request[s]
        /\ agent'[request[s].agent] = agent[request[s].agent]
        /\ rows'[request[s].agent] = rows[request[s].agent]
    BY <1>1
  <2>2. Recorded(s)
    BY <1>1, <2>1 DEF PendingOK, Pending
  <2>. QED
    BY <2>1, <2>2 DEF Recorded
<1>. QED
  BY <1>1 DEF PendingOK

\* It stands through any step that writes no locked row.
LEMMA PendingUnlocked ==
  ASSUME RequestsOK, PendingOK,
         \A s \in Requests : request'[s] = request[s] \/ ~Pending(s)',
         \A a \in Agents : RowLocked(a) => agent'[a] = agent[a] /\ rows'[a] = rows[a]
  PROVE  PendingOK'
<1>1. ASSUME NEW s \in Requests, Pending(s)'
      PROVE  /\ request'[s] = request[s] /\ request[s].agent \in Agents
             /\ RowLocked(request[s].agent)
  <2>1. request'[s] = request[s] /\ Pending(s)
    BY <1>1 DEF Pending
  <2>. QED
    BY <2>1, RequestTypes, IdleRecords DEF Pending, RowLocked, RequestRecord
<1>. QED
  BY <1>1, PendingKept

LEMMA BeginKeeps ==
  ASSUME RequestsOK, connected' = connected, NEW r \in Requests,
         NEW op \in {"renew", "register", "reregister", "deregister"}, NEW a \in Agents,
         NEW i \in Installs \cup {Bootstrap}, NEW pk \in Nat, Begin(r, op, a, i, pk)
  PROVE  /\ RequestsOK' /\ \A s \in Requests \ {r} : request'[s] = request[s]
         /\ request'[r].op = op /\ request'[r].agent = a /\ request'[r].pk = pk
<1>. DEFINE begun == [Idle EXCEPT !.op = op, !.agent = a, !.install = i, !.pk = pk]
<1>1. begun \in RequestRecord /\ begun.op = op /\ begun.agent = a /\ begun.pk = pk
  BY AbsentRow DEF RequestRecord, Idle, RowOK, Never
<1>2. request'[r] = begun /\ \A s \in Requests \ {r} : request'[s] = request[s]
  BY DEF Begin, RequestsOK
<1>3. request' \in [Requests -> RequestRecord \cup {Idle}]
  BY <1>1 DEF Begin, RequestsOK
<1>. HIDE DEF begun
<1>. QED
  BY <1>1, <1>2, <1>3 DEF RequestsOK, Minting, Pending

LEMMA PortalsKept ==
  ASSUME PortalsOK, UNCHANGED portal, \A b \in Agents : rows[b] <= rows'[b],
         rows \in [Agents -> Nat], rows' \in [Agents -> Nat]
  PROVE  PortalsOK'
<1>1. ASSUME NEW p \in Portals, portal[p].stage = "read"
      PROVE  portal[p].row.pk <= rows'[portal[p].agent]
  <2>1. portal[p].agent \in Agents /\ portal[p].row.pk \in Nat
    BY <1>1, PortalTypes DEF PortalRecord, Agent
  <2>2. portal[p].row.pk <= rows[portal[p].agent]
    BY <1>1 DEF PortalsOK
  <2>. QED
    BY <2>1, <2>2
<1>. QED
  BY <1>1 DEF PortalsOK

\* Nobody takes a row for anyone's but who already did.
LEMMA NothingNew ==
  ASSUME OneOwner, UNCHANGED rows,
         \A a \in Agents : Exists(a)' => Known(a, agent'[a].pk, agent'[a].owner),
         \A p \in Portals : portal'[p].stage = "read" =>
           Known(portal'[p].agent, portal'[p].row.pk, portal'[p].row.owner),
         \A r \in Requests : request'[r].op = "reregister" =>
           Known(request'[r].agent, request'[r].pk, Bootstrap)
  PROVE  OneOwner'
<1>1. ASSUME NEW a \in Agents, NEW k \in Nat, NEW o \in Owners, Known(a, k, o)'
      PROVE  Known(a, k, o)
  BY <1>1 DEF Known
<1>. QED
  BY <1>1 DEF OneOwner

\* The same for a row that is inserted: its primary key is new.
LEMMA OneNew ==
  ASSUME OneOwner, rows \in [Agents -> Nat], NEW a \in Agents, rows' = [rows EXCEPT ![a] = @ + 1],
         ~Exists(a), agent'[a].pk = rows[a] + 1,
         \A b \in Agents \ {a} : agent'[b] = agent[b],
         UNCHANGED portal,
         \A r \in Requests : request'[r] = request[r] \/ request'[r].op = "idle"
  PROVE  OneOwner'
<1>1. ASSUME NEW b \in Agents, NEW k \in Nat, NEW o \in Owners, Known(b, k, o)'
      PROVE  Known(b, k, o) \/ (b = a /\ k = rows[a] + 1 /\ o = agent'[a].owner)
  BY <1>1 DEF Known, Exists
<1>. QED
  BY <1>1 DEF OneOwner

LEMMA StillKnown ==
  /\ \A a \in Agents : Exists(a) => Known(a, agent[a].pk, agent[a].owner)
  /\ \A p \in Portals : portal[p].stage = "read" =>
       Known(portal[p].agent, portal[p].row.pk, portal[p].row.owner)
  /\ \A r \in Requests : request[r].op = "reregister" =>
       Known(request[r].agent, request[r].pk, Bootstrap)
BY DEF Known

-----------------------------------------------------------------------------
(***************************************************************************)
(* Steps.                                                                  *)
(***************************************************************************)
LEMMA InitIInv == Init => IInv
<1>. SUFFICES ASSUME Init PROVE IInv
  OBVIOUS
<1>1. \A a \in Agents : agent[a] = Absent /\ ~Exists(a)
  BY AbsentRow DEF Init, Exists
<1>2. StateTypes /\ RowsOK
  BY <1>1, AbsentRow, KeysAssumption DEF Init, StateTypes, RowsOK, RowOK, Never
<1>3. RequestsOK /\ PortalsOK /\ PendingOK
  BY IdleRecords DEF Init, RequestsOK, PortalsOK, PendingOK, Minting, Pending
<1>4. OneOwner
  BY <1>1, IdleRecords DEF Init, OneOwner, Known
<1>5. DisconnectStopsAll /\ KeyEnds
  BY <1>1, AbsentRow DEF DisconnectStopsAll, KeyEnds
<1>. QED
  BY <1>2, <1>3, <1>4, <1>5 DEF IInv

\* What is asked of a row that is written, unless a portal save is to blame.
Bound(row, installs, limit) ==
  row.owner \in Installs =>
    /\ row.owner \notin installs => row.status # "active"
    /\ row.status # "absent" =>
         /\ row.expires <= row.issued + Lifetime
         /\ row.expires <= row.audited + Grace
         /\ row.audited <= limit

LEMMA BoundRows ==
  ASSUME IInv, NEW a \in Agents \ overridden
  PROVE  Bound(agent[a], connected, shown[a])
BY DEF IInv, DisconnectStopsAll, KeyEnds, Bound, Exists

LEMMA WriteKeeps ==
  ASSUME IInv, NEW a \in Agents, NEW new, RowOK(new), agent' = [agent EXCEPT ![a] = new],
         UNCHANGED <<now, uses, connected>>,
         rows' \in [Agents -> Nat], shown' \in [Agents -> Nat],
         \A b \in Agents \ {a} : /\ rows'[b] = rows[b] /\ shown'[b] = shown[b]
                                 /\ b \in overridden => b \in overridden',
         new.pk <= rows'[a], rows'[a] <= MaxRows,
         a \notin overridden' => Bound(new, connected, shown'[a])
  PROVE  /\ StateTypes' /\ RowsOK' /\ DisconnectStopsAll' /\ KeyEnds'
         /\ agent'[a] = new /\ \A b \in Agents \ {a} : agent'[b] = agent[b]
<1>1. /\ agent' \in [Agents -> Agent] /\ agent'[a] = new
      /\ \A b \in Agents \ {a} : agent'[b] = agent[b]
  BY DEF IInv, StateTypes, RowOK
<1>2. StateTypes'
  BY <1>1 DEF IInv, StateTypes
<1>3. RowsOK'
  BY <1>1 DEF IInv, RowsOK
<1>4. ASSUME NEW b \in Agents \ overridden' PROVE Bound(agent'[b], connected, shown'[b])
  BY <1>1, <1>4, BoundRows
<1>5. DisconnectStopsAll' /\ KeyEnds'
  BY <1>4 DEF DisconnectStopsAll, KeyEnds, Bound, Exists
<1>. QED
  BY <1>1, <1>2, <1>3, <1>5

\* A write to a row that is there, by a request that ends with it or by none.
LEMMA RowWritten ==
  ASSUME IInv, NEW a \in Agents, NEW new, RowOK(new), Write(a, new), Exists(a),
         new.pk = agent[a].pk, new.owner = agent[a].owner,
         UNCHANGED <<now, uses, connected, rows, portal>>,
         UNCHANGED request \/ \E r \in Requests : End(r),
         shown' \in [Agents -> Nat],
         \A b \in Agents \ {a} : /\ shown'[b] = shown[b]
                                 /\ b \in overridden => b \in overridden',
         a \notin overridden' => Bound(new, connected, shown'[a])
  PROVE  IInv'
<1>1. rows' \in [Agents -> Nat] /\ new.pk <= rows'[a] /\ rows'[a] <= MaxRows
  BY DEF IInv, StateTypes, RowsOK
<1>2. /\ StateTypes' /\ RowsOK' /\ DisconnectStopsAll' /\ KeyEnds'
      /\ agent'[a] = new /\ \A b \in Agents \ {a} : agent'[b] = agent[b]
  BY <1>1, WriteKeeps DEF Write
<1>3. /\ RequestsOK'
      /\ \A s \in Requests : request'[s] = request[s] \/ request'[s].op = "idle"
  BY EndKeeps DEF IInv
<1>4. PortalsOK'
  BY PortalsKept DEF IInv, StateTypes
<1>5. OneOwner'
  BY <1>2, <1>3, NothingNew, StillKnown DEF IInv, Exists
<1>6. PendingOK'
  <2>1. \A s \in Requests : request'[s] = request[s] \/ ~Pending(s)'
    BY <1>3 DEF Pending
  <2>. QED
    BY <1>2, <2>1, PendingUnlocked DEF IInv, Write
<1>. QED
  BY <1>2, <1>3, <1>4, <1>5, <1>6 DEF IInv

LEMMA RowAmended ==
  ASSUME IInv, NEW a \in Agents, NEW new, Exists(a), Amended(agent[a], new), Write(a, new),
         UNCHANGED <<now, uses, connected, rows, shown, overridden, portal>>,
         UNCHANGED request \/ \E r \in Requests : End(r)
  PROVE  IInv'
<1>1. /\ RowOK(new) /\ new.pk = agent[a].pk /\ new.owner = agent[a].owner
      /\ shown' \in [Agents -> Nat]
  BY DEF Amended, Kept, IInv, StateTypes
<1>2. a \notin overridden => Bound(new, connected, shown[a])
  BY BoundRows DEF Bound, Amended, Kept, Exists
<1>. QED
  BY <1>1, <1>2, RowWritten

\* A step that writes no row.
LEMMA NoRowWritten ==
  ASSUME IInv, UNCHANGED <<keyVars, connected>>, now' \in 1..MaxTime, uses' \in 0..MaxUses,
         RequestsOK', PortalsOK',
         \A p \in Portals : portal'[p].stage = "read" =>
           Known(portal'[p].agent, portal'[p].row.pk, portal'[p].row.owner),
         \A r \in Requests : request'[r].op = "reregister" =>
           Known(request'[r].agent, request'[r].pk, Bootstrap),
         \A r \in Requests : request'[r] = request[r] \/ ~Pending(r)'
  PROVE  IInv'
<1>1. StateTypes' /\ RowsOK' /\ DisconnectStopsAll' /\ KeyEnds'
  BY DEF IInv, StateTypes, RowsOK, DisconnectStopsAll, KeyEnds, Exists, keyVars
<1>2. OneOwner'
  BY NothingNew, StillKnown DEF IInv, keyVars, Exists
<1>3. PendingOK'
  BY PendingUnlocked DEF IInv, keyVars
<1>. QED
  BY <1>1, <1>2, <1>3 DEF IInv

LEMMA RowCreated ==
  ASSUME IInv, NEW a \in Agents, NEW owner \in Owners, NEW issued \in Nat,
         NEW expires \in Nat, NEW audited \in Nat, Create(a, owner, issued, expires, audited),
         UNCHANGED <<now, uses, connected, overridden, portal>>,
         UNCHANGED request \/ \E r \in Requests : End(r),
         shown' \in [Agents -> Nat], \A b \in Agents \ {a} : shown'[b] = shown[b],
         owner \in Installs =>
           /\ owner \in connected /\ audited <= shown'[a]
           /\ expires <= issued + Lifetime /\ expires <= audited + Grace
  PROVE  IInv'
<1>. DEFINE new == Created(rows[a] + 1, owner, issued, expires, audited)
<1>1. /\ rows \in [Agents -> Nat] /\ rows' = [rows EXCEPT ![a] = @ + 1] /\ ~Exists(a)
      /\ rows[a] + 1 \in Nat /\ rows[a] + 1 <= MaxRows
      /\ agent' = [agent EXCEPT ![a] = new] /\ ~RowLocked(a)
  BY KeysAssumption DEF Create, MayCreate, IInv, StateTypes, Write
<1>2. /\ RowOK(new) /\ new.status = "active" /\ new.pk = rows[a] + 1 /\ new.owner = owner
      /\ new.issued = issued /\ new.expires = expires /\ new.audited = audited
  BY <1>1 DEF Created, RowOK, Agent
<1>3. Bound(new, connected, shown'[a])
  BY <1>2 DEF Bound
<1>4. /\ rows' \in [Agents -> Nat] /\ rows'[a] = rows[a] + 1
      /\ \A b \in Agents : rows[b] <= rows'[b]
      /\ \A b \in Agents \ {a} : rows'[b] = rows[b]
  <2>1. /\ rows \in [Agents -> Nat] /\ rows' = [rows EXCEPT ![a] = @ + 1]
        /\ rows[a] + 1 \in Nat
    BY <1>1
  <2>. QED
    BY <2>1
<1>. HIDE DEF new
<1>5. /\ StateTypes' /\ RowsOK' /\ DisconnectStopsAll' /\ KeyEnds'
      /\ agent'[a] = new /\ \A b \in Agents \ {a} : agent'[b] = agent[b]
  <2>1. /\ new.pk <= rows'[a] /\ rows'[a] <= MaxRows /\ RowOK(new)
        /\ a \notin overridden' => Bound(new, connected, shown'[a])
        /\ agent' = [agent EXCEPT ![a] = new]
        /\ UNCHANGED <<now, uses, connected>> /\ rows' \in [Agents -> Nat]
    BY <1>1, <1>2, <1>3, <1>4
  <2>2. \A b \in Agents \ {a} : /\ rows'[b] = rows[b] /\ shown'[b] = shown[b]
                                /\ b \in overridden => b \in overridden'
    BY <1>4
  <2>. QED
    BY <2>1, <2>2, WriteKeeps
<1>6. /\ RequestsOK'
      /\ \A s \in Requests : request'[s] = request[s] \/ request'[s].op = "idle"
  BY EndKeeps DEF IInv
<1>7. PortalsOK'
  BY <1>1, <1>4, PortalsKept DEF IInv
<1>8. OneOwner'
  BY <1>1, <1>2, <1>5, <1>6, OneNew DEF IInv
<1>9. PendingOK'
  <2>1. \A s \in Requests : request'[s] = request[s] \/ ~Pending(s)'
    BY <1>6 DEF Pending
  <2>. QED
    BY <1>1, <1>4, <1>5, <2>1, PendingUnlocked DEF IInv
<1>. QED
  BY <1>5, <1>6, <1>7, <1>8, <1>9 DEF IInv

-----------------------------------------------------------------------------
\* What the invariant gives of a row.
LEMMA RowTypes ==
  ASSUME IInv, NEW a \in Agents
  PROVE  /\ RowOK(agent[a]) /\ agent[a] \in Agent /\ agent[a].pk \in Nat
         /\ agent[a].owner \in Owners /\ shown[a] \in Nat /\ rows[a] \in Nat /\ now \in Nat
         /\ shown \in [Agents -> Nat]
BY KeysAssumption DEF IInv, StateTypes, RowsOK, RowOK, Agent

LEMMA InstallOwns == \A i \in Installs : i \in Owners /\ i # Bootstrap /\ i # Operator
BY KeysAssumption DEF Owners

LEMMA BeginMintKeeps ==
  ASSUME IInv, NEW r \in Requests, NEW i \in Installs, NEW a \in Agents, BeginMint(r, i, a)
  PROVE  IInv'
<1>. DEFINE begun == [Idle EXCEPT !.op = "mint", !.agent = a, !.install = i, !.pk = 0]
<1>1. /\ UNCHANGED <<now, keyVars, connected, uses, portal>> /\ i \in connected
      /\ \A s \in Requests : Minting(s) => request[s].install # i
      /\ request' = [request EXCEPT ![r] = begun]
  BY DEF BeginMint, Begin, Locked, Minting
<1>2. begun \in RequestRecord /\ begun.op = "mint" /\ begun.install = i
  BY AbsentRow DEF RequestRecord, Idle, RowOK, Never
<1>. HIDE DEF begun
<1>3. request'[r] = begun /\ \A s \in Requests \ {r} : request'[s] = request[s]
  BY <1>1 DEF IInv, RequestsOK
<1>4. RequestsOK'
  <2>1. request' \in [Requests -> RequestRecord \cup {Idle}]
    BY <1>1, <1>2 DEF IInv, RequestsOK
  <2>2. \A s \in Requests : Minting(s)' => request'[s].install \in connected'
    BY <1>1, <1>2, <1>3 DEF IInv, RequestsOK, Minting
  <2>3. \A s, u \in Requests : /\ Minting(s)' /\ Minting(u)'
                               /\ request'[s].install = request'[u].install
                               => s = u
    BY <1>1, <1>2, <1>3 DEF IInv, RequestsOK, Minting
  <2>4. \A s, u \in Requests : /\ Pending(s)' /\ Pending(u)'
                               /\ request'[s].agent = request'[u].agent
                               => s = u
    BY <1>1, <1>2, <1>3 DEF IInv, RequestsOK, Pending
  <2>. QED
    BY <2>1, <2>2, <2>3, <2>4 DEF RequestsOK
<1>5. PortalsOK'
  BY <1>1, PortalsKept DEF IInv, StateTypes, keyVars
<1>6. now' \in 1..MaxTime /\ uses' \in 0..MaxUses
  BY <1>1 DEF IInv, StateTypes
<1>7. \A s \in Requests : /\ request'[s].op = "reregister" => request'[s] = request[s]
                          /\ request'[s] = request[s] \/ ~Pending(s)'
  BY <1>2, <1>3 DEF Pending
<1>. QED
  BY <1>1, <1>4, <1>5, <1>6, <1>7, StillKnown, NoRowWritten

\* A mint or a renewal is recorded: the agent's row is as it was.
LEMMA RecordKeeps ==
  ASSUME IInv, NEW r \in Requests, NEW op \in {"minted", "renewed"}, NEW row \in Agent,
         NEW audited \in Nat, Record(r, op, row, audited), request[r].op \in {"mint", "renew"},
         op = "minted" => request[r].op = "mint", ~RowLocked(request[r].agent),
         PendingRow(row),
         op = "minted" => /\ row.owner = request[r].install
                          /\ MintedOver(row, Held(r), rows[request[r].agent]),
         op = "renewed" => RenewedOf(row, Held(r), now)
  PROVE  IInv'
<1>. DEFINE a == request[r].agent
            held == [request[r] EXCEPT !.op = op, !.row = row, !.at = now]
<1>1. /\ shown' = [shown EXCEPT ![a] = Later(@, audited)]
      /\ UNCHANGED <<now, agent, rows, overridden, connected, uses, portal>>
      /\ request' = [request EXCEPT ![r].op = op, ![r].row = row, ![r].at = now]
  BY DEF Record
<1>2. request[r] \in RequestRecord /\ a \in Agents /\ now \in Nat
  BY RequestTypes, KeysAssumption DEF IInv, RequestRecord, StateTypes
<1>3. request'[r] = held /\ \A s \in Requests \ {r} : request'[s] = request[s]
  BY <1>1 DEF IInv, RequestsOK
<1>4. /\ held \in RequestRecord /\ held.op = op /\ held.row = row /\ held.at = now
      /\ held.agent = a /\ held.install = request[r].install
  <2>1. PICK old \in RequestRecord : old = request[r]
    BY <1>2
  <2>2. PICK new : new = [old EXCEPT !.op = op, !.row = row, !.at = now]
    OBVIOUS
  <2>3. /\ new \in RequestRecord /\ new.op = op /\ new.row = row /\ new.at = now
        /\ new.agent = old.agent /\ new.install = old.install
    BY <1>2, <2>2 DEF RequestRecord
  <2>4. held = new
    BY <2>1, <2>2
  <2>. HIDE DEF held
  <2>. QED
    BY <2>1, <2>3, <2>4
<1>. HIDE DEF held
<1>5. shown' \in [Agents -> Nat] /\ \A b \in Agents : shown[b] <= shown'[b]
  <2>1. shown \in [Agents -> Nat] /\ shown[a] \in Nat
    BY <1>2, RowTypes
  <2>2. PICK later \in Nat : later = Later(shown[a], audited) /\ shown[a] <= later
    BY <2>1 DEF Later
  <2>3. shown' = [shown EXCEPT ![a] = later]
    BY <1>1, <2>2
  <2>. QED
    BY <1>2, <2>1, <2>2, <2>3
<1>6. StateTypes' /\ RowsOK' /\ DisconnectStopsAll'
  BY <1>1, <1>5 DEF IInv, StateTypes, RowsOK, DisconnectStopsAll
<1>7. KeyEnds'
  BY <1>1, <1>5, RowTypes DEF IInv, KeyEnds, Exists, Agent
<1>8. RequestsOK'
  <2>1. request' \in [Requests -> RequestRecord \cup {Idle}]
    BY <1>1, <1>3, <1>4 DEF IInv, RequestsOK
  <2>2. \A s \in Requests : /\ request'[s].install = request[s].install
                            /\ Minting(s)' => Minting(s)
    BY <1>3, <1>4 DEF Minting
  <2>3. \A s \in Requests \ {r} : Pending(s)' =>
          /\ Pending(s) /\ request'[s] = request[s]
          /\ request[s].agent # a
    BY <1>3 DEF Pending, RowLocked
  <2>. QED
    BY <1>1, <1>3, <1>4, <2>1, <2>2, <2>3 DEF IInv, RequestsOK
<1>9. PendingOK'
  <2>1. Recorded(r)'
    BY <1>1, <1>3, <1>4 DEF Recorded, Held
  <2>2. ASSUME NEW s \in Requests \ {r}, Pending(s)' PROVE Recorded(s)'
    <3>1. request'[s] = request[s] /\ Pending(s)
      BY <1>3, <2>2 DEF Pending
    <3>2. Recorded(s)
      BY <3>1 DEF IInv, PendingOK
    <3>. QED
      BY <1>1, <3>1, <3>2 DEF Recorded
  <2>. QED
    BY <2>1, <2>2 DEF PendingOK
<1>10. PortalsOK'
  BY <1>1, PortalsKept DEF IInv, StateTypes
<1>11. OneOwner'
  <2>1. \A s \in Requests : request'[s].op = "reregister" => request'[s] = request[s]
    BY <1>3, <1>4
  <2>. QED
    BY <1>1, <2>1, NothingNew, StillKnown DEF IInv, Exists
<1>. QED
  BY <1>6, <1>7, <1>8, <1>9, <1>10, <1>11 DEF IInv

\* The key a mint gives ends with its lifetime, which the audit record shows.
LEMMA RecordMintKeeps ==
  ASSUME IInv, NEW r \in Requests, NEW ttl \in Ttls, RecordMint(r, ttl)
  PROVE  IInv'
<1>. DEFINE a == request[r].agent
            i == request[r].install
            expires == now + Min({ttl, Lifetime})
            Row(pk) == Created(pk, i, now, expires, expires)
<1>1. a \in Agents /\ i \in Installs /\ i \in Owners /\ request[r].op = "mint"
  <2>1. request[r] \in RequestRecord /\ i \in connected /\ request[r].op = "mint"
    BY RequestTypes DEF RecordMint, IInv, RequestsOK, Minting
  <2>. QED
    BY <2>1, InstallOwns DEF RequestRecord, IInv, StateTypes
<1>2. now \in Nat /\ expires \in Nat /\ expires <= now + Lifetime /\ expires <= expires + Grace
  <2>1. now \in Nat /\ ttl \in Nat /\ Lifetime \in Nat /\ Grace \in Nat
    BY <1>1, RowTypes, KeysAssumption
  <2>2. Min({ttl, Lifetime}) \in Nat /\ Min({ttl, Lifetime}) <= Lifetime
    BY <2>1, MinBound
  <2>. QED
    BY <2>1, <2>2
<1>3. ~RowLocked(a)
  BY DEF RecordMint
<1>. HIDE DEF expires
<1>4. ASSUME NEW pk \in Nat
      PROVE  LET row == Row(pk) IN
             row \in Agent /\ PendingRow(row) /\ row.owner = i /\ row.pk = pk
  <2>. DEFINE row == Row(pk)
  <2>1. /\ RowOK(row) /\ row.status = "active" /\ row.owner = i /\ row.pk = pk
        /\ row.issued = now /\ row.expires = expires /\ row.audited = expires
    BY <1>1, <1>2, <1>4 DEF Created, RowOK, Agent
  <2>. HIDE DEF row
  <2>2. row \in Agent /\ PendingRow(row)
    BY <1>2, <2>1 DEF PendingRow, RowOK
  <2>3. row \in Agent /\ PendingRow(row) /\ row.owner = i /\ row.pk = pk
    BY <2>1, <2>2
  <2>. QED
    BY <2>3 DEF row
<1>5. ASSUME NEW pk \in Nat, Record(r, "minted", Row(pk), expires),
             MintedOver(Row(pk), Held(r), rows[a])
      PROVE  IInv'
  <2>1. PICK row : row = Row(pk)
    OBVIOUS
  <2>2. row \in Agent /\ PendingRow(row) /\ row.owner = i
    BY <1>4, <2>1
  <2>3. Record(r, "minted", row, expires) /\ MintedOver(row, Held(r), rows[a])
    BY <1>5, <2>1
  <2>. HIDE DEF Row
  <2>. QED
    BY <1>1, <1>2, <1>3, <2>2, <2>3, RecordKeeps
<1>6. CASE MayCreate(a) /\ Record(r, "minted", Row(rows[a] + 1), expires)
  <2>1. rows[a] + 1 \in Nat /\ Held(r).status = "absent" /\ rows[a] + 1 <= MaxRows
    BY <1>1, <1>6, RowTypes, KeysAssumption DEF MayCreate, Exists, Held
  <2>2. Row(rows[a] + 1).pk = rows[a] + 1
    BY <1>4, <2>1
  <2>. HIDE DEF Row
  <2>3. MintedOver(Row(rows[a] + 1), Held(r), rows[a])
    BY <2>1, <2>2 DEF MintedOver
  <2>. QED
    BY <1>5, <1>6, <2>1, <2>3
<1>7. CASE /\ Exists(a) /\ Held(r).owner = i /\ ~StoppedByOthers(Held(r))
           /\ Record(r, "minted", Row(Held(r).pk), expires)
  <2>1. Held(r).pk \in Nat /\ RowOK(Held(r)) /\ Held(r).status # "absent"
    BY <1>1, <1>7, RowTypes DEF Held, Exists
  <2>2. Held(r).stopper # "others"
    BY <1>7, <2>1 DEF StoppedByOthers, RowOK
  <2>3. Row(Held(r).pk).pk = Held(r).pk /\ Row(Held(r).pk).owner = i
    BY <1>4, <2>1
  <2>. HIDE DEF Row
  <2>4. MintedOver(Row(Held(r).pk), Held(r), rows[a])
    BY <1>7, <2>1, <2>2, <2>3 DEF MintedOver
  <2>. QED
    BY <1>5, <1>7, <2>1, <2>4
<1>. QED
  BY <1>6, <1>7 DEF RecordMint, expires

\* A renewal keeps the lifetime, and is audited before it passes the grace.
LEMMA RecordRenewKeeps ==
  ASSUME IInv, NEW r \in Requests, NEW ttl \in Ttls, RecordRenew(r, ttl)
  PROVE  IInv'
<1>. DEFINE a == request[r].agent
            old == agent[a]
            expires == Min({now + ttl, old.issued + Lifetime})
            audit == PastGrace(old, expires)
            audited == IF audit THEN expires ELSE old.audited
            new == [old EXCEPT !.expires = expires, !.audited = audited]
<1>1. /\ a \in Agents /\ RowOK(old) /\ old \in Agent /\ Exists(a) /\ Usable(old)
      /\ ~RowLocked(a) /\ request[r].op = "renew" /\ now \in Nat /\ Held(r) = old
  BY RequestTypes, RowTypes
     DEF RecordRenew, IInv, RequestRecord, Renewable, SameRow, Held
<1>2. /\ now + ttl \in Nat /\ old.issued + Lifetime \in Nat /\ old.audited \in Nat
      /\ Grace \in Nat /\ old.expires \in Nat
  BY <1>1, RowTypes, KeysAssumption DEF Agent
<1>3. expires \in Nat /\ expires <= old.issued + Lifetime
  BY <1>2, MinBound
<1>4. \E e \in Nat : Record(r, "renewed", new, e)
  <2>1. Record(r, "renewed", new, IF audit THEN expires ELSE Never)
    BY DEF RecordRenew, Held
  <2>. QED
    BY <1>3, <2>1 DEF Never
<1>5. expires <= audited + Grace
  BY <1>2, <1>3 DEF PastGrace
<1>. HIDE DEF expires
<1>6. audited \in Nat
  BY <1>2, <1>3
<1>. HIDE DEF audited
<1>7. /\ RowOK(new) /\ new.pk = old.pk /\ new.owner = old.owner /\ new.status = "active"
      /\ new.expires = expires /\ new.issued = old.issued /\ new.audited = audited
  BY <1>1, <1>3, <1>6 DEF RowOK, Agent, Usable
<1>. HIDE DEF new
<1>8. PendingRow(new) /\ new \in Agent
  BY <1>3, <1>5, <1>7 DEF PendingRow, RowOK
<1>9. RenewedOf(new, Held(r), now)
  BY <1>1, <1>2, <1>7 DEF RenewedOf, Usable, Expired
<1>. HIDE DEF a, old
<1>. QED
  BY <1>1, <1>4, <1>8, <1>9, RecordKeeps DEF a

\* What is recorded of a request is what its commit writes.
LEMMA CommitRow ==
  ASSUME IInv, NEW r \in Requests, Commit(r)
  PROVE  LET a == request[r].agent
             row == request[r].row
         IN  /\ a \in Agents /\ Recorded(r) /\ RowOK(row) /\ row.status = "active"
             /\ agent' = [agent EXCEPT ![a] = row]
             /\ \A s \in Requests : Pending(s) /\ request[s].agent = a => s = r
<1>1. Pending(r) /\ agent' = [agent EXCEPT ![request[r].agent] = request[r].row]
  BY DEF Commit, Pending
<1>2. request[r] \in RequestRecord
  BY <1>1, RequestTypes, IdleRecords DEF IInv, Pending
<1>3. Recorded(r)
  BY <1>1 DEF IInv, PendingOK
<1>. QED
  BY <1>1, <1>2, <1>3 DEF IInv, RequestsOK, RequestRecord, Recorded, PendingRow

LEMMA CommitKeeps ==
  ASSUME IInv, NEW r \in Requests, Commit(r)
  PROVE  IInv'
<1>. DEFINE a == request[r].agent
            row == request[r].row
<1>1. /\ a \in Agents /\ Recorded(r) /\ RowOK(row) /\ row.status = "active"
      /\ agent' = [agent EXCEPT ![a] = row]
      /\ \A s \in Requests : Pending(s) /\ request[s].agent = a => s = r
  BY CommitRow
<1>2. /\ UNCHANGED <<now, overridden, connected, uses, portal>> /\ End(r)
      /\ request[r].op \in {"minted", "renewed"}
  BY DEF Commit
<1>3. /\ rows' = [rows EXCEPT ![a] = IF Exists(a) THEN @ ELSE row.pk]
      /\ shown' = [shown EXCEPT ![a] =
           IF request[r].op = "minted" \/ row.audited # agent[a].audited
           THEN row.audited ELSE @]
  BY DEF Commit
<1>4. /\ row \in Agent /\ row.pk \in Nat /\ row.audited \in Nat /\ row.expires \in Nat
      /\ row.expires <= row.issued + Lifetime /\ row.expires <= row.audited + Grace
      /\ agent[a].audited \in Nat
  BY <1>1, RowTypes DEF Recorded, PendingRow, RowOK, Agent
<1>5. /\ request[r].op = "minted" =>
           row.owner = request[r].install /\ MintedOver(row, agent[a], rows[a])
      /\ request[r].op = "renewed" => RenewedOf(row, agent[a], request[r].at)
  BY <1>1 DEF Recorded
<1>6. \/ Exists(a) /\ row.pk = agent[a].pk /\ row.owner = agent[a].owner
      \/ ~Exists(a) /\ row.pk = rows[a] + 1 /\ row.pk <= MaxRows
  BY <1>2, <1>5 DEF MintedOver, RenewedOf, Exists
<1>. HIDE DEF a, row
<1>7. /\ shown' \in [Agents -> Nat] /\ \A b \in Agents \ {a} : shown'[b] = shown[b]
      /\ rows' \in [Agents -> Nat] /\ \A b \in Agents \ {a} : rows'[b] = rows[b]
      /\ rows'[a] = IF Exists(a) THEN rows[a] ELSE row.pk
  BY <1>1, <1>3, <1>4, RowTypes DEF IInv, StateTypes
<1>8. row.pk <= rows'[a] /\ rows'[a] <= MaxRows /\ rows[a] <= rows'[a]
  BY <1>1, <1>4, <1>6, <1>7, RowTypes DEF IInv, RowsOK
<1>9. a \notin overridden' => Bound(row, connected, shown'[a])
  <2>. SUFFICES ASSUME a \notin overridden, row.owner \in Installs
                PROVE  row.owner \in connected /\ row.audited <= shown'[a]
    BY <1>2, <1>4 DEF Bound
  <2>1. CASE request[r].op = "minted"
    <3>1. row.owner \in connected
      BY <1>5, <2>1 DEF IInv, RequestsOK, Minting
    <3>2. shown'[a] = row.audited
      BY <1>1, <1>3, <2>1, RowTypes
    <3>. QED
      BY <1>4, <3>1, <3>2
  <2>2. CASE request[r].op = "renewed"
    <3>1. agent[a].status = "active" /\ agent[a].owner = row.owner
      BY <1>5, <2>2 DEF RenewedOf
    <3>2. row.owner \in connected /\ agent[a].audited <= shown[a]
      BY <1>1, <3>1, BoundRows DEF Bound
    <3>3. \/ shown'[a] = row.audited
          \/ shown'[a] = shown[a] /\ row.audited = agent[a].audited
      BY <1>1, <1>3, RowTypes
    <3>. QED
      BY <1>4, <3>2, <3>3
  <2>. QED
    BY <1>2, <2>1, <2>2
<1>10. /\ StateTypes' /\ RowsOK' /\ DisconnectStopsAll' /\ KeyEnds'
       /\ agent'[a] = row /\ \A b \in Agents \ {a} : agent'[b] = agent[b]
  BY <1>1, <1>2, <1>7, <1>8, <1>9, WriteKeeps
<1>11. /\ RequestsOK'
       /\ \A s \in Requests : request'[s] = request[s] \/ request'[s].op = "idle"
       /\ request'[r].op = "idle"
  BY <1>2, EndKeeps, IdleRecords DEF IInv, RequestsOK, End
<1>12. PendingOK'
  <2>1. ASSUME NEW s \in Requests, Pending(s)'
        PROVE  LET b == request[s].agent IN
               /\ request'[s] = request[s]
               /\ agent'[b] = agent[b] /\ rows'[b] = rows[b]
    <3>1. request'[s] = request[s] /\ Pending(s) /\ s # r
      BY <1>11, <2>1 DEF Pending
    <3>2. request[s].agent \in Agents \ {a}
      BY <1>1, <3>1, RequestTypes, IdleRecords DEF IInv, Pending, RequestRecord
    <3>. QED
      BY <1>7, <1>10, <3>1, <3>2
  <2>. QED
    BY <2>1, PendingKept DEF IInv
<1>13. \A b \in Agents : rows[b] <= rows'[b]
  BY <1>7, <1>8, RowTypes
<1>14. PortalsOK'
  BY <1>2, <1>7, <1>13, PortalsKept DEF IInv, StateTypes
<1>15. OneOwner'
  <2>1. CASE Exists(a)
    <3>1. UNCHANGED rows
      BY <1>3, <2>1 DEF IInv, StateTypes
    <3>2. \A b \in Agents : Exists(b)' => Known(b, agent'[b].pk, agent'[b].owner)
      BY <1>6, <1>10, <2>1, StillKnown DEF Exists
    <3>3. \A s \in Requests : request'[s].op = "reregister" => request'[s] = request[s]
      BY <1>11
    <3>. QED
      BY <1>2, <3>1, <3>2, <3>3, NothingNew, StillKnown DEF IInv
  <2>2. CASE ~Exists(a)
    <3>1. rows' = [rows EXCEPT ![a] = @ + 1] /\ agent'[a].pk = rows[a] + 1
      BY <1>3, <1>6, <1>10, <2>2
    <3>. QED
      BY <1>1, <1>2, <1>10, <1>11, <2>2, <3>1, OneNew DEF IInv, StateTypes
  <2>. QED
    BY <2>1, <2>2
<1>. QED
  BY <1>10, <1>11, <1>12, <1>14, <1>15 DEF IInv

\* Requests that only look, or that are refused.
LEMMA LookKeeps ==
  ASSUME IInv, NEW r \in Requests,
         \/ \E i \in Installs, a \in Agents : BeginRenew(r, i, a)
         \/ \E a \in Agents : ClaimToken(r, a) \/ BeginDeregister(r, a)
         \/ MintRefused(r) \/ RenewRefused(r) \/ Fails(r)
  PROVE  IInv'
<1>1. UNCHANGED <<keyVars, connected, now, portal>> /\ uses' \in 0..MaxUses
  BY KeysAssumption
     DEF IInv, StateTypes, BeginRenew, ClaimToken, BeginDeregister, MintRefused, RenewRefused,
         Fails
<1>2. PortalsOK'
  BY <1>1, PortalsKept DEF IInv, StateTypes, keyVars
<1>3. ASSUME RequestsOK',
             \A s \in Requests : request'[s].op = "reregister" =>
               Known(request'[s].agent, request'[s].pk, Bootstrap),
             \A s \in Requests : request'[s] = request[s] \/ ~Pending(s)'
      PROVE  IInv'
  BY <1>1, <1>2, <1>3, StillKnown, NoRowWritten DEF IInv, StateTypes
<1>4. CASE UNCHANGED request \/ End(r)
  <2>1. /\ RequestsOK'
        /\ \A s \in Requests : request'[s] = request[s] \/ request'[s].op = "idle"
    BY <1>1, <1>4, EndKeeps DEF IInv
  <2>2. \A s \in Requests : request'[s] = request[s] \/ ~Pending(s)'
    BY <2>1 DEF Pending
  <2>. QED
    BY <1>3, <2>1, <2>2, StillKnown
<1>5. ASSUME NEW op \in {"renew", "register", "reregister", "deregister"}, NEW a \in Agents,
             NEW i \in Installs \cup {Bootstrap}, Begin(r, op, a, i, agent[a].pk),
             op = "reregister" => Exists(a) /\ agent[a].owner = Bootstrap
      PROVE  IInv'
  <2>1. agent[a].pk \in Nat /\ RequestsOK /\ connected' = connected
    BY <1>1, RowTypes DEF IInv
  <2>2. /\ RequestsOK' /\ \A s \in Requests \ {r} : request'[s] = request[s]
        /\ request'[r].op = op /\ request'[r].agent = a /\ request'[r].pk = agent[a].pk
    BY <1>5, <2>1, BeginKeeps
  <2>3. \A s \in Requests : request'[s] = request[s] \/ ~Pending(s)'
    BY <1>5, <2>2 DEF Pending
  <2>. QED
    BY <1>3, <1>5, <2>2, <2>3, StillKnown
<1>6. ASSUME NEW a \in Agents, ClaimToken(r, a) PROVE IInv'
  BY <1>4, <1>5, <1>6 DEF ClaimToken, MayReregister
<1>7. ASSUME NEW i \in Installs, NEW a \in Agents, BeginRenew(r, i, a) PROVE IInv'
  BY <1>5, <1>7 DEF BeginRenew
<1>8. ASSUME NEW a \in Agents, BeginDeregister(r, a) PROVE IInv'
  BY <1>5, <1>8 DEF BeginDeregister
<1>. QED
  BY <1>4, <1>6, <1>7, <1>8 DEF MintRefused, RenewRefused, Fails

LEMMA RevokeKeeps ==
  ASSUME IInv, NEW i \in Installs, NEW a \in Agents, Revoke(i, a)
  PROVE  IInv'
<1>. DEFINE new == Marked(agent[a], "terminated", "install")
<1>1. Exists(a) /\ RowOK(agent[a]) /\ agent[a].owner \in Installs
  BY RowTypes DEF Revoke, Exists
<1>2. Kept(agent[a], new) /\ new.status = "terminated"
  BY <1>1, MarkedRow DEF Statuses, Stoppers, Exists
<1>3. Amended(agent[a], new)
  BY <1>2 DEF Amended
<1>. QED
  BY <1>1, <1>3, RowAmended DEF Revoke

LEMMA StopsKeep ==
  ASSUME IInv, NEW a \in Agents, Exists(a), NEW status \in {"suspended", "terminated"}
  PROVE  LET new == Marked(agent[a], status, "others")
             revoked == [new EXCEPT !.key = NoKey]
         IN  /\ Amended(agent[a], new) /\ Amended(agent[a], revoked)
             /\ new.stopper = "others" /\ revoked.stopper = "others"
             /\ new.status = status /\ revoked.status = status
<1>. DEFINE new == Marked(agent[a], status, "others")
<1>1. RowOK(agent[a]) /\ agent[a].status # "absent"
  BY RowTypes DEF Exists
<1>2. Kept(agent[a], new) /\ new.status = status /\ new.stopper = "others"
  BY <1>1, MarkedRow DEF Statuses, Stoppers
<1>. HIDE DEF new
<1>3. LET revoked == [new EXCEPT !.key = NoKey] IN
      Amended(new, revoked) /\ revoked.status = status /\ revoked.stopper = "others"
  BY <1>2, RekeyedRow DEF Kept
<1>4. Amended(agent[a], new) /\ Amended(agent[a], [new EXCEPT !.key = NoKey])
  BY <1>2, <1>3 DEF Amended, Kept
<1>. QED
  BY <1>2, <1>3, <1>4 DEF new

LEMMA ControlKeeps ==
  ASSUME IInv, NEW a \in Agents, NEW action \in {"suspend", "revoke"}, Control(a, action)
  PROVE  IInv'
<1>. DEFINE new == IF action = "suspend" THEN Marked(agent[a], "suspended", "others")
                   ELSE [Marked(agent[a], "terminated", "others") EXCEPT !.key = NoKey]
<1>1. Exists(a) /\ Write(a, new)
      /\ UNCHANGED <<now, rows, shown, overridden, connected, uses, request, portal>>
  BY DEF Control
<1>2. Amended(agent[a], new)
  BY <1>1, StopsKeep
<1>. HIDE DEF new
<1>. QED
  BY <1>1, <1>2, RowAmended

LEMMA OperatorDeleteKeeps ==
  ASSUME IInv, NEW a \in Agents, OperatorDelete(a)
  PROVE  IInv'
<1>1. Exists(a) /\ Amended(agent[a], Marked(agent[a], "terminated", "others"))
  BY StopsKeep DEF OperatorDelete
<1>. QED
  BY <1>1, RowAmended DEF OperatorDelete

LEMMA DeregisterKeeps ==
  ASSUME IInv, NEW r \in Requests, Deregister(r)
  PROVE  IInv'
<1>. DEFINE a == request[r].agent
<1>1. /\ UNCHANGED <<now, rows, shown, overridden, connected, uses, portal>> /\ End(r)
      /\ a \in Agents
  BY RequestTypes DEF Deregister, IInv, RequestRecord
<1>2. CASE SameRow(r)
  <2>1. Exists(a) /\ Write(a, Marked(agent[a], "terminated", "others"))
    BY <1>2 DEF Deregister, SameRow, Held
  <2>2. Amended(agent[a], Marked(agent[a], "terminated", "others"))
    BY <1>1, <2>1, StopsKeep
  <2>. QED
    BY <1>1, <2>1, <2>2, RowAmended
<1>3. CASE ~SameRow(r)
  <2>1. UNCHANGED <<keyVars, connected, now, uses, portal>>
    BY <1>1, <1>3 DEF Deregister, keyVars
  <2>2. /\ RequestsOK'
        /\ \A s \in Requests : request'[s] = request[s] \/ request'[s].op = "idle"
    BY <1>1, EndKeeps DEF IInv
  <2>3. PortalsOK'
    BY <2>1, PortalsKept DEF IInv, StateTypes, keyVars
  <2>4. \A s \in Requests : request'[s] = request[s] \/ ~Pending(s)'
    BY <2>2 DEF Pending
  <2>5. \A s \in Requests : request'[s].op = "reregister" => request'[s] = request[s]
    BY <2>2
  <2>. QED
    BY <2>1, <2>2, <2>3, <2>4, <2>5, StillKnown, NoRowWritten DEF IInv, StateTypes
<1>. QED
  BY <1>2, <1>3

\* The row that a registration checked is one the bootstrap token issued.
LEMMA ReregisterKeeps ==
  ASSUME IInv, NEW r \in Requests, Reregister(r)
  PROVE  IInv'
<1>. DEFINE a == request[r].agent
            new == [agent[a] EXCEPT !.key = Bootstrap]
<1>1. /\ UNCHANGED <<now, rows, shown, overridden, connected, uses, portal>> /\ End(r)
      /\ a \in Agents
  BY RequestTypes DEF Reregister, IInv, RequestRecord
<1>2. CASE SameRow(r)
  <2>1. Exists(a) /\ agent[a].pk = request[r].pk /\ Write(a, new)
    BY <1>2 DEF Reregister, SameRow, Held
  <2>2. agent[a].owner = Bootstrap
    <3>1. Known(a, agent[a].pk, Bootstrap) /\ Known(a, agent[a].pk, agent[a].owner)
      BY <1>1, <2>1, StillKnown DEF Reregister
    <3>. QED
      BY <1>1, <3>1, RowTypes DEF IInv, OneOwner, Owners
  <2>3. Amended(agent[a], new)
    BY <1>1, <2>1, <2>2, RowTypes, RekeyedRow DEF Exists
  <2>. HIDE DEF new
  <2>. QED
    BY <1>1, <2>1, <2>3, RowAmended
<1>3. CASE ~SameRow(r)
  <2>1. UNCHANGED <<keyVars, connected, now, uses, portal>>
    BY <1>1, <1>3 DEF Reregister, keyVars
  <2>2. /\ RequestsOK'
        /\ \A s \in Requests : request'[s] = request[s] \/ request'[s].op = "idle"
    BY <1>1, EndKeeps DEF IInv
  <2>3. PortalsOK'
    BY <2>1, PortalsKept DEF IInv, StateTypes, keyVars
  <2>4. \A s \in Requests : request'[s] = request[s] \/ ~Pending(s)'
    BY <2>2 DEF Pending
  <2>5. \A s \in Requests : request'[s].op = "reregister" => request'[s] = request[s]
    BY <2>2
  <2>. QED
    BY <2>1, <2>2, <2>3, <2>4, <2>5, StillKnown, NoRowWritten DEF IInv, StateTypes
<1>. QED
  BY <1>2, <1>3

LEMMA RegisterKeeps ==
  ASSUME IInv, NEW r \in Requests, Register(r)
  PROVE  IInv'
<1>. DEFINE a == request[r].agent
<1>1. /\ UNCHANGED <<now, shown, overridden, connected, uses, portal>> /\ End(r)
      /\ a \in Agents /\ shown' \in [Agents -> Nat]
  BY RequestTypes, RowTypes DEF Register, IInv, RequestRecord, StateTypes
<1>2. CASE Create(a, Bootstrap, Never, Never, Never)
  <2>1. Bootstrap \in Owners /\ Bootstrap \notin Installs /\ Never \in Nat
    BY InstallOwns DEF Owners, Never
  <2>. QED
    BY <1>1, <1>2, <2>1, RowCreated
<1>3. CASE UNCHANGED <<agent, rows>>
  <2>1. UNCHANGED <<keyVars, connected, now, uses, portal>>
    BY <1>1, <1>3 DEF keyVars
  <2>2. /\ RequestsOK'
        /\ \A s \in Requests : request'[s] = request[s] \/ request'[s].op = "idle"
    BY <1>1, EndKeeps DEF IInv
  <2>3. PortalsOK'
    BY <2>1, PortalsKept DEF IInv, StateTypes, keyVars
  <2>4. \A s \in Requests : request'[s] = request[s] \/ ~Pending(s)'
    BY <2>2 DEF Pending
  <2>5. \A s \in Requests : request'[s].op = "reregister" => request'[s] = request[s]
    BY <2>2
  <2>. QED
    BY <2>1, <2>2, <2>3, <2>4, <2>5, StillKnown, NoRowWritten DEF IInv, StateTypes
<1>. QED
  BY <1>2, <1>3 DEF Register

LEMMA OperatorCreateKeeps ==
  ASSUME IInv, NEW a \in Agents, NEW expires \in Nat, OperatorCreate(a, expires)
  PROVE  IInv'
<1>1. Operator \in Owners /\ Operator \notin Installs /\ Never \in Nat
  BY InstallOwns DEF Owners, Never
<1>. QED
  BY <1>1, RowCreated, RowTypes DEF OperatorCreate

LEMMA PortalDeleteKeeps ==
  ASSUME IInv, NEW a \in Agents, PortalDelete(a)
  PROVE  IInv'
<1>1. /\ agent' = [agent EXCEPT ![a] = Absent] /\ ~RowLocked(a)
      /\ shown' = [shown EXCEPT ![a] = Never]
      /\ overridden' = overridden \ {a}
      /\ UNCHANGED <<now, rows, connected, uses, request, portal>>
  BY DEF PortalDelete, Write
<1>2. /\ shown' \in [Agents -> Nat] /\ rows' \in [Agents -> Nat]
      /\ \A b \in Agents \ {a} : rows'[b] = rows[b] /\ shown'[b] = shown[b]
      /\ 0 <= rows'[a] /\ rows'[a] <= MaxRows
  BY <1>1, RowTypes DEF Never, IInv, StateTypes, RowsOK
<1>3. Bound(Absent, connected, shown'[a])
  BY AbsentRow, InstallOwns DEF Bound
<1>4. /\ StateTypes' /\ RowsOK' /\ DisconnectStopsAll' /\ KeyEnds'
      /\ agent'[a] = Absent /\ \A b \in Agents \ {a} : agent'[b] = agent[b]
  BY <1>1, <1>2, <1>3, AbsentRow, WriteKeeps
<1>5. RequestsOK' /\ PortalsOK'
  BY <1>1, EndKeeps, PortalsKept DEF IInv, StateTypes
<1>6. OneOwner'
  BY <1>1, <1>4, AbsentRow, NothingNew, StillKnown DEF IInv, Exists
<1>7. PendingOK'
  BY <1>1, <1>4, PendingUnlocked DEF IInv
<1>. QED
  BY <1>4, <1>5, <1>6, <1>7 DEF IInv

LEMMA PortalReadKeeps ==
  ASSUME IInv, NEW p \in Portals, NEW a \in Agents, PortalRead(p, a)
  PROVE  IInv'
<1>. DEFINE held == [stage |-> "read", agent |-> a, row |-> agent[a]]
<1>1. /\ portal' = [portal EXCEPT ![p] = held] /\ Exists(a)
      /\ UNCHANGED <<now, keyVars, connected, uses, request>>
  BY DEF PortalRead
<1>2. held \in PortalRecord /\ RowOK(agent[a]) /\ agent[a].pk <= rows[a]
  BY RowTypes DEF PortalRecord, IInv, RowsOK
<1>3. portal'[p] = held /\ \A q \in Portals \ {p} : portal'[q] = portal[q]
  BY <1>1 DEF IInv, PortalsOK
<1>4. PortalsOK'
  BY <1>1, <1>2, <1>3 DEF IInv, PortalsOK, keyVars, Exists
<1>5. RequestsOK'
  BY <1>1, EndKeeps DEF IInv
<1>6. \A q \in Portals : portal'[q].stage = "read" =>
        Known(portal'[q].agent, portal'[q].row.pk, portal'[q].row.owner)
  BY <1>1, <1>3, StillKnown
<1>. QED
  BY <1>1, <1>4, <1>5, <1>6, StillKnown, NoRowWritten DEF IInv, StateTypes

\* A portal save that is neither asked to activate nor stale amends the row it
\* read; any other is counted as overriding.
LEMMA PortalSaves ==
  ASSUME IInv, NEW p \in Portals, NEW op \in PortalOps, PortalSave(p, op),
         ~(Exists(portal[p].agent) /\ agent[portal[p].agent].pk # portal[p].row.pk)
  PROVE  LET a == portal[p].agent
             read == portal[p].row
             new == Intended(op, read)
         IN  /\ a \in Agents /\ RowOK(read) /\ read.status # "absent" /\ Kept(read, new)
             /\ Write(a, new) /\ read.pk <= rows[a]
             /\ read.stopper = "others" => new.stopper = "others" \/ new.status = "active"
             /\ overridden' = overridden \cup (IF Overrides(p, op) THEN {a} ELSE {})
             /\ ~Overrides(p, op) => agent[a] = read /\ Amended(read, new)
<1>. DEFINE a == portal[p].agent
            read == portal[p].row
            new == Intended(op, read)
<1>1. a \in Agents /\ RowOK(read) /\ read.status # "absent" /\ read.pk <= rows[a]
  BY PortalTypes DEF PortalSave, IInv, PortalsOK, PortalRecord
<1>2. /\ Permits(op, read) /\ Write(a, new)
      /\ overridden' = overridden \cup (IF Overrides(p, op) THEN {a} ELSE {})
  BY DEF PortalSave
<1>3. /\ Kept(read, new)
      /\ read.stopper = "others" => new.stopper = "others" \/ new.status = "active"
  BY <1>1, <1>2, IntendedRow
<1>4. ~Overrides(p, op) => agent[a] = read /\ Amended(read, new)
  BY <1>3 DEF Overrides, Amended
<1>. QED
  BY <1>1, <1>2, <1>3, <1>4

LEMMA PortalSaveKeeps ==
  ASSUME IInv, NEW p \in Portals, NEW op \in PortalOps, PortalSave(p, op)
  PROVE  IInv'
<1>. DEFINE a == portal[p].agent
            read == portal[p].row
            new == Intended(op, read)
            done == [Unread EXCEPT !.stage = "saved"]
<1>1. /\ portal' = [portal EXCEPT ![p] = done] /\ portal[p].stage = "read"
      /\ UNCHANGED <<now, rows, shown, connected, uses, request>>
  BY DEF PortalSave
<1>2. done.stage = "saved" /\ portal'[p] = done
      /\ \A q \in Portals \ {p} : portal'[q] = portal[q]
  BY <1>1, IdleRecords DEF IInv, PortalsOK
<1>3. /\ PortalsOK'
      /\ \A q \in Portals : portal'[q].stage = "read" =>
           Known(portal'[q].agent, portal'[q].row.pk, portal'[q].row.owner)
  BY <1>1, <1>2, StillKnown DEF IInv, PortalsOK
<1>4. RequestsOK'
  BY <1>1, EndKeeps DEF IInv
<1>5. CASE Exists(a) /\ agent[a].pk # read.pk
  <2>1. UNCHANGED keyVars
    BY <1>1, <1>5 DEF PortalSave, keyVars
  <2>. QED
    BY <1>1, <1>3, <1>4, <2>1, StillKnown, NoRowWritten DEF IInv, StateTypes
<1>6. CASE ~(Exists(a) /\ agent[a].pk # read.pk)
  <2>1. /\ a \in Agents /\ Kept(read, new) /\ Write(a, new) /\ read.pk <= rows[a]
        /\ overridden' = overridden \cup (IF Overrides(p, op) THEN {a} ELSE {})
        /\ ~Overrides(p, op) => agent[a] = read /\ Amended(read, new)
        /\ read.status # "absent"
    BY <1>6, PortalSaves
  <2>2. a \notin overridden' => Bound(new, connected, shown'[a])
    <3>. SUFFICES ASSUME a \notin overridden' PROVE Bound(new, connected, shown[a])
      BY <1>1
    <3>1. a \notin overridden /\ ~Overrides(p, op) /\ agent[a] = read /\ Amended(read, new)
      BY <2>1
    <3>2. Bound(read, connected, shown[a])
      BY <2>1, <3>1, BoundRows
    <3>. QED
      BY <2>1, <3>1, <3>2 DEF Bound, Amended, Kept
  <2>3. /\ RowOK(new) /\ new.pk = read.pk /\ new.owner = read.owner
        /\ rows' \in [Agents -> Nat] /\ shown' \in [Agents -> Nat]
        /\ rows'[a] <= MaxRows /\ rows'[a] = rows[a]
    BY <1>1, <2>1 DEF Kept, IInv, StateTypes, RowsOK
  <2>4. \A b \in Agents \ {a} : /\ rows'[b] = rows[b] /\ shown'[b] = shown[b]
                                /\ b \in overridden => b \in overridden'
    BY <1>1, <2>1
  <2>. HIDE DEF new
  <2>5. /\ StateTypes' /\ RowsOK' /\ DisconnectStopsAll' /\ KeyEnds'
        /\ agent'[a] = new /\ \A b \in Agents \ {a} : agent'[b] = agent[b]
    BY <1>1, <2>1, <2>2, <2>3, <2>4, WriteKeeps DEF Write
  <2>6. Known(a, new.pk, new.owner)
    BY <1>1, <2>3, StillKnown
  <2>7. OneOwner'
    BY <1>1, <1>3, <2>5, <2>6, NothingNew, StillKnown DEF IInv, Exists
  <2>8. PendingOK'
    BY <1>1, <2>1, <2>5, PendingUnlocked DEF IInv, Write
  <2>. QED
    BY <1>3, <1>4, <2>5, <2>7, <2>8 DEF IInv
<1>. QED
  BY <1>5, <1>6

\* A disconnect waits for the mint that holds the install, and stops the rest.
LEMMA DisconnectKeeps ==
  ASSUME IInv, NEW i \in Installs, Disconnect(i)
  PROVE  IInv'
<1>1. /\ ~Locked(i) /\ \A a \in Agents : agent[a].owner = i => ~RowLocked(a)
      /\ connected' = connected \ {i}
      /\ agent' = [a \in Agents |->
                     IF agent[a].owner = i /\ agent[a].status \in {"active", "suspended"}
                     THEN Marked(agent[a], "terminated", "others") ELSE agent[a]]
      /\ UNCHANGED <<now, rows, shown, overridden, uses, request, portal>>
  BY DEF Disconnect, DisconnectUnlocked
<1>2. ASSUME NEW a \in Agents
      PROVE  /\ RowOK(agent'[a]) /\ agent'[a].pk = agent[a].pk
             /\ agent'[a].owner = agent[a].owner /\ (Exists(a)' => Exists(a))
             /\ a \notin overridden => Bound(agent'[a], connected', shown[a])
  <2>1. CASE agent[a].owner = i /\ agent[a].status \in {"active", "suspended"}
    <3>1. agent'[a] = Marked(agent[a], "terminated", "others") /\ Exists(a)
      BY <1>1, <2>1 DEF Exists
    <3>2. Amended(agent[a], agent'[a]) /\ agent'[a].status = "terminated"
      BY <3>1, StopsKeep
    <3>. QED
      BY <1>1, <3>1, <3>2, BoundRows DEF Amended, Kept, Bound, Exists
  <2>2. CASE ~(agent[a].owner = i /\ agent[a].status \in {"active", "suspended"})
    BY <1>1, <2>2, RowTypes, BoundRows DEF Bound, Exists
  <2>. QED
    BY <2>1, <2>2
<1>3. StateTypes' /\ RowsOK'
  BY <1>1, <1>2 DEF IInv, StateTypes, RowsOK, RowOK
<1>4. RequestsOK'
  BY <1>1 DEF IInv, RequestsOK, Locked, Minting, Pending
<1>5. PortalsOK'
  BY <1>1, PortalsKept DEF IInv, StateTypes
<1>6. OneOwner'
  BY <1>1, <1>2, NothingNew, StillKnown DEF IInv
<1>7. DisconnectStopsAll' /\ KeyEnds'
  BY <1>1, <1>2 DEF DisconnectStopsAll, KeyEnds, Bound, Exists
<1>8. PendingOK'
  BY <1>1, PendingUnlocked DEF IInv
<1>. QED
  BY <1>3, <1>4, <1>5, <1>6, <1>7, <1>8 DEF IInv

LEMMA TickKeeps ==
  ASSUME IInv, Tick
  PROVE  IInv'
<1>1. UNCHANGED <<keyVars, connected, uses, request, portal>> /\ now' \in 1..MaxTime
  BY KeysAssumption DEF Tick, IInv, StateTypes
<1>2. RequestsOK' /\ PortalsOK'
  BY <1>1, EndKeeps, PortalsKept DEF IInv, StateTypes, keyVars
<1>. QED
  BY <1>1, <1>2, StillKnown, NoRowWritten DEF IInv, StateTypes

LEMMA RequestStepKeeps ==
  ASSUME IInv, NEW r \in Requests, RequestStep(r)
  PROVE  IInv'
BY BeginMintKeeps, RecordMintKeeps, RecordRenewKeeps, CommitKeeps, LookKeeps, ReregisterKeeps,
   RegisterKeeps, DeregisterKeeps DEF RequestStep

LEMMA AdminStepKeeps ==
  ASSUME IInv, NEW a \in Agents, AdminStep(a)
  PROVE  IInv'
<1>1. \A expires \in {Never} \cup {now + ttl : ttl \in Ttls} : expires \in Nat
  BY KeysAssumption DEF Never, IInv, StateTypes
<1>. QED
  BY <1>1, ControlKeeps, OperatorDeleteKeeps, OperatorCreateKeeps, PortalDeleteKeeps
     DEF AdminStep

LEMMA Inductive == IInv /\ [Next]_vars => IInv'
<1>. SUFFICES ASSUME IInv, [Next]_vars PROVE IInv'
  OBVIOUS
<1>1. CASE UNCHANGED vars
  <2>1. RequestsOK' /\ PortalsOK'
    BY <1>1, EndKeeps, PortalsKept DEF IInv, StateTypes, vars, keyVars
  <2>. QED
    BY <1>1, <2>1, StillKnown, NoRowWritten DEF IInv, StateTypes, vars
<1>2. CASE Next
  BY <1>2, RequestStepKeeps, AdminStepKeeps, DisconnectKeeps, RevokeKeeps, PortalReadKeeps,
     PortalSaveKeeps, TickKeeps DEF Next
<1>. QED
  BY <1>1, <1>2

LEMMA Invariance == Spec => []IInv
BY InitIInv, Inductive, PTL DEF Spec

-----------------------------------------------------------------------------
(***************************************************************************)
(* The properties.                                                         *)
(***************************************************************************)

\* Every reachable state is well typed, astrolift_revoked_at marks only what an
\* install stopped last, and an install has one mint at a time.
THEOREM TypeCorrect == Spec => []TypeOK
<1>1. IInv => TypeOK
  <2>. SUFFICES ASSUME IInv PROVE TypeOK
    OBVIOUS
  <2>1. \A a \in Agents : /\ agent[a].pk <= rows[a] /\ rows[a] <= MaxRows
                          /\ agent[a].revokedAt =>
                               /\ agent[a].status = "terminated"
                               /\ agent[a].owner \in Installs
                               /\ agent[a].stopper = "install"
    BY DEF IInv, RowsOK, RowOK
  <2>2. \A r \in Requests : request[r] # Idle => request[r].agent \in Agents
    BY DEF IInv, RequestsOK, RequestRecord
  <2>3. ASSUME NEW i \in Installs
        PROVE  Cardinality({r \in Requests :
                 request[r].op \in {"mint", "minted"} /\ request[r].install = i}) <= 1
    <3>. DEFINE minting == {r \in Requests :
                  request[r].op \in {"mint", "minted"} /\ request[r].install = i}
    <3>1. \A r, s \in minting : r = s
      BY DEF IInv, RequestsOK, Minting
    <3>2. minting = {} \/ \E r : minting = {r}
      BY <3>1
    <3>3. Cardinality({}) = 0 /\ \A r : Cardinality({r}) = 1
      BY FS_EmptySet, FS_Singleton
    <3>. HIDE DEF minting
    <3>4. Cardinality(minting) = 0 \/ Cardinality(minting) = 1
      BY <3>2, <3>3, Zenon
    <3>. QED
      BY <3>4 DEF minting
  <2>. QED
    BY <2>1, <2>2, <2>3 DEF TypeOK, IInv, StateTypes
<1>. QED
  BY <1>1, Invariance, PTL

\* A bootstrap token never replaces a key an operator or an install issued, nor
\* an install one it did not mint, through any deletions and new rows between
\* the statements of a request: _refuse_reregister and mint_agent_key.
THEOREM KeysStayWithOwner == Spec => []KeyOfOwner
<1>1. IInv => KeyOfOwner
  BY DEF IInv, RowsOK, RowOK, KeyOfOwner, Exists
<1>. QED
  BY <1>1, Invariance, PTL

\* Disconnecting an install leaves none of its agents running, also not one
\* that was being minted: disconnect_install's lock on the install's row.
THEOREM DisconnectsStopAgents == Spec => []DisconnectStopsAll
BY Invariance, PTL DEF IInv

\* An install's live key lasts no longer than its lifetime, nor past the latest
\* expiry that the audit chain shows, from the last record on whose change took
\* effect, by more than the grace: over any number of mints and renewals, and
\* of ones that were recorded and then lost.
THEOREM KeysEnd == Spec => []KeyBounded
<1>1. IInv => KeyBounded
  <2>. SUFFICES ASSUME IInv, NEW a \in Agents \ overridden, agent[a].owner \in Installs, Exists(a)
                PROVE  /\ agent[a].expires <= agent[a].issued + Lifetime
                       /\ agent[a].expires <= shown[a] + Grace
    BY DEF KeyBounded
  <2>1. /\ agent[a].expires <= agent[a].issued + Lifetime
        /\ agent[a].expires <= agent[a].audited + Grace /\ agent[a].audited <= shown[a]
    BY DEF IInv, KeyEnds
  <2>2. /\ agent[a].expires \in Nat /\ agent[a].audited \in Nat /\ shown[a] \in Nat
        /\ Grace \in Nat
    BY RowTypes, KeysAssumption DEF Agent
  <2>. QED
    BY <2>1, <2>2
<1>. QED
  BY <1>1, Invariance, PTL

Stands(a) ==
  /\ agent[a].stopper = "others" => agent'[a].stopper = "others"
  /\ ~Usable(agent[a]) /\ Usable(agent[a])' => MintedNow(a) \/ RenewedLive(a)

LEMMA SameStands ==
  ASSUME IInv, NEW a \in Agents, agent'[a] = agent[a], now <= now', now' \in Nat
  PROVE  Stands(a)
BY RowTypes DEF Stands, Usable, Expired, Agent

\* A row that is stopped, or keeps its status and its expiry.
LEMMA AmendedStands ==
  ASSUME IInv, NEW a \in Agents, now' = now, Amended(agent[a], agent'[a]),
         agent[a].stopper = "others" => agent'[a].stopper = "others"
  PROVE  Stands(a)
BY DEF Stands, Usable, Expired, Amended, Kept

LEMMA WrittenRow ==
  ASSUME IInv, NEW a \in Agents, NEW b, NEW new, Write(b, new)
  PROVE  agent'[a] = IF a = b THEN new ELSE agent[a]
BY DEF IInv, StateTypes, Write

LEMMA CommitStands ==
  ASSUME IInv, NEW r \in Requests, Commit(r), NEW a \in Agents, Exists(a)
  PROVE  Stands(a)
<1>. DEFINE b == request[r].agent
            row == request[r].row
<1>1. /\ b \in Agents /\ Recorded(r) /\ RowOK(row) /\ row.status = "active"
      /\ agent' = [agent EXCEPT ![b] = row]
  BY CommitRow
<1>2. /\ now' = now /\ now \in Nat /\ request'[r] = Idle
      /\ request[r].op \in {"minted", "renewed"}
  BY RowTypes DEF Commit, End, IInv, RequestsOK
<1>3. CASE a # b
  BY <1>1, <1>2, <1>3, SameStands DEF IInv, StateTypes
<1>4. CASE a = b /\ request[r].op = "minted"
  <2>1. agent[a].stopper # "others"
    BY <1>1, <1>4 DEF Recorded, MintedOver, Exists
  <2>2. MintedNow(a)
    BY <1>2, <1>4 DEF MintedNow
  <2>. QED
    BY <2>1, <2>2 DEF Stands
<1>5. CASE a = b /\ request[r].op = "renewed"
  <2>1. /\ agent[a].status = "active"
        /\ agent[a].expires = Never \/ agent[a].expires > request[r].at
    BY <1>1, <1>5 DEF Recorded, RenewedOf
  <2>2. agent[a].stopper # "others"
    BY <2>1, RowTypes DEF RowOK
  <2>3. ~Usable(agent[a]) => RenewedLive(a)
    BY <1>2, <1>5, <2>1 DEF RenewedLive, Usable, Expired
  <2>. QED
    BY <2>2, <2>3 DEF Stands
<1>. QED
  BY <1>2, <1>3, <1>4, <1>5

\* Whoever stops an agent, or gives it another bootstrap key, amends its row.
LEMMA AmendingStands ==
  ASSUME IInv, NEW b \in Agents, NEW new, Exists(b), Write(b, new), Amended(agent[b], new),
         agent[b].stopper = "others" => new.stopper = "others", now' = now, NEW a \in Agents
  PROVE  Stands(a)
<1>1. CASE a # b
  BY <1>1, WrittenRow, SameStands, RowTypes
<1>2. CASE a = b
  BY <1>2, WrittenRow, AmendedStands
<1>. QED
  BY <1>1, <1>2

LEMMA RequestStepStands ==
  ASSUME IInv, NEW r \in Requests, RequestStep(r), NEW a \in Agents, Exists(a)
  PROVE  Stands(a)
<1>. DEFINE b == request[r].agent
<1>1. now' = now /\ now \in Nat
  BY RowTypes DEF RequestStep, BeginMint, BeginRenew, RecordMint, RecordRenew, Record,
     MintRefused, RenewRefused, Commit, Fails, ClaimToken, BeginDeregister, Reregister, Register,
     Deregister
<1>2. CASE UNCHANGED agent
  BY <1>1, <1>2, SameStands
<1>3. CASE Register(r) /\ ~UNCHANGED agent
  <2>1. agent'[a] = agent[a]
    BY <1>3, WrittenRow DEF Register, Create, MayCreate
  <2>. QED
    BY <1>1, <2>1, SameStands
<1>4. CASE Deregister(r) /\ SameRow(r)
  <2>. DEFINE new == Marked(agent[b], "terminated", "others")
  <2>1. b \in Agents /\ Exists(b) /\ Write(b, new)
    BY <1>4, RequestTypes DEF Deregister, SameRow, Held, IInv, RequestRecord
  <2>2. Amended(agent[b], new) /\ new.stopper = "others"
    BY <2>1, StopsKeep
  <2>. HIDE DEF new
  <2>. QED
    BY <1>1, <2>1, <2>2, AmendingStands
<1>5. CASE Reregister(r) /\ SameRow(r)
  <2>. DEFINE new == [agent[b] EXCEPT !.key = Bootstrap]
  <2>1. b \in Agents /\ Exists(b) /\ Write(b, new) /\ agent[b].pk = request[r].pk
    BY <1>5, RequestTypes DEF Reregister, SameRow, Held, IInv, RequestRecord
  <2>2. agent[b].owner = Bootstrap
    <3>1. Known(b, agent[b].pk, Bootstrap) /\ Known(b, agent[b].pk, agent[b].owner)
      BY <1>5, <2>1, StillKnown DEF Reregister
    <3>. QED
      BY <2>1, <3>1, RowTypes DEF IInv, OneOwner, Owners
  <2>3. Amended(agent[b], new) /\ new.stopper = agent[b].stopper
    BY <2>1, <2>2, RowTypes, RekeyedRow DEF Exists
  <2>. HIDE DEF new
  <2>. QED
    BY <1>1, <2>1, <2>3, AmendingStands
<1>6. \/ UNCHANGED agent
      \/ Register(r) /\ ~UNCHANGED agent
      \/ Deregister(r) /\ SameRow(r)
      \/ Reregister(r) /\ SameRow(r)
      \/ Commit(r)
  BY DEF RequestStep, BeginMint, BeginRenew, RecordMint, RecordRenew, Record, MintRefused,
     RenewRefused, Fails, ClaimToken, BeginDeregister, Reregister, Deregister, keyVars
<1>. QED
  BY <1>2, <1>3, <1>4, <1>5, <1>6, CommitStands

LEMMA AdminStepStands ==
  ASSUME IInv, NEW b \in Agents, AdminStep(b), NEW a \in Agents, StaysTheRow(a)
  PROVE  Stands(a)
<1>1. now' = now /\ now \in Nat /\ Exists(a)
  BY RowTypes DEF AdminStep, Control, OperatorDelete, OperatorCreate, PortalDelete, StaysTheRow
<1>2. ASSUME NEW action \in {"suspend", "revoke"}, Control(b, action) PROVE Stands(a)
  <2>. DEFINE new == IF action = "suspend" THEN Marked(agent[b], "suspended", "others")
                     ELSE [Marked(agent[b], "terminated", "others") EXCEPT !.key = NoKey]
  <2>1. Exists(b) /\ Write(b, new)
    BY <1>2 DEF Control
  <2>2. Amended(agent[b], new) /\ new.stopper = "others"
    BY <2>1, StopsKeep
  <2>. HIDE DEF new
  <2>. QED
    BY <1>1, <2>1, <2>2, AmendingStands
<1>3. CASE OperatorDelete(b)
  <2>. DEFINE new == Marked(agent[b], "terminated", "others")
  <2>1. Exists(b) /\ Write(b, new)
    BY <1>3 DEF OperatorDelete
  <2>2. Amended(agent[b], new) /\ new.stopper = "others"
    BY <2>1, StopsKeep
  <2>. HIDE DEF new
  <2>. QED
    BY <1>1, <2>1, <2>2, AmendingStands
<1>4. ASSUME NEW expires, OperatorCreate(b, expires) PROVE Stands(a)
  <2>1. agent'[a] = agent[a]
    BY <1>1, <1>4, WrittenRow DEF OperatorCreate, Create, MayCreate
  <2>. QED
    BY <1>1, <2>1, SameStands
<1>5. CASE PortalDelete(b)
  <2>1. agent'[a] = agent[a]
    BY <1>5, WrittenRow, AbsentRow DEF PortalDelete, StaysTheRow, Exists
  <2>. QED
    BY <1>1, <2>1, SameStands
<1>. QED
  BY <1>2, <1>3, <1>4, <1>5 DEF AdminStep

LEMMA InstallStepStands ==
  ASSUME IInv, NEW i \in Installs, NEW a \in Agents,
         Disconnect(i) \/ \E b \in Agents : Revoke(i, b)
  PROVE  Stands(a)
<1>1. now' = now /\ now \in Nat
  BY RowTypes DEF Disconnect, DisconnectUnlocked, Revoke
<1>2. CASE Disconnect(i)
  <2>1. agent'[a] = IF agent[a].owner = i /\ agent[a].status \in {"active", "suspended"}
                    THEN Marked(agent[a], "terminated", "others") ELSE agent[a]
    BY <1>2 DEF Disconnect, DisconnectUnlocked
  <2>2. CASE agent'[a] = agent[a]
    BY <1>1, <2>2, SameStands
  <2>3. CASE agent'[a] = Marked(agent[a], "terminated", "others") /\ Exists(a)
    BY <1>1, <2>3, StopsKeep, AmendedStands
  <2>. QED
    BY <2>1, <2>2, <2>3 DEF Exists
<1>3. ASSUME NEW b \in Agents, Revoke(i, b) PROVE Stands(a)
  <2>. DEFINE new == Marked(agent[b], "terminated", "install")
  <2>1. /\ Exists(b) /\ RowOK(agent[b]) /\ agent[b].owner \in Installs /\ Write(b, new)
        /\ agent[b].stopper # "others"
    BY <1>3, RowTypes DEF Revoke, Exists, RowOK
  <2>2. Kept(agent[b], new) /\ new.status = "terminated"
    BY <2>1, MarkedRow DEF Statuses, Stoppers, Exists
  <2>3. Amended(agent[b], new)
    BY <2>2 DEF Amended
  <2>. HIDE DEF new
  <2>. QED
    BY <1>1, <2>1, <2>3, AmendingStands
<1>. QED
  BY <1>2, <1>3

LEMMA PortalStands ==
  ASSUME IInv, NEW p \in Portals, NEW op \in PortalOps, PortalSave(p, op),
         NEW a \in Agents, Exists(a), ~OverriddenNow(a)
  PROVE  Stands(a)
<1>. DEFINE b == portal[p].agent
            read == portal[p].row
            new == Intended(op, read)
<1>1. /\ now' = now /\ now \in Nat /\ portal[p].stage = "read" /\ portal'[p].stage = "saved"
  BY RowTypes, IdleRecords DEF PortalSave, IInv, PortalsOK
<1>2. CASE Exists(b) /\ agent[b].pk # read.pk
  BY <1>1, <1>2, SameStands DEF PortalSave
<1>3. CASE ~(Exists(b) /\ agent[b].pk # read.pk)
  <2>1. /\ b \in Agents /\ Write(b, new)
        /\ read.stopper = "others" => new.stopper = "others" \/ new.status = "active"
    BY <1>3, PortalSaves
  <2>2. CASE a # b
    BY <1>1, <2>1, <2>2, WrittenRow, SameStands
  <2>3. CASE a = b
    <3>1. agent[a] = read /\ agent'[a] = new /\ new.status # "active"
      BY <1>1, <2>1, <2>3, WrittenRow DEF OverriddenNow
    <3>. QED
      BY <2>1, <3>1 DEF Stands, Usable
  <2>. QED
    BY <2>2, <2>3
<1>. QED
  BY <1>2, <1>3

\* A stop by anyone but the install stands through every mint, renewal and
\* registration under way, and an expired key takes a fresh mint; only the
\* portal may do otherwise, asked to activate or with an object gone stale.
THEOREM StopsStand == Spec => StopStands
<1>1. ASSUME IInv, [Next]_vars, NEW a \in Agents, StaysTheRow(a), ~OverriddenNow(a)
      PROVE  Stands(a)
  <2>1. Exists(a) /\ now \in Nat
    BY <1>1, RowTypes DEF StaysTheRow
  <2>2. CASE UNCHANGED vars
    BY <1>1, <2>1, <2>2, SameStands DEF vars, keyVars
  <2>3. CASE Tick
    BY <1>1, <2>1, <2>3, SameStands DEF Tick, keyVars
  <2>4. ASSUME NEW p \in Portals, NEW b \in Agents, PortalRead(p, b) PROVE Stands(a)
    BY <1>1, <2>1, <2>4, SameStands DEF PortalRead, keyVars
  <2>. QED
    BY <1>1, <2>1, <2>2, <2>3, <2>4, RequestStepStands, AdminStepStands, InstallStepStands,
       PortalStands DEF Next
<1>2. IInv /\ [Next]_vars =>
        [\A a \in Agents : StaysTheRow(a) /\ ~OverriddenNow(a) =>
           /\ agent[a].stopper = "others" => agent'[a].stopper = "others"
           /\ ~Usable(agent[a]) /\ Usable(agent[a])' =>
                MintedNow(a) \/ RenewedLive(a)]_vars
  BY <1>1 DEF Stands
<1>. QED
  BY <1>2, Invariance, PTL DEF Spec, StopStands
=============================================================================
