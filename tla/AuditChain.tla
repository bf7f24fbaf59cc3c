----------------------------- MODULE AuditChain -----------------------------
(***************************************************************************)
(* One tenant's hash-chained audit log: appends, verification, retention   *)
(* and legal holds.                                                        *)
(*   models/audit.py, services/audit_chain.py, services/retention.py,      *)
(*   models/retention_policy.py LegalHold.save                             *)
(*                                                                         *)
(* SHA-256 is taken to be injective, so a hash is what it was made of: an  *)
(* entry hash is a content (which stands for every hashed field), and a    *)
(* chain hash is the sequence of the entry hashes up to it.  Signed values *)
(* are what was signed.                                                    *)
(***************************************************************************)
EXTENDS Integers, Sequences, FiniteSets

CONSTANTS
  Contents,     \* what a record can say
  Writers,      \* transactions that append one record each
  Nobody,       \* the holder of the unlocked head row
  MaxSequence,  \* bound on the records appended
  MaxClock      \* bound on the retention periods that pass

ASSUME AuditAssumption ==
  /\ Nobody \notin Writers
  /\ MaxSequence \in Nat
  /\ MaxClock \in Nat /\ MaxClock >= 1

VARIABLES
  clock,      \* the current retention period: records of earlier ones expire
  rows,       \* the tenant's AuditLog rows
  head,       \* the committed AuditChainHead row
  witnesses,  \* AuditRetentionProof: <<sequence, chain hash>> of pruned records
  lock,       \* who holds the head row (or its uncommitted insert)
  writer,     \* [Writers -> Appending]
  retention,  \* the retention run, which holds tenant_retention_lock
  hold,       \* an active legal hold covers the tenant
  pinned,     \* checkpoints an operator keeps outside the database
  exported,   \* history: an archive policy has removed rows
  appended,   \* history: the contents appended, in order
  corrupted   \* history: a row was changed behind the application's back

vars == <<clock, rows, head, witnesses, lock, writer, retention, hold, pinned,
          appended, exported, corrupted>>

Hashes    == UNION {[1..n -> Contents] : n \in 0..MaxSequence}
Genesis   == << >>
Positions == 1..MaxSequence
Clocks    == 1..MaxClock

Row == [sequence : Positions, content : Contents, entry : Contents,
        chain : Hashes, stamp : Clocks]

HeadRow == [exists : BOOLEAN, last : 0..MaxSequence, lastHash : Hashes,
         archived : 0..MaxSequence, archivedHash : Hashes]

NewHead == [exists |-> FALSE, last |-> 0, lastHash |-> Genesis,
            archived |-> 0, archivedHash |-> Genesis]

Appending == [stage : {"idle", "create", "lock", "locked"},
              content : Contents, stamp : Clocks, head : HeadRow]

Checkpoint == [sequence : 0..MaxSequence, hash : Hashes]

Prefix(s, n) == SubSeq(s, 1, n)

Init ==
  /\ clock = 1
  /\ rows = {}
  /\ head = NewHead
  /\ witnesses = {}
  /\ lock = Nobody
  /\ writer \in [Writers -> {[stage |-> "idle", content |-> c, stamp |-> 1,
                              head |-> NewHead] : c \in Contents}]
  /\ retention = "idle"
  /\ hold = FALSE
  /\ pinned = {}
  /\ appended = << >>
  /\ exported = FALSE
  /\ corrupted = FALSE

-----------------------------------------------------------------------------
(***************************************************************************)
(* AuditLog.save: the timestamp is taken first, then the head is locked,   *)
(* and row and head commit together.  The first record of a tenant also    *)
(* inserts the head; of two that try, one waits and then finds it there.   *)
(***************************************************************************)
BeginAppend(w, content) ==
  /\ writer[w].stage = "idle"
  /\ Len(appended) < MaxSequence
  /\ writer' = [writer EXCEPT ![w] =
                  [stage |-> IF head.exists THEN "lock" ELSE "create",
                   content |-> content, stamp |-> clock, head |-> NewHead]]
  /\ UNCHANGED <<clock, rows, head, witnesses, lock, retention, hold, pinned,
                 appended, exported, corrupted>>

\* The insert waits for another's uncommitted one; a committed one refuses it.
CreateHead(w) ==
  /\ writer[w].stage = "create"
  /\ lock = Nobody
  /\ IF head.exists
     THEN /\ writer' = [writer EXCEPT ![w].stage = "lock"]
          /\ UNCHANGED lock
     ELSE /\ writer' = [writer EXCEPT ![w].stage = "locked"]
          /\ lock' = w
  /\ UNCHANGED <<clock, rows, head, witnesses, retention, hold, pinned,
                 appended, exported, corrupted>>

\* Faulty: reads the head without waiting for its lock.
ReadHead(w) ==
  /\ writer[w].stage = "lock"
  /\ writer' = [writer EXCEPT ![w].stage = "locked", ![w].head = head]
  /\ UNCHANGED <<clock, rows, head, witnesses, lock, retention, hold, pinned,
                 appended, exported, corrupted>>

LockHead(w) ==
  /\ writer[w].stage = "lock"
  /\ lock = Nobody
  /\ lock' = w
  /\ writer' = [writer EXCEPT ![w].stage = "locked", ![w].head = head]
  /\ UNCHANGED <<clock, rows, head, witnesses, retention, hold, pinned,
                 appended, exported, corrupted>>

\* compute_hashes, the insert and the new head, from the head as locked.  The
\* unique constraint refuses a sequence that is taken (then: RollbackAppend).
CommitAppend(w) ==
  LET read     == writer[w].head
      content  == writer[w].content
      sequence == read.last + 1
      chain    == Append(read.lastHash, content)
  IN  /\ writer[w].stage = "locked"
      /\ sequence <= MaxSequence
      /\ \A r \in rows : r.sequence # sequence
      /\ rows' = rows \cup {[sequence |-> sequence, content |-> content,
                             entry |-> content, chain |-> chain,
                             stamp |-> writer[w].stamp]}
      /\ head' = [head EXCEPT !.exists = TRUE, !.last = sequence,
                              !.lastHash = chain]
      /\ appended' = Append(appended, content)
      /\ lock' = Nobody
      /\ writer' = [writer EXCEPT ![w].stage = "idle"]
      /\ UNCHANGED <<clock, witnesses, retention, hold, pinned, exported, corrupted>>

RollbackAppend(w) ==
  /\ writer[w].stage # "idle"
  /\ lock' = IF lock = w THEN Nobody ELSE lock
  /\ writer' = [writer EXCEPT ![w].stage = "idle"]
  /\ UNCHANGED <<clock, rows, head, witnesses, retention, hold, pinned,
                 appended, exported, corrupted>>

-----------------------------------------------------------------------------
(***************************************************************************)
(* verify_chain, from a sequence to the head, with the head row locked.    *)
(* The records from `start` on must be there without a gap, hash to what   *)
(* they say, link to the one before, and end where the head says.          *)
(***************************************************************************)
At(n) == {r \in rows : r.sequence = n}

Start(from) == IF from > head.archived + 1 THEN from ELSE head.archived + 1

Predecessors(start) ==  \* the chain hashes the record at `start` may follow
  IF start = head.archived + 1 THEN {head.archivedHash}
  ELSE {r.chain : r \in At(start - 1)}

ChainValid(from) ==
  LET start == Start(from)
      walked == {r \in rows : r.sequence >= start}
      before(r) == IF r.sequence = start THEN Predecessors(start)
                   ELSE {p.chain : p \in At(r.sequence - 1)}
  IN  /\ Predecessors(start) # {}
      /\ {r.sequence : r \in walked} = start..head.last
      /\ \A r \in walked :
           /\ r.entry = r.content
           /\ \E hash \in before(r) : r.chain = Append(hash, r.entry)
      /\ IF walked = {} THEN head.lastHash \in Predecessors(start)
         ELSE \E r \in At(head.last) : r.chain = head.lastHash

\* Faulty: looks for the pinned record among the rows, pruned or not.
PinValidAmongRows(pin) ==
  /\ pin.sequence <= head.last
  /\ \E r \in At(pin.sequence) : r.chain = pin.hash

\* verify_chain's expected_checkpoint: where the pinned hash is looked up
\* depends on whether retention has passed it.
PinValid(pin) ==
  /\ pin.sequence <= head.last
  /\ pin.sequence > head.archived =>
       \E r \in At(pin.sequence) : r.chain = pin.hash
  /\ pin.sequence = head.archived => pin.hash = head.archivedHash
  /\ pin.sequence < head.archived => <<pin.sequence, pin.hash>> \in witnesses

\* checkpoint(): the committed head, signed; one is kept, taken at any time.
TakeCheckpoint ==
  /\ pinned = {}
  /\ pinned' = {[sequence |-> head.last, hash |-> head.lastHash]}
  /\ UNCHANGED <<clock, rows, head, witnesses, lock, writer, retention, hold,
                 appended, exported, corrupted>>

-----------------------------------------------------------------------------
(***************************************************************************)
(* enforce_retention: under tenant_retention_lock, which LegalHold.save    *)
(* takes too, and only when no hold is active.  prune_audit_prefix checks  *)
(* the holds again before it locks the head.                               *)
(***************************************************************************)
BeginRetention ==
  /\ retention = "idle"
  /\ ~hold
  /\ retention' = "running"
  /\ UNCHANGED <<clock, rows, head, witnesses, lock, writer, hold, pinned,
                 appended, exported, corrupted>>

BeginPrune ==
  /\ retention = "running"
  /\ ~hold
  /\ retention' = "pruning"
  /\ UNCHANGED <<clock, rows, head, witnesses, lock, writer, hold, pinned,
                 appended, exported, corrupted>>

Expired(r) == r.stamp < clock

\* The last record of the prefix that has expired without interruption.
Boundary(n) ==
  /\ n > head.archived
  /\ \A m \in (head.archived + 1)..n : \E r \in At(m) : Expired(r)
  /\ ~ \E r \in At(n + 1) : Expired(r)

\* Faulty: does not verify the chain before signing its prefix.
PruneUnverified ==
  /\ retention = "pruning"
  /\ lock = Nobody /\ head.exists
  /\ \E n \in Positions : \E boundary \in At(n) :
       /\ Boundary(n)
       /\ LET pruned == {r \in rows : r.sequence <= n} IN
          /\ witnesses' = witnesses \cup {<<r.sequence, r.chain>> : r \in pruned}
          /\ rows' = rows \ pruned
       /\ head' = [head EXCEPT !.archived = n, !.archivedHash = boundary.chain]
  /\ retention' = "running"
  /\ UNCHANGED <<clock, lock, writer, hold, pinned, appended, exported, corrupted>>

\* prune_audit_prefix: one transaction under the head's lock.
Prune ==
  /\ retention = "pruning"
  /\ lock = Nobody /\ head.exists
  /\ ChainValid(1)
  /\ \E n \in Positions : \E boundary \in At(n) :
       /\ Boundary(n)
       /\ LET pruned == {r \in rows : r.sequence <= n} IN
          /\ witnesses' = witnesses \cup {<<r.sequence, r.chain>> : r \in pruned}
          /\ rows' = rows \ pruned
       /\ head' = [head EXCEPT !.archived = n, !.archivedHash = boundary.chain]
  /\ retention' = "running"
  /\ UNCHANGED <<clock, lock, writer, hold, pinned, appended, exported, corrupted>>

\* A policy that archives the audit log instead: the expired rows are written
\* to a file and deleted, and the head stays.
Archive ==
  /\ retention = "running"
  /\ \E r \in rows : Expired(r)
  /\ rows' = {r \in rows : ~Expired(r)}
  /\ exported' = TRUE
  /\ UNCHANGED <<clock, head, witnesses, lock, writer, retention, hold, pinned,
                 appended, corrupted>>

\* Done; or nothing had expired; or the chain is broken and nothing is pruned.
EndRetention ==
  /\ retention # "idle"
  /\ retention' = "idle"
  /\ UNCHANGED <<clock, rows, head, witnesses, lock, writer, hold, pinned,
                 appended, exported, corrupted>>

\* Faulty: saves the hold without tenant_retention_lock.
ChangeHoldUnlocked ==
  /\ hold' = ~hold
  /\ UNCHANGED <<clock, rows, head, witnesses, lock, writer, retention, pinned,
                 appended, exported, corrupted>>

\* LegalHold.save: an operator places or releases a hold that covers now.
ChangeHold ==
  /\ retention = "idle"
  /\ hold' = ~hold
  /\ UNCHANGED <<clock, rows, head, witnesses, lock, writer, retention, pinned,
                 appended, exported, corrupted>>

NextPeriod ==
  /\ clock < MaxClock
  /\ clock' = clock + 1
  /\ UNCHANGED <<rows, head, witnesses, lock, writer, retention, hold, pinned,
                 appended, exported, corrupted>>

(***************************************************************************)
(* What verification is there for: a row is lost or changed in the         *)
(* database itself, its own hashes with it or not.                         *)
(***************************************************************************)
Corrupt ==
  /\ ~corrupted
  /\ \E r \in rows :
       \/ rows' = rows \ {r}
       \/ \E content \in Contents \ {r.content} :
            rows' = (rows \ {r}) \cup {[r EXCEPT !.content = content]}
       \/ \E content \in Contents \ {r.content} :
            rows' = (rows \ {r}) \cup
              {[r EXCEPT !.content = content, !.entry = content,
                 !.chain = Append(Prefix(r.chain, r.sequence - 1), content)]}
  /\ corrupted' = TRUE
  /\ UNCHANGED <<clock, head, witnesses, lock, writer, retention, hold, pinned,
                 appended, exported>>

Next ==
  \/ \E w \in Writers, content \in Contents : BeginAppend(w, content)
  \/ \E w \in Writers : CreateHead(w)
  \/ \E w \in Writers : LockHead(w)
  \/ \E w \in Writers : CommitAppend(w)
  \/ \E w \in Writers : RollbackAppend(w)
  \/ TakeCheckpoint
  \/ BeginRetention
  \/ BeginPrune
  \/ Prune
  \/ Archive
  \/ EndRetention
  \/ ChangeHold
  \/ NextPeriod
  \/ Corrupt

Spec == Init /\ [][Next]_vars

-----------------------------------------------------------------------------
(***************************************************************************)
(* Properties.                                                             *)
(***************************************************************************)

\* Types, and who holds the head: a writer that read it to append, or nobody.
TypeOK ==
  /\ clock \in Clocks
  /\ \A r \in rows : r \in Row
  /\ head \in HeadRow
  /\ \A x \in witnesses : x[1] \in Positions /\ x[2] \in Hashes
  /\ lock \in Writers \cup {Nobody}
  /\ \A w \in Writers : writer[w] \in Appending
  /\ retention \in {"idle", "running", "pruning"}
  /\ hold \in BOOLEAN
  /\ \A pin \in pinned : pin \in Checkpoint
  /\ exported \in BOOLEAN
  /\ appended \in Hashes
  /\ \A w \in Writers : writer[w].stage = "locked" <=> lock = w

\* The head is that of what was appended, and the rows are of its unpruned end.
AsAppended ==
  /\ head.last = Len(appended) /\ head.lastHash = appended
  /\ head.archivedHash = Prefix(appended, head.archived)
  /\ {<<r.sequence, r.content, r.entry, r.chain>> : r \in rows} \subseteq
       {<<n, appended[n], appended[n], Prefix(appended, n)>> :
          n \in (head.archived + 1)..head.last}

Faithful == AsAppended /\ Cardinality(rows) = head.last - head.archived

\* However appends interleave, first ones and failed ones included, and
\* however retention prunes: no append is lost, doubled, forked or reordered.
\* Rows that were archived are gone; what is left is still as it was appended.
NothingLost == corrupted \/ (AsAppended /\ (exported \/ Faithful))

\* verify_chain is right both ways, from any sequence and whatever retention
\* has pruned: an intact chain always verifies, also against a checkpoint
\* pinned before the pruning, and one that was touched, or of which rows were
\* archived, never does in full.
VerdictCorrect ==
  /\ Faithful => /\ \A from \in 1..(head.last + 1) : ChainValid(from)
                 /\ \A pin \in pinned : pin.sequence > 0 => PinValid(pin)
  /\ ChainValid(1) => Faithful

\* Retention signs only what was really appended, even of a corrupted chain:
\* every boundary and every witness is a true prefix.
BoundariesTrue ==
  /\ head.archivedHash = Prefix(appended, head.archived)
  /\ \A x \in witnesses : x[2] = Prefix(appended, x[1])

\* While a legal hold is active the application deletes no record, although
\* retention may have been running when the hold was placed.
HeldRecordsKept == [][hold /\ corrupted' = corrupted => rows \subseteq rows']_vars
=============================================================================
