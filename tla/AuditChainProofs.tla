-------------------------- MODULE AuditChainProofs --------------------------
(***************************************************************************)
(* The audit chain loses nothing, its verdict is right and what retention  *)
(* signs is true, for any number of records, writers and periods.          *)
(***************************************************************************)
EXTENDS AuditChain, SequenceTheorems, FiniteSetTheorems, WellFoundedInduction, TLAPS

RowRecord == [sequence : Nat, content : Contents, entry : Contents,
              chain : Seq(Contents), stamp : Nat]

HeadRecord == [exists : BOOLEAN, last : Nat, lastHash : Seq(Contents),
               archived : Nat, archivedHash : Seq(Contents)]

WriterRecord == [stage : {"idle", "create", "lock", "locked"},
                 content : Contents, stamp : Nat, head : HeadRecord]

StateTypes ==
  /\ clock \in Nat
  /\ rows \subseteq RowRecord
  /\ head \in HeadRecord
  /\ writer \in [Writers -> WriterRecord]
  /\ appended \in Seq(Contents)

\* The head is that of what was appended, whatever became of the rows.
HeadTrue ==
  /\ head.last = Len(appended) /\ head.lastHash = appended
  /\ head.archived <= head.last
  /\ head.archivedHash = Prefix(appended, head.archived)
  /\ ~head.exists => head.last = 0

\* Who is to append holds the head as it is.
HeadHeld ==
  /\ \A w \in Writers : writer[w].stage = "locked" <=> lock = w
  /\ \A w \in Writers : writer[w].stage = "locked" =>
       /\ writer[w].head.last = head.last /\ writer[w].head.lastHash = head.lastHash
  /\ \A w \in Writers : writer[w].stage = "create" => writer[w].head = NewHead

\* Rows are of the unpruned end, one to a sequence number.
RowsInPlace ==
  /\ \A r \in rows : head.archived < r.sequence /\ r.sequence <= head.last
  /\ \A r, s \in rows : r.sequence = s.sequence => r = s

RowTrue(r) == /\ r.content = appended[r.sequence] /\ r.entry = r.content
              /\ r.chain = Prefix(appended, r.sequence)

RowsTrue == ~corrupted => \A r \in rows : RowTrue(r)

Present == \A n \in (head.archived + 1)..head.last : \E r \in rows : r.sequence = n

NoneMissing == ~corrupted /\ ~exported => Present

\* Every record that was pruned has its witness, and nothing else has.
WitnessesTrue ==
  witnesses = {<<n, Prefix(appended, n)>> : n \in 1..head.archived}

PinsTrue ==
  \A pin \in pinned : /\ pin.sequence \in Nat /\ pin.sequence <= head.last
                      /\ pin.hash = Prefix(appended, pin.sequence)

\* A hold and a retention run exclude each other.
HoldsStop == hold => retention = "idle"

IInv ==
  /\ StateTypes
  /\ HeadTrue
  /\ HeadHeld
  /\ RowsInPlace
  /\ RowsTrue
  /\ NoneMissing
  /\ WitnessesTrue
  /\ PinsTrue
  /\ HoldsStop

-----------------------------------------------------------------------------
(***************************************************************************)
(* Prefixes of what was appended.                                          *)
(***************************************************************************)

\* A prefix is a sequence of its length and agrees with the whole.
LEMMA PrefixOf ==
  ASSUME NEW s \in Seq(Contents), NEW n \in 0..Len(s)
  PROVE  /\ Prefix(s, n) \in Seq(Contents)
         /\ Len(Prefix(s, n)) = n
         /\ \A i \in 1..n : Prefix(s, n)[i] = s[i]
<1>1. Len(s) \in Nat /\ n \in Int /\ 1 \in Int
  BY LenProperties
<1>2. \A i \in 1..n : s[i] \in Contents
  BY <1>1, ElementOfSeq
<1>3. /\ SubSeq(s, 1, n) \in Seq(Contents)
      /\ Len(SubSeq(s, 1, n)) = IF 1 <= n THEN n - 1 + 1 ELSE 0
      /\ \A i \in 1..n - 1 + 1 : SubSeq(s, 1, n)[i] = s[1 + i - 1]
  BY <1>1, <1>2, SubSeqProperties
<1> QED
  BY <1>1, <1>3 DEF Prefix

\* The whole is its own prefix.
LEMMA PrefixWhole ==
  ASSUME NEW s \in Seq(Contents)
  PROVE  Prefix(s, Len(s)) = s /\ Prefix(s, 0) = << >>
<1>1. Prefix(s, Len(s)) = s
  BY SubSeqFull DEF Prefix
<1>2. SubSeq(s, 1, 0) = << >>
  BY SubSeqEmpty
<1> QED
  BY <1>1, <1>2 DEF Prefix

\* What is appended later changes no prefix.
LEMMA PrefixStands ==
  ASSUME NEW s \in Seq(Contents), NEW c \in Contents, NEW n \in 0..Len(s)
  PROVE  Prefix(Append(s, c), n) = Prefix(s, n)
<1>1. /\ Append(s, c) \in Seq(Contents)
      /\ Len(Append(s, c)) = Len(s) + 1
      /\ \A i \in 1..Len(s) : Append(s, c)[i] = s[i]
      /\ Len(s) \in Nat
  BY AppendProperties, LenProperties
<1>2. n \in 0..Len(Append(s, c))
  BY <1>1
<1>3. /\ Prefix(Append(s, c), n) \in Seq(Contents)
      /\ Len(Prefix(Append(s, c), n)) = n
      /\ \A i \in 1..n : Prefix(Append(s, c), n)[i] = Append(s, c)[i]
  BY <1>1, <1>2, PrefixOf
<1>4. /\ Prefix(s, n) \in Seq(Contents)
      /\ Len(Prefix(s, n)) = n
      /\ \A i \in 1..n : Prefix(s, n)[i] = s[i]
  BY PrefixOf
<1>5. \A i \in 1..Len(Prefix(s, n)) : Prefix(Append(s, c), n)[i] = Prefix(s, n)[i]
  BY <1>1, <1>3, <1>4
<1> QED
  BY <1>3, <1>4, <1>5, SeqEqual

\* Every prefix is the one before it and one more content.
LEMMA PrefixGrows ==
  ASSUME NEW s \in Seq(Contents), NEW n \in 1..Len(s)
  PROVE  Prefix(s, n) = Append(Prefix(s, n - 1), s[n])
<1>1. Len(s) \in Nat /\ n \in 0..Len(s) /\ n - 1 \in 0..Len(s) /\ s[n] \in Contents
  BY LenProperties, ElementOfSeq
<1>2. /\ Prefix(s, n) \in Seq(Contents)
      /\ Len(Prefix(s, n)) = n
      /\ \A i \in 1..n : Prefix(s, n)[i] = s[i]
  BY <1>1, PrefixOf
<1> DEFINE before == Prefix(s, n - 1)
<1>3. /\ before \in Seq(Contents)
      /\ Len(before) = n - 1
      /\ \A i \in 1..n - 1 : before[i] = s[i]
  BY <1>1, PrefixOf
<1> HIDE DEF before
<1>4. /\ Append(before, s[n]) \in Seq(Contents)
      /\ Len(Append(before, s[n])) = Len(before) + 1
      /\ \A i \in 1..Len(before) : Append(before, s[n])[i] = before[i]
      /\ Append(before, s[n])[Len(before) + 1] = s[n]
  BY <1>1, <1>3, AppendProperties
<1>5. \A i \in 1..Len(Prefix(s, n)) : Prefix(s, n)[i] = Append(before, s[n])[i]
  BY <1>1, <1>2, <1>3, <1>4
<1>6. Prefix(s, n) = Append(before, s[n])
  BY <1>1, <1>2, <1>3, <1>4, <1>5, SeqEqual
<1> QED
  BY <1>6 DEF before

\* A chain hash says what it was made of: SHA-256 is injective.
LEMMA AppendSays ==
  ASSUME NEW s \in Seq(Contents), NEW t \in Seq(Contents),
         NEW c \in Contents, NEW d \in Contents, Append(s, c) = Append(t, d)
  PROVE  s = t /\ c = d
<1>1. /\ Len(Append(s, c)) = Len(s) + 1 /\ Len(s) \in Nat
      /\ \A i \in 1..Len(s) : Append(s, c)[i] = s[i]
      /\ Append(s, c)[Len(s) + 1] = c
  BY AppendProperties, LenProperties
<1>2. /\ Len(Append(t, d)) = Len(t) + 1 /\ Len(t) \in Nat
      /\ \A i \in 1..Len(t) : Append(t, d)[i] = t[i]
      /\ Append(t, d)[Len(t) + 1] = d
  BY AppendProperties, LenProperties
<1>3. Len(s) = Len(t) /\ c = d
  BY <1>1, <1>2
<1>4. \A i \in 1..Len(s) : s[i] = t[i]
  BY <1>1, <1>2, <1>3
<1> QED
  BY <1>3, <1>4, SeqEqual

\* Induction over a set of numbers.
LEMMA AllNumbers ==
  ASSUME NEW S, 0 \in S, \A n \in Nat : n \in S => n + 1 \in S
  PROVE  \A n \in Nat : n \in S
<1> DEFINE Missing == Nat \ S
           Less == OpToRel(<, Nat)
<1>1. SUFFICES ASSUME Missing # {} PROVE FALSE
  OBVIOUS
<1>2. IsWellFoundedOn(Less, Nat)
  BY NatLessThanWellFounded, Zenon
<1>3. Missing \subseteq Nat
  OBVIOUS
<1> HIDE DEF Missing, Less
<1>4. PICK n \in Missing : \A m \in Missing : ~ (<<m, n>> \in Less)
  BY <1>1, <1>2, <1>3, WFMin
<1>5. n \in Nat /\ n # 0
  BY <1>3, <1>4 DEF Missing
<1>6. n - 1 \in Nat /\ n - 1 < n /\ n = (n - 1) + 1
  BY <1>5
<1>7. n - 1 \notin S
  BY <1>4, <1>6 DEF Missing
<1>8. n - 1 \in Missing
  BY <1>6, <1>7 DEF Missing
<1>9. <<n - 1, n>> \in Less
  BY <1>5, <1>6 DEF Less, OpToRel
<1> QED
  BY <1>4, <1>8, <1>9

-----------------------------------------------------------------------------
(***************************************************************************)
(* The verdict of verify_chain, both ways.                                 *)
(***************************************************************************)

LEMMA HeadNumbers ==
  ASSUME StateTypes, HeadTrue
  PROVE  /\ appended \in Seq(Contents) /\ head \in HeadRecord
         /\ head.last \in Nat /\ head.archived \in Nat
         /\ head.archived <= head.last /\ head.last = Len(appended)
         /\ head.lastHash = appended
         /\ head.archivedHash = Prefix(appended, head.archived)
BY DEF StateTypes, HeadTrue, HeadRecord

LEMMA RowFields ==
  ASSUME StateTypes, HeadTrue, RowsInPlace, NEW r \in rows
  PROVE  /\ r.sequence \in 1..Len(appended) /\ r.sequence \in Nat
         /\ head.archived < r.sequence /\ r.sequence <= head.last
         /\ r.content \in Contents /\ r.entry \in Contents
         /\ r.chain \in Seq(Contents)
<1>1. r \in RowRecord
  BY DEF StateTypes
<1>2. r.sequence \in Nat /\ r.content \in Contents /\ r.entry \in Contents
      /\ r.chain \in Seq(Contents)
  BY <1>1 DEF RowRecord
<1>3. head.archived < r.sequence /\ r.sequence <= head.last
  BY DEF RowsInPlace
<1> QED
  BY <1>2, <1>3, HeadNumbers

\* What a walk from the first unpruned record says.
LEMMA WalkFromFirst ==
  ASSUME StateTypes, HeadTrue, RowsInPlace, ChainValid(1)
  PROVE  /\ Present
         /\ \A r \in rows :
              /\ r.entry = r.content
              /\ r.sequence = head.archived + 1 =>
                   r.chain = Append(head.archivedHash, r.entry)
              /\ r.sequence # head.archived + 1 =>
                   \E p \in rows : /\ p.sequence = r.sequence - 1
                                   /\ r.chain = Append(p.chain, r.entry)
         /\ rows # {} => \E r \in rows : r.sequence = head.last /\ r.chain = appended
<1>0. /\ head.archived \in Nat /\ head.last \in Nat
      /\ \A r \in rows : r.sequence \in Nat /\ head.archived < r.sequence
      /\ head.lastHash = appended
  BY HeadNumbers, RowFields
<1>1. Start(1) = head.archived + 1
  BY <1>0 DEF Start
<1>2. {r \in rows : r.sequence >= head.archived + 1} = rows
  BY <1>0
<1>3. Predecessors(head.archived + 1) = {head.archivedHash}
  BY DEF Predecessors
<1> DEFINE before(r) == IF r.sequence = head.archived + 1 THEN {head.archivedHash}
                        ELSE {p.chain : p \in At(r.sequence - 1)}
<1>4. /\ {r.sequence : r \in rows} = head.archived + 1..head.last
      /\ \A r \in rows : /\ r.entry = r.content
                         /\ \E hash \in before(r) : r.chain = Append(hash, r.entry)
      /\ rows # {} => \E r \in At(head.last) : r.chain = head.lastHash
  BY <1>1, <1>2, <1>3 DEF ChainValid
<1>5. Present
  BY <1>4 DEF Present
<1>6. ASSUME NEW r \in rows
      PROVE  /\ r.entry = r.content
             /\ r.sequence = head.archived + 1 =>
                  r.chain = Append(head.archivedHash, r.entry)
             /\ r.sequence # head.archived + 1 =>
                  \E p \in rows : /\ p.sequence = r.sequence - 1
                                  /\ r.chain = Append(p.chain, r.entry)
  BY <1>4 DEF At
<1>7. rows # {} => \E r \in rows : r.sequence = head.last /\ r.chain = appended
  BY <1>0, <1>4 DEF At
<1> QED
  BY <1>5, <1>6, <1>7

\* A chain that verifies holds every record as it was appended: the hash of
\* the last one is the head's, and each says what the one before it is.
LEMMA VerifiedIsTrue ==
  ASSUME StateTypes, HeadTrue, RowsInPlace, ChainValid(1)
  PROVE  Present /\ \A r \in rows : RowTrue(r)
<1>1. /\ Present
      /\ \A r \in rows :
           /\ r.entry = r.content
           /\ r.sequence = head.archived + 1 =>
                r.chain = Append(head.archivedHash, r.entry)
           /\ r.sequence # head.archived + 1 =>
                \E p \in rows : /\ p.sequence = r.sequence - 1
                                /\ r.chain = Append(p.chain, r.entry)
      /\ rows # {} => \E r \in rows : r.sequence = head.last /\ r.chain = appended
  BY WalkFromFirst
<1>2. /\ appended \in Seq(Contents)
      /\ head.last \in Nat /\ head.archived \in Nat
      /\ head.archived <= head.last /\ head.last = Len(appended)
      /\ head.archivedHash = Prefix(appended, head.archived)
  BY HeadNumbers
<1>3. \A r \in rows :
        /\ r.sequence \in 1..Len(appended) /\ r.sequence \in Nat
        /\ head.archived < r.sequence /\ r.sequence <= head.last
        /\ r.content \in Contents /\ r.entry \in Contents
        /\ r.chain \in Seq(Contents)
  BY RowFields
<1>4. \A r, s \in rows : r.sequence = s.sequence => r = s
  BY DEF RowsInPlace
\* From the chain hash of a record: its entry, and the chain hash before it.
<1>5. ASSUME NEW r \in rows, r.chain = Prefix(appended, r.sequence)
      PROVE  /\ r.entry = appended[r.sequence]
             /\ \A p \in rows : p.sequence = r.sequence - 1 =>
                  p.chain = Prefix(appended, p.sequence)
  <2> DEFINE n == r.sequence
  <2>1. n \in 1..Len(appended) /\ n \in Nat /\ n - 1 \in 0..Len(appended)
        /\ head.archived < n /\ r.entry \in Contents
    BY <1>2, <1>3
  <2>2. r.chain = Append(Prefix(appended, n - 1), appended[n])
    BY <1>2, <1>5, <2>1, PrefixGrows
  <2>3. Prefix(appended, n - 1) \in Seq(Contents) /\ appended[n] \in Contents
    BY <1>2, <2>1, PrefixOf, ElementOfSeq
  <2>4. CASE n = head.archived + 1
    <3>1. r.chain = Append(head.archivedHash, r.entry)
      BY <1>1, <2>4
    <3>2. head.archivedHash \in Seq(Contents)
      BY <1>2, <2>1, PrefixOf
    <3>3. r.entry = appended[n]
      BY <2>1, <2>2, <2>3, <3>1, <3>2, AppendSays
    <3>4. ~ \E p \in rows : p.sequence = n - 1
      BY <1>2, <1>3, <2>4
    <3> QED
      BY <3>3, <3>4
  <2>5. CASE n # head.archived + 1
    <3>1. PICK p \in rows : p.sequence = n - 1 /\ r.chain = Append(p.chain, r.entry)
      BY <1>1, <2>5
    <3>2. p.chain \in Seq(Contents)
      BY <1>3, <3>1
    <3>3. Append(p.chain, r.entry) = Append(Prefix(appended, n - 1), appended[n])
      BY <2>2, <3>1
    <3>4. p.chain = Prefix(appended, n - 1) /\ r.entry = appended[n]
      <4>1. /\ p.chain \in Seq(Contents) /\ r.entry \in Contents
            /\ Prefix(appended, n - 1) \in Seq(Contents) /\ appended[n] \in Contents
        BY <2>1, <2>3, <3>2
      <4> HIDE DEF n
      <4> QED
        BY <3>3, <4>1, AppendSays
    <3>5. \A q \in rows : q.sequence = n - 1 => q = p
      BY <1>4, <3>1
    <3> QED
      BY <3>1, <3>4, <3>5
  <2> QED
    BY <2>4, <2>5
\* Back from the head, one record after the other.
<1> DEFINE Reached == {k \in Nat : \A r \in rows :
                         r.sequence = head.last - k => r.chain = Prefix(appended, r.sequence)}
<1>6. 0 \in Reached
  <2>1. SUFFICES ASSUME NEW r \in rows, r.sequence = head.last
                 PROVE  r.chain = Prefix(appended, r.sequence)
    BY <1>2
  <2>2. r.chain = appended
    BY <1>1, <1>4, <2>1
  <2>3. appended = Prefix(appended, head.last)
    BY <1>2, PrefixWhole
  <2> QED
    BY <2>1, <2>2, <2>3
<1>7. ASSUME NEW k \in Nat, k \in Reached PROVE k + 1 \in Reached
  <2>1. SUFFICES ASSUME NEW r \in rows, r.sequence = head.last - (k + 1)
                 PROVE  r.chain = Prefix(appended, r.sequence)
    BY <1>7
  <2>2. head.last - k \in (head.archived + 1)..head.last
    BY <1>2, <1>3, <1>7, <2>1
  <2>3. PICK s \in rows : s.sequence = head.last - k
    BY <1>1, <2>2 DEF Present
  <2>4. s.chain = Prefix(appended, s.sequence)
    BY <1>7, <2>3
  <2>5. r.sequence = s.sequence - 1
    BY <1>2, <1>3, <1>7, <2>1, <2>3
  <2> QED
    BY <1>5, <2>1, <2>3, <2>4, <2>5
<1>8. \A k \in Nat : k \in Reached
  <2> HIDE DEF Reached
  <2> QED
    BY <1>6, <1>7, AllNumbers
<1>9. ASSUME NEW r \in rows PROVE r.chain = Prefix(appended, r.sequence)
  <2>1. head.last - r.sequence \in Nat /\ r.sequence = head.last - (head.last - r.sequence)
    BY <1>2, <1>3
  <2> QED
    BY <1>8, <2>1
<1>10. \A r \in rows : RowTrue(r)
  BY <1>1, <1>5, <1>9 DEF RowTrue
<1> QED
  BY <1>1, <1>10

\* A chain of which nothing was touched verifies from every sequence.
LEMMA TrueVerifies ==
  ASSUME StateTypes, HeadTrue, RowsInPlace, Present, \A r \in rows : RowTrue(r),
         NEW from \in 1..(head.last + 1)
  PROVE  ChainValid(from)
<1> DEFINE start == Start(from)
           walked == {r \in rows : r.sequence >= start}
           before(r) == IF r.sequence = start THEN Predecessors(start)
                        ELSE {p.chain : p \in At(r.sequence - 1)}
<1>1. /\ appended \in Seq(Contents)
      /\ head.last \in Nat /\ head.archived \in Nat
      /\ head.archived <= head.last /\ head.last = Len(appended)
      /\ head.lastHash = appended
      /\ head.archivedHash = Prefix(appended, head.archived)
  BY HeadNumbers
<1>2. \A r \in rows :
        /\ r.sequence \in 1..Len(appended) /\ r.sequence \in Nat
        /\ head.archived < r.sequence /\ r.sequence <= head.last
  BY RowFields
<1>3. start \in (head.archived + 1)..(head.last + 1)
  BY <1>1 DEF Start
<1>4. \A r \in rows : /\ r.entry = r.content /\ r.content = appended[r.sequence]
                      /\ r.chain = Prefix(appended, r.sequence)
  BY DEF RowTrue
<1>5. \A n \in (head.archived + 1)..head.last : \E r \in rows : r.sequence = n
  BY DEF Present
<1> HIDE DEF start
<1>6. Prefix(appended, start - 1) \in Predecessors(start)
  <2>1. CASE start = head.archived + 1
    BY <1>1, <2>1 DEF Predecessors
  <2>2. CASE start # head.archived + 1
    <3>1. start - 1 \in (head.archived + 1)..head.last
      BY <1>1, <1>3, <2>2
    <3>2. PICK p \in rows : p.sequence = start - 1
      BY <1>5, <3>1
    <3>3. p.chain = Prefix(appended, start - 1)
      BY <1>4, <3>2
    <3> QED
      BY <2>2, <3>2, <3>3 DEF Predecessors, At
  <2> QED
    BY <2>1, <2>2
<1>7. {r.sequence : r \in walked} = start..head.last
  <2>1. \A r \in walked : r.sequence \in start..head.last
    BY <1>1, <1>2, <1>3
  <2>2. ASSUME NEW n \in start..head.last PROVE \E r \in walked : r.sequence = n
    <3>1. n \in (head.archived + 1)..head.last /\ n >= start
      BY <1>1, <1>3
    <3> QED
      BY <1>5, <3>1
  <2> QED
    BY <2>1, <2>2
<1>8. ASSUME NEW r \in walked
      PROVE  \E hash \in before(r) : r.chain = Append(hash, r.entry)
  <2>1. r \in rows /\ r.sequence >= start
    OBVIOUS
  <2>2. r.chain = Append(Prefix(appended, r.sequence - 1), r.entry)
    <3>1. r.sequence \in 1..Len(appended)
      BY <1>2, <2>1
    <3>2. Prefix(appended, r.sequence)
            = Append(Prefix(appended, r.sequence - 1), appended[r.sequence])
      BY <1>1, <3>1, PrefixGrows
    <3> QED
      BY <1>4, <2>1, <3>2
  <2>3. Prefix(appended, r.sequence - 1) \in before(r)
    <3>1. CASE r.sequence = start
      BY <1>6, <3>1
    <3>2. CASE r.sequence # start
      <4>1. r.sequence - 1 \in (head.archived + 1)..head.last
        BY <1>1, <1>2, <1>3, <2>1, <3>2
      <4>2. PICK p \in rows : p.sequence = r.sequence - 1
        BY <1>5, <4>1
      <4>3. p.chain = Prefix(appended, r.sequence - 1)
        BY <1>4, <4>2
      <4> QED
        BY <3>2, <4>2, <4>3 DEF At
    <3> QED
      BY <3>1, <3>2
  <2> QED
    BY <2>2, <2>3
<1>9. IF walked = {} THEN head.lastHash \in Predecessors(start)
      ELSE \E r \in At(head.last) : r.chain = head.lastHash
  <2>1. appended = Prefix(appended, head.last)
    BY <1>1, PrefixWhole
  <2>2. CASE walked = {}
    <3>1. ~ \E n \in start..head.last : TRUE
      BY <1>7, <2>2
    <3>2. start - 1 = head.last
      BY <1>1, <1>3, <3>1
    <3> QED
      BY <1>1, <1>6, <2>1, <2>2, <3>2
  <2>3. CASE walked # {}
    <3>1. head.last \in (head.archived + 1)..head.last
      BY <1>1, <1>2, <2>3
    <3>2. PICK r \in rows : r.sequence = head.last
      BY <1>5, <3>1
    <3>3. r.chain = head.lastHash
      BY <1>1, <1>4, <2>1, <3>2
    <3> QED
      BY <2>3, <3>2, <3>3 DEF At
  <2> QED
    BY <2>2, <2>3
<1>10. Predecessors(start) # {}
  BY <1>6
<1>11. \A r \in walked : r.entry = r.content
  BY <1>4
<1> QED
  BY <1>7, <1>8, <1>9, <1>10, <1>11 DEF ChainValid, start

\* Faithful is just that: every record is there and says what was appended.
LEMMA FaithfulSays ==
  ASSUME StateTypes, HeadTrue, RowsInPlace
  PROVE  /\ AsAppended <=> \A r \in rows : RowTrue(r)
         /\ Cardinality(rows) = head.last - head.archived <=> Present
<1>1. /\ appended \in Seq(Contents)
      /\ head.last \in Nat /\ head.archived \in Nat
      /\ head.archived <= head.last /\ head.last = Len(appended)
      /\ head.lastHash = appended
      /\ head.archivedHash = Prefix(appended, head.archived)
  BY HeadNumbers
<1>2. \A r \in rows :
        /\ r.sequence \in 1..Len(appended) /\ r.sequence \in Nat
        /\ head.archived < r.sequence /\ r.sequence <= head.last
  BY RowFields
<1> DEFINE place == (head.archived + 1)..head.last
           True(n) == <<n, appended[n], appended[n], Prefix(appended, n)>>
<1>3. \A r \in rows : r.sequence \in place
  BY <1>1, <1>2
<1> HIDE DEF place
<1>4. AsAppended <=> \A r \in rows : RowTrue(r)
  <2>1. AsAppended <=>
          {<<r.sequence, r.content, r.entry, r.chain>> : r \in rows}
            \subseteq {True(n) : n \in place}
    BY <1>1 DEF AsAppended, place
  <2>2. ASSUME AsAppended, NEW r \in rows PROVE RowTrue(r)
    <3>1. PICK n \in place : <<r.sequence, r.content, r.entry, r.chain>> = True(n)
      BY <2>1, <2>2
    <3> QED
      BY <3>1 DEF RowTrue
  <2>3. ASSUME \A r \in rows : RowTrue(r) PROVE AsAppended
    <3>1. ASSUME NEW r \in rows
          PROVE  <<r.sequence, r.content, r.entry, r.chain>> = True(r.sequence)
      BY <2>3 DEF RowTrue
    <3> QED
      BY <1>3, <2>1, <3>1
  <2> QED
    BY <2>2, <2>3
<1> DEFINE seq == [r \in rows |-> r.sequence]
<1>5. IsFiniteSet(place) /\ Cardinality(place) = head.last - head.archived
  <2>1. head.archived + 1 \in Int /\ head.last \in Int
    BY <1>1
  <2>2. /\ IsFiniteSet((head.archived + 1)..head.last)
        /\ Cardinality((head.archived + 1)..head.last)
             = IF head.archived + 1 > head.last THEN 0
               ELSE head.last - (head.archived + 1) + 1
    BY <2>1, FS_Interval
  <2> QED
    BY <1>1, <2>2 DEF place
<1>6. seq \in Injection(rows, place)
  <2>1. seq \in [rows -> place]
    BY <1>3
  <2>2. \A r, s \in rows : seq[r] = seq[s] => r = s
    BY DEF RowsInPlace
  <2> QED
    BY <2>1, <2>2 DEF Injection, IsInjective
<1> HIDE DEF seq
<1>7. Cardinality(rows) = Cardinality(place) <=> seq \in Surjection(rows, place)
  BY <1>5, <1>6, FS_Injection
<1>8. seq \in Surjection(rows, place) <=> Present
  <2>1. seq \in [rows -> place]
    BY <1>3 DEF seq
  <2>2. seq \in Surjection(rows, place) <=> \A n \in place : \E r \in rows : seq[r] = n
    BY <2>1 DEF Surjection
  <2>3. \A r \in rows : seq[r] = r.sequence
    BY DEF seq
  <2> QED
    BY <2>2, <2>3 DEF Present, place
<1> QED
  BY <1>4, <1>5, <1>7, <1>8

-----------------------------------------------------------------------------
(***************************************************************************)
(* The invariant.                                                          *)
(***************************************************************************)

LEMMA IInit == Init => IInv
<1> SUFFICES ASSUME Init PROVE IInv
  OBVIOUS
<1>1. << >> \in Seq(Contents) /\ Len(<< >>) = 0
  BY EmptySeq
<1>2. Prefix(<< >>, 0) = << >>
  BY <1>1, PrefixWhole
<1>3. NewHead \in HeadRecord
  BY <1>1 DEF NewHead, HeadRecord, Genesis
<1>4. writer \in [Writers -> WriterRecord]
      /\ \A w \in Writers : writer[w].stage = "idle"
  BY <1>3 DEF Init, WriterRecord
<1>5. StateTypes
  BY <1>1, <1>3, <1>4 DEF Init, StateTypes
<1>6. HeadTrue
  BY <1>1, <1>2 DEF Init, HeadTrue, NewHead, Genesis
<1>7. HeadHeld
  BY <1>4, AuditAssumption DEF Init, HeadHeld
<1>8. RowsInPlace /\ RowsTrue /\ NoneMissing /\ PinsTrue /\ HoldsStop
  BY DEF Init, RowsInPlace, RowsTrue, NoneMissing, Present, PinsTrue, HoldsStop, NewHead
<1>9. WitnessesTrue
  BY DEF Init, WitnessesTrue, NewHead
<1> QED
  BY <1>5, <1>6, <1>7, <1>8, <1>9 DEF IInv

\* A step of a writer that commits nothing.
LEMMA WriterSteps ==
  ASSUME IInv, NEW w \in Writers,
         \/ \E content \in Contents : BeginAppend(w, content)
         \/ CreateHead(w)
         \/ LockHead(w)
         \/ RollbackAppend(w)
  PROVE  IInv'
<1>1. /\ StateTypes /\ HeadTrue /\ HeadHeld /\ RowsInPlace /\ RowsTrue
      /\ NoneMissing /\ WitnessesTrue /\ PinsTrue /\ HoldsStop
  BY DEF IInv
<1>2. UNCHANGED <<clock, rows, head, witnesses, retention, hold, pinned,
                  appended, exported, corrupted>>
  BY DEF BeginAppend, CreateHead, LockHead, RollbackAppend
<1>3. HeadTrue'
  BY <1>1, <1>2 DEF HeadTrue
<1>4. RowsInPlace' /\ RowsTrue' /\ NoneMissing' /\ HoldsStop'
  BY <1>1, <1>2 DEF RowsInPlace, RowsTrue, RowTrue, NoneMissing, Present, HoldsStop
<1>5. WitnessesTrue' /\ PinsTrue'
  BY <1>1, <1>2 DEF WitnessesTrue, PinsTrue
<1>6. /\ NewHead \in HeadRecord /\ NewHead.last = 0 /\ NewHead.lastHash = << >>
  BY EmptySeq DEF NewHead, HeadRecord, Genesis
<1>7. /\ writer \in [Writers -> WriterRecord] /\ head \in HeadRecord /\ clock \in Nat
      /\ writer[w] \in WriterRecord
  BY <1>1 DEF StateTypes
<1>8. ~head.exists => head.last = 0 /\ head.lastHash = << >>
  BY <1>1, <1>7, EmptySeq, SeqEqual DEF HeadTrue, StateTypes
<1>9. /\ \A v \in Writers : writer[v].stage = "locked" <=> lock = v
      /\ \A v \in Writers : writer[v].stage = "locked" =>
           /\ writer[v].head.last = head.last /\ writer[v].head.lastHash = head.lastHash
      /\ \A v \in Writers : writer[v].stage = "create" => writer[v].head = NewHead
  BY <1>1 DEF HeadHeld
<1>10. CASE \E content \in Contents : BeginAppend(w, content)
  <2>1. PICK content \in Contents : BeginAppend(w, content)
    BY <1>10
  <2> DEFINE begun == [stage |-> IF head.exists THEN "lock" ELSE "create",
                       content |-> content, stamp |-> clock, head |-> NewHead]
  <2>2. writer' = [writer EXCEPT ![w] = begun] /\ writer[w].stage = "idle" /\ lock' = lock
    BY <2>1 DEF BeginAppend
  <2>3. begun \in WriterRecord
    BY <1>6, <1>7 DEF WriterRecord
  <2>4. begun.stage \in {"lock", "create"} /\ begun.head = NewHead
    OBVIOUS
  <2> HIDE DEF begun
  <2>5. StateTypes'
    BY <1>1, <1>2, <2>2, <2>3 DEF StateTypes
  <2>6. \A v \in Writers : writer'[v] = IF v = w THEN begun ELSE writer[v]
    BY <1>7, <2>2
  <2>7. HeadHeld'
    BY <1>2, <1>9, <2>2, <2>4, <2>6 DEF HeadHeld
  <2> QED
    BY <1>3, <1>4, <1>5, <2>5, <2>7 DEF IInv
<1>11. CASE CreateHead(w)
  <2>1. writer[w].stage = "create" /\ lock = Nobody
    BY <1>11 DEF CreateHead
  <2>2. CASE head.exists
    <3>1. writer' = [writer EXCEPT ![w].stage = "lock"] /\ lock' = lock
      BY <1>11, <2>2 DEF CreateHead
    <3>2. writer' \in [Writers -> WriterRecord]
      BY <1>7, <3>1 DEF WriterRecord
    <3>3. \A v \in Writers : /\ writer'[v].stage = IF v = w THEN "lock" ELSE writer[v].stage
                             /\ writer'[v].head = writer[v].head
      BY <1>7, <3>1 DEF WriterRecord
    <3>4. StateTypes'
      BY <1>1, <1>2, <3>2 DEF StateTypes
    <3>5. HeadHeld'
      BY <1>2, <1>9, <2>1, <3>1, <3>3 DEF HeadHeld
    <3> QED
      BY <1>3, <1>4, <1>5, <3>4, <3>5 DEF IInv
  <2>3. CASE ~head.exists
    <3>1. writer' = [writer EXCEPT ![w].stage = "locked"] /\ lock' = w
      BY <1>11, <2>3 DEF CreateHead
    <3>2. writer' \in [Writers -> WriterRecord]
      BY <1>7, <3>1 DEF WriterRecord
    <3>3. \A v \in Writers : /\ writer'[v].stage = IF v = w THEN "locked" ELSE writer[v].stage
                             /\ writer'[v].head = writer[v].head
      BY <1>7, <3>1 DEF WriterRecord
    <3>4. StateTypes'
      BY <1>1, <1>2, <3>2 DEF StateTypes
    <3>5. \A v \in Writers : writer[v].stage # "locked"
      BY <1>9, <2>1, AuditAssumption
    <3>6. writer[w].head.last = head.last /\ writer[w].head.lastHash = head.lastHash
      BY <1>6, <1>8, <1>9, <2>1, <2>3
    <3>7. HeadHeld'
      BY <1>2, <1>9, <3>1, <3>3, <3>5, <3>6 DEF HeadHeld
    <3> QED
      BY <1>3, <1>4, <1>5, <3>4, <3>7 DEF IInv
  <2> QED
    BY <2>2, <2>3
<1>12. CASE LockHead(w)
  <2>1. /\ lock = Nobody /\ lock' = w /\ writer[w].stage = "lock"
        /\ writer' = [writer EXCEPT ![w].stage = "locked", ![w].head = head]
    BY <1>12 DEF LockHead
  <2>2. writer' \in [Writers -> WriterRecord]
    BY <1>7, <2>1 DEF WriterRecord
  <2>3. \A v \in Writers : /\ writer'[v].stage = IF v = w THEN "locked" ELSE writer[v].stage
                           /\ writer'[v].head = IF v = w THEN head ELSE writer[v].head
    BY <1>7, <2>1 DEF WriterRecord
  <2>4. StateTypes'
    BY <1>1, <1>2, <2>2 DEF StateTypes
  <2>5. \A v \in Writers : writer[v].stage # "locked"
    BY <1>9, <2>1, AuditAssumption
  <2>6. \A v \in Writers : writer'[v].stage = "locked" <=> v = w
    BY <2>3, <2>5
  <2>7. \A v \in Writers : writer'[v].stage = "create" =>
          writer[v].stage = "create" /\ writer'[v].head = writer[v].head
    BY <2>3
  <2>8. HeadHeld'
    BY <1>2, <1>9, <2>1, <2>3, <2>6, <2>7 DEF HeadHeld
  <2> QED
    BY <1>3, <1>4, <1>5, <2>4, <2>8 DEF IInv
<1>13. CASE RollbackAppend(w)
  <2>1. /\ lock' = IF lock = w THEN Nobody ELSE lock
        /\ writer' = [writer EXCEPT ![w].stage = "idle"]
    BY <1>13 DEF RollbackAppend
  <2>2. writer' \in [Writers -> WriterRecord]
    BY <1>7, <2>1 DEF WriterRecord
  <2>3. \A v \in Writers : /\ writer'[v].stage = IF v = w THEN "idle" ELSE writer[v].stage
                           /\ writer'[v].head = writer[v].head
    BY <1>7, <2>1 DEF WriterRecord
  <2>4. StateTypes'
    BY <1>1, <1>2, <2>2 DEF StateTypes
  <2>5. HeadHeld'
    BY <1>2, <1>9, <2>1, <2>3, AuditAssumption DEF HeadHeld
  <2> QED
    BY <1>3, <1>4, <1>5, <2>4, <2>5 DEF IInv
<1> QED
  BY <1>10, <1>11, <1>12, <1>13

\* The writer that holds the head appends to it.
LEMMA CommitSteps ==
  ASSUME IInv, NEW w \in Writers, CommitAppend(w)
  PROVE  IInv'
<1> DEFINE content == writer[w].content
           row == [sequence |-> head.last + 1, content |-> content, entry |-> content,
                   chain |-> Append(appended, content), stamp |-> writer[w].stamp]
<1>1. /\ StateTypes /\ HeadTrue /\ HeadHeld /\ RowsInPlace /\ RowsTrue
      /\ NoneMissing /\ WitnessesTrue /\ PinsTrue /\ HoldsStop
  BY DEF IInv
<1>2. /\ appended \in Seq(Contents) /\ head \in HeadRecord
      /\ head.last \in Nat /\ head.archived \in Nat
      /\ head.archived <= head.last /\ head.last = Len(appended)
      /\ head.lastHash = appended
      /\ head.archivedHash = Prefix(appended, head.archived)
  BY <1>1, HeadNumbers
<1>3. /\ writer \in [Writers -> WriterRecord] /\ clock \in Nat
      /\ writer[w].content \in Contents /\ writer[w].stamp \in Nat
  BY <1>1 DEF StateTypes, WriterRecord
<1>4. /\ writer[w].stage = "locked" /\ lock = w
      /\ writer[w].head.last = head.last /\ writer[w].head.lastHash = appended
  BY <1>1, <1>2 DEF CommitAppend, HeadHeld
<1>5. /\ rows' = rows \cup {row}
      /\ head' = [head EXCEPT !.exists = TRUE, !.last = head.last + 1,
                              !.lastHash = Append(appended, content)]
      /\ appended' = Append(appended, content)
      /\ lock' = Nobody
      /\ writer' = [writer EXCEPT ![w].stage = "idle"]
      /\ UNCHANGED <<clock, witnesses, retention, hold, pinned, exported, corrupted>>
  BY <1>4 DEF CommitAppend
<1>6. /\ appended' \in Seq(Contents) /\ Len(appended') = Len(appended) + 1
      /\ \A i \in 1..Len(appended) : appended'[i] = appended[i]
      /\ appended'[Len(appended) + 1] = content
  BY <1>2, <1>3, <1>5, AppendProperties
<1>7. \A n \in 0..head.last : Prefix(appended', n) = Prefix(appended, n)
  BY <1>2, <1>3, <1>5, PrefixStands
<1>8. Prefix(appended', head.last + 1) = appended'
  BY <1>2, <1>6, PrefixWhole
<1>9. /\ head' \in HeadRecord /\ head'.exists = TRUE
      /\ head'.last = head.last + 1 /\ head'.lastHash = appended'
      /\ head'.archived = head.archived /\ head'.archivedHash = head.archivedHash
  <2>1. head' = [head EXCEPT !.exists = TRUE, !.last = head.last + 1,
                             !.lastHash = appended']
    BY <1>5
  <2>2. /\ head.last + 1 \in Nat /\ head.archivedHash \in Seq(Contents)
        /\ head = [exists |-> head.exists, last |-> head.last,
                   lastHash |-> head.lastHash, archived |-> head.archived,
                   archivedHash |-> head.archivedHash]
    BY <1>2 DEF HeadRecord
  <2>3. head' = [exists |-> TRUE, last |-> head.last + 1, lastHash |-> appended',
                 archived |-> head.archived, archivedHash |-> head.archivedHash]
    BY <2>1, <2>2
  <2> QED
    BY <1>2, <1>6, <2>2, <2>3 DEF HeadRecord
<1>10. /\ row \in RowRecord /\ row.sequence = head.last + 1
       /\ row.content = content /\ row.entry = content /\ row.chain = appended'
  BY <1>2, <1>3, <1>5, <1>6 DEF RowRecord
<1>11. \A v \in Writers : /\ writer'[v].stage = IF v = w THEN "idle" ELSE writer[v].stage
                          /\ writer'[v].head = writer[v].head
  BY <1>3, <1>5 DEF WriterRecord
<1>12. writer' \in [Writers -> WriterRecord]
  BY <1>3, <1>5 DEF WriterRecord
<1> HIDE DEF row, content
<1>13. StateTypes'
  BY <1>1, <1>5, <1>6, <1>9, <1>10, <1>12 DEF StateTypes
<1>14. HeadTrue'
  BY <1>2, <1>6, <1>7, <1>9 DEF HeadTrue
<1>15. HeadHeld'
  <2>1. \A v \in Writers : writer'[v].stage # "locked" /\ lock' # v
    BY <1>1, <1>4, <1>5, <1>11, AuditAssumption DEF HeadHeld
  <2>2. \A v \in Writers : writer'[v].stage = "create" =>
          writer[v].stage = "create" /\ writer'[v].head = writer[v].head
    BY <1>11
  <2> QED
    BY <1>1, <2>1, <2>2 DEF HeadHeld
<1>16. \A r \in rows : r.sequence \in Nat /\ r.sequence <= head.last
                       /\ r.sequence \in 1..Len(appended) /\ head.archived < r.sequence
  BY <1>1, RowFields
<1>17. RowsInPlace'
  BY <1>1, <1>2, <1>5, <1>9, <1>10, <1>16 DEF RowsInPlace
<1>18. RowsTrue'
  <2>1. SUFFICES ASSUME ~corrupted, NEW r \in rows' PROVE RowTrue(r)'
    BY <1>5 DEF RowsTrue
  <2>2. CASE r \in rows
    BY <1>1, <1>2, <1>6, <1>7, <1>16, <2>1, <2>2 DEF RowsTrue, RowTrue
  <2>3. CASE r = row
    BY <1>2, <1>6, <1>8, <1>10, <2>3 DEF RowTrue
  <2> QED
    BY <1>5, <2>1, <2>2, <2>3
<1>19. NoneMissing'
  <2>1. SUFFICES ASSUME ~corrupted, ~exported,
                        NEW n \in (head.archived + 1)..(head.last + 1)
                 PROVE  \E r \in rows' : r.sequence = n
    BY <1>5, <1>9 DEF NoneMissing, Present
  <2>2. CASE n = head.last + 1
    BY <1>5, <1>10, <2>2
  <2>3. CASE n # head.last + 1
    <3>1. n \in (head.archived + 1)..head.last
      BY <1>2, <2>1, <2>3
    <3> QED
      BY <1>1, <1>5, <2>1, <3>1 DEF NoneMissing, Present
  <2> QED
    BY <2>2, <2>3
<1>20. WitnessesTrue'
  <2>1. \A n \in 1..head.archived : Prefix(appended', n) = Prefix(appended, n)
    BY <1>2, <1>7
  <2>2. {<<n, Prefix(appended', n)>> : n \in 1..head.archived}
          = {<<n, Prefix(appended, n)>> : n \in 1..head.archived}
    BY <2>1
  <2> QED
    BY <1>1, <1>5, <1>9, <2>2 DEF WitnessesTrue
<1>21. PinsTrue'
  <2>1. SUFFICES ASSUME NEW pin \in pinned
                 PROVE  /\ pin.sequence \in Nat /\ pin.sequence <= head.last + 1
                        /\ pin.hash = Prefix(appended', pin.sequence)
    BY <1>5, <1>9 DEF PinsTrue
  <2>2. /\ pin.sequence \in Nat /\ pin.sequence <= head.last
        /\ pin.hash = Prefix(appended, pin.sequence)
    BY <1>1 DEF PinsTrue
  <2> QED
    BY <1>2, <1>7, <2>2
<1>22. HoldsStop'
  BY <1>1, <1>5 DEF HoldsStop
<1> QED
  BY <1>13, <1>14, <1>15, <1>17, <1>18, <1>19, <1>20, <1>21, <1>22 DEF IInv

\* What a prune that found the chain valid signs was really appended.
LEMMA PruneSteps ==
  ASSUME IInv, Prune
  PROVE  IInv'
<1>1. /\ StateTypes /\ HeadTrue /\ HeadHeld /\ RowsInPlace /\ RowsTrue
      /\ NoneMissing /\ WitnessesTrue /\ PinsTrue /\ HoldsStop
  BY DEF IInv
<1>2. /\ appended \in Seq(Contents) /\ head \in HeadRecord
      /\ head.last \in Nat /\ head.archived \in Nat
      /\ head.archived <= head.last /\ head.last = Len(appended)
      /\ head.lastHash = appended
      /\ head.archivedHash = Prefix(appended, head.archived)
  BY <1>1, HeadNumbers
<1>3. Present /\ \A r \in rows : RowTrue(r)
  BY <1>1, VerifiedIsTrue DEF Prune
<1>4a. PICK n \in Positions : \E boundary \in At(n) :
        /\ Boundary(n)
        /\ witnesses' = witnesses \cup
             {<<r.sequence, r.chain>> : r \in {r \in rows : r.sequence <= n}}
        /\ rows' = rows \ {r \in rows : r.sequence <= n}
        /\ head' = [head EXCEPT !.archived = n, !.archivedHash = boundary.chain]
  BY DEF Prune
<1>4. PICK boundary \in At(n) :
        /\ Boundary(n)
        /\ witnesses' = witnesses \cup
             {<<r.sequence, r.chain>> : r \in {r \in rows : r.sequence <= n}}
        /\ rows' = rows \ {r \in rows : r.sequence <= n}
        /\ head' = [head EXCEPT !.archived = n, !.archivedHash = boundary.chain]
  BY <1>4a
<1>5. /\ lock = Nobody /\ retention = "pruning" /\ retention' = "running" /\ head.exists
      /\ UNCHANGED <<clock, lock, writer, hold, pinned, appended, exported, corrupted>>
  BY DEF Prune
<1>6. \A r \in rows : /\ r.sequence \in Nat /\ head.archived < r.sequence
                      /\ r.sequence <= head.last /\ r.chain = Prefix(appended, r.sequence)
  BY <1>1, <1>3, RowFields DEF RowTrue
<1>7. /\ boundary \in rows /\ boundary.sequence = n
      /\ boundary.chain = Prefix(appended, n)
      /\ n \in Nat /\ head.archived < n /\ n <= head.last
  BY <1>4, <1>6 DEF At
<1>8. n \in 0..Len(appended) /\ Prefix(appended, n) \in Seq(Contents)
  BY <1>2, <1>7, PrefixOf
<1>9. /\ head' \in HeadRecord /\ head'.exists = head.exists
      /\ head'.last = head.last /\ head'.lastHash = head.lastHash
      /\ head'.archived = n /\ head'.archivedHash = Prefix(appended, n)
  BY <1>2, <1>4, <1>7, <1>8 DEF HeadRecord
<1>10. \A r \in rows' : r \in rows /\ n < r.sequence
  BY <1>4, <1>6, <1>7
<1>11. StateTypes'
  BY <1>1, <1>5, <1>9, <1>10 DEF StateTypes
<1>12. HeadTrue'
  BY <1>1, <1>2, <1>5, <1>7, <1>9 DEF HeadTrue
<1>13. HeadHeld'
  BY <1>1, <1>5, <1>9 DEF HeadHeld
<1>14. RowsInPlace'
  BY <1>1, <1>6, <1>9, <1>10 DEF RowsInPlace
<1>15. RowsTrue'
  BY <1>1, <1>5, <1>10 DEF RowsTrue, RowTrue
<1>16. NoneMissing'
  <2>1. SUFFICES ASSUME NEW m \in (n + 1)..head.last PROVE \E r \in rows' : r.sequence = m
    BY <1>9 DEF NoneMissing, Present
  <2>2. m \in (head.archived + 1)..head.last /\ ~ (m <= n)
    BY <1>2, <1>7, <2>1
  <2>3. PICK r \in rows : r.sequence = m
    BY <1>3, <2>2 DEF Present
  <2> QED
    BY <1>4, <2>2, <2>3
<1>17. WitnessesTrue'
  <2>1. {<<r.sequence, r.chain>> : r \in {r \in rows : r.sequence <= n}}
          = {<<m, Prefix(appended, m)>> : m \in (head.archived + 1)..n}
    <3>1. ASSUME NEW r \in rows, r.sequence <= n
          PROVE  /\ r.sequence \in (head.archived + 1)..n
                 /\ <<r.sequence, r.chain>> = <<r.sequence, Prefix(appended, r.sequence)>>
      BY <1>2, <1>6, <1>7, <3>1
    <3>2. ASSUME NEW m \in (head.archived + 1)..n
          PROVE  \E r \in {r \in rows : r.sequence <= n} :
                   <<r.sequence, r.chain>> = <<m, Prefix(appended, m)>>
      <4>1. m \in (head.archived + 1)..head.last /\ m <= n
        BY <1>2, <1>7
      <4>2. PICK r \in rows : r.sequence = m
        BY <1>3, <4>1 DEF Present
      <4> QED
        BY <1>6, <4>1, <4>2
    <3> QED
      BY <3>1, <3>2
  <2>2. 1..n = (1..head.archived) \cup ((head.archived + 1)..n)
    BY <1>2, <1>7
  <2>3. witnesses' = {<<m, Prefix(appended, m)>> : m \in 1..n}
    BY <1>1, <1>4, <2>1, <2>2 DEF WitnessesTrue
  <2> QED
    BY <1>5, <1>9, <2>3 DEF WitnessesTrue
<1>18. PinsTrue'
  BY <1>1, <1>5, <1>9 DEF PinsTrue
<1>19. HoldsStop'
  BY <1>1, <1>5 DEF HoldsStop
<1> QED
  BY <1>11, <1>12, <1>13, <1>14, <1>15, <1>16, <1>17, <1>18, <1>19 DEF IInv

\* An exported prefix is gone; what is left is as it was.
LEMMA ArchiveSteps ==
  ASSUME IInv, Archive
  PROVE  IInv'
<1>1. /\ StateTypes /\ HeadTrue /\ HeadHeld /\ RowsInPlace /\ RowsTrue
      /\ NoneMissing /\ WitnessesTrue /\ PinsTrue /\ HoldsStop
  BY DEF IInv
<1>2. /\ rows' \subseteq rows /\ exported' = TRUE
      /\ UNCHANGED <<clock, head, witnesses, lock, writer, retention, hold, pinned,
                     appended, corrupted>>
  BY DEF Archive
<1>3. StateTypes'
  BY <1>1, <1>2 DEF StateTypes
<1>4. HeadTrue' /\ HeadHeld'
  BY <1>1, <1>2 DEF HeadTrue, HeadHeld
<1>5. RowsInPlace' /\ RowsTrue' /\ NoneMissing' /\ HoldsStop'
  BY <1>1, <1>2 DEF RowsInPlace, RowsTrue, RowTrue, NoneMissing, HoldsStop
<1>6. WitnessesTrue' /\ PinsTrue'
  BY <1>1, <1>2 DEF WitnessesTrue, PinsTrue
<1> QED
  BY <1>3, <1>4, <1>5, <1>6 DEF IInv

\* Whatever is done to a row, it keeps its place.
LEMMA CorruptSteps ==
  ASSUME IInv, Corrupt
  PROVE  IInv'
<1>1. /\ StateTypes /\ HeadTrue /\ HeadHeld /\ RowsInPlace /\ RowsTrue
      /\ NoneMissing /\ WitnessesTrue /\ PinsTrue /\ HoldsStop
  BY DEF IInv
<1>2. /\ ~corrupted /\ corrupted' = TRUE
      /\ UNCHANGED <<clock, head, witnesses, lock, writer, retention, hold, pinned,
                     appended, exported>>
  BY DEF Corrupt
<1>3. PICK r \in rows :
        \/ rows' = rows \ {r}
        \/ \E content \in Contents \ {r.content} :
             rows' = (rows \ {r}) \cup {[r EXCEPT !.content = content]}
        \/ \E content \in Contents \ {r.content} :
             rows' = (rows \ {r}) \cup
               {[r EXCEPT !.content = content, !.entry = content,
                  !.chain = Append(Prefix(r.chain, r.sequence - 1), content)]}
  BY DEF Corrupt
<1>4. /\ r \in RowRecord /\ rows \subseteq RowRecord
      /\ r.sequence \in 1..Len(appended) /\ r.sequence \in Nat
      /\ r.chain = Prefix(appended, r.sequence) /\ appended \in Seq(Contents)
  BY <1>1, <1>2, RowFields DEF StateTypes, RowsTrue, RowTrue
<1>5. Prefix(r.chain, r.sequence - 1) \in Seq(Contents)
  <2>1. Len(appended) \in Nat /\ r.sequence \in 0..Len(appended)
    BY <1>4, LenProperties
  <2>2. r.chain \in Seq(Contents) /\ Len(r.chain) = r.sequence
    BY <1>4, <2>1, PrefixOf
  <2>3. r.sequence - 1 \in 0..Len(r.chain)
    BY <1>4, <2>2
  <2> QED
    BY <2>2, <2>3, PrefixOf
\* At most one row is replaced, by one of the same sequence number.
<1>6. \/ rows' = rows \ {r}
      \/ \E s \in RowRecord : /\ s.sequence = r.sequence
                              /\ rows' = (rows \ {r}) \cup {s}
  <2>1. CASE rows' = rows \ {r}
    BY <2>1
  <2>2. ASSUME NEW content \in Contents,
               rows' = (rows \ {r}) \cup {[r EXCEPT !.content = content]}
        PROVE  \E s \in RowRecord : /\ s.sequence = r.sequence
                                    /\ rows' = (rows \ {r}) \cup {s}
    <3>1. /\ [r EXCEPT !.content = content] \in RowRecord
          /\ [r EXCEPT !.content = content].sequence = r.sequence
      BY <1>4 DEF RowRecord
    <3> QED
      BY <2>2, <3>1
  <2>3. ASSUME NEW content \in Contents,
               rows' = (rows \ {r}) \cup
                 {[r EXCEPT !.content = content, !.entry = content,
                    !.chain = Append(Prefix(r.chain, r.sequence - 1), content)]}
        PROVE  \E s \in RowRecord : /\ s.sequence = r.sequence
                                    /\ rows' = (rows \ {r}) \cup {s}
    <3> DEFINE forged == Append(Prefix(r.chain, r.sequence - 1), content)
    <3>1. forged \in Seq(Contents)
      BY <1>5, AppendProperties
    <3> HIDE DEF forged
    <3> DEFINE s == [r EXCEPT !.content = content, !.entry = content, !.chain = forged]
    <3>2. s \in RowRecord /\ s.sequence = r.sequence
      BY <1>4, <3>1 DEF RowRecord
    <3>3. rows' = (rows \ {r}) \cup {s}
      BY <2>3 DEF forged
    <3> HIDE DEF s
    <3> QED
      BY <3>2, <3>3
  <2> QED
    BY <1>3, <2>1, <2>2, <2>3
<1>7. StateTypes'
  <2>1. rows' \subseteq RowRecord
    BY <1>4, <1>6
  <2> QED
    BY <1>1, <1>2, <2>1 DEF StateTypes
<1>8. HeadTrue' /\ HeadHeld'
  BY <1>1, <1>2 DEF HeadTrue, HeadHeld
<1>9. RowsInPlace'
  <2>1. CASE rows' = rows \ {r}
    BY <1>1, <1>2, <2>1 DEF RowsInPlace
  <2>2. CASE \E s \in RowRecord : /\ s.sequence = r.sequence
                                  /\ rows' = (rows \ {r}) \cup {s}
    <3>1. PICK s \in RowRecord : s.sequence = r.sequence /\ rows' = (rows \ {r}) \cup {s}
      BY <2>2
    <3>2. \A x \in rows' : x = s \/ (x \in rows /\ x # r)
      BY <3>1
    <3> QED
      BY <1>1, <1>2, <3>1, <3>2 DEF RowsInPlace
  <2> QED
    BY <1>6, <2>1, <2>2
<1>10. RowsTrue' /\ NoneMissing' /\ HoldsStop'
  BY <1>1, <1>2 DEF RowsTrue, NoneMissing, HoldsStop
<1>11. WitnessesTrue' /\ PinsTrue'
  BY <1>1, <1>2 DEF WitnessesTrue, PinsTrue
<1> QED
  BY <1>7, <1>8, <1>9, <1>10, <1>11 DEF IInv

\* The steps that touch no record.
LEMMA OtherSteps ==
  ASSUME IInv,
         \/ TakeCheckpoint
         \/ BeginRetention
         \/ BeginPrune
         \/ EndRetention
         \/ ChangeHold
         \/ NextPeriod
         \/ UNCHANGED vars
  PROVE  IInv'
<1>1. /\ StateTypes /\ HeadTrue /\ HeadHeld /\ RowsInPlace /\ RowsTrue
      /\ NoneMissing /\ WitnessesTrue /\ PinsTrue /\ HoldsStop
  BY DEF IInv
<1>2. UNCHANGED <<rows, head, witnesses, lock, writer, appended, exported, corrupted>>
  BY DEF TakeCheckpoint, BeginRetention, BeginPrune, EndRetention, ChangeHold,
         NextPeriod, vars
<1>3. HeadTrue' /\ HeadHeld'
  BY <1>1, <1>2 DEF HeadTrue, HeadHeld
<1>4. RowsInPlace' /\ RowsTrue' /\ NoneMissing' /\ WitnessesTrue'
  BY <1>1, <1>2 DEF RowsInPlace, RowsTrue, RowTrue, NoneMissing, Present, WitnessesTrue
<1>5. StateTypes'
  <2>1. clock' = clock \/ clock' = clock + 1
    BY DEF TakeCheckpoint, BeginRetention, BeginPrune, EndRetention, ChangeHold,
           NextPeriod, vars
  <2> QED
    BY <1>1, <1>2, <2>1 DEF StateTypes
<1>6. PinsTrue'
  <2>1. CASE TakeCheckpoint
    <3>1. /\ head.last \in Nat /\ head.lastHash = Prefix(appended, head.last)
      BY <1>1, HeadNumbers, PrefixWhole
    <3>2. pinned' = {[sequence |-> head.last, hash |-> head.lastHash]}
      BY <2>1 DEF TakeCheckpoint
    <3> QED
      BY <1>2, <3>1, <3>2 DEF PinsTrue
  <2>2. CASE ~TakeCheckpoint
    <3>1. pinned' = pinned
      BY <2>2 DEF BeginRetention, BeginPrune, EndRetention, ChangeHold, NextPeriod, vars
    <3> QED
      BY <1>1, <1>2, <3>1 DEF PinsTrue
  <2> QED
    BY <2>1, <2>2
<1>7. HoldsStop'
  BY <1>1 DEF HoldsStop, TakeCheckpoint, BeginRetention, BeginPrune, EndRetention,
              ChangeHold, NextPeriod, vars
<1> QED
  BY <1>3, <1>4, <1>5, <1>6, <1>7 DEF IInv

LEMMA IStep == IInv /\ [Next]_vars => IInv'
<1> SUFFICES ASSUME IInv, [Next]_vars PROVE IInv'
  OBVIOUS
<1>1. CASE \E w \in Writers :
             \/ \E content \in Contents : BeginAppend(w, content)
             \/ CreateHead(w)
             \/ LockHead(w)
             \/ RollbackAppend(w)
  BY <1>1, WriterSteps
<1>2. CASE \E w \in Writers : CommitAppend(w)
  BY <1>2, CommitSteps
<1>3. CASE Prune
  BY <1>3, PruneSteps
<1>4. CASE Archive
  BY <1>4, ArchiveSteps
<1>5. CASE Corrupt
  BY <1>5, CorruptSteps
<1>6. CASE \/ TakeCheckpoint
           \/ BeginRetention
           \/ BeginPrune
           \/ EndRetention
           \/ ChangeHold
           \/ NextPeriod
           \/ UNCHANGED vars
  BY <1>6, OtherSteps
<1> QED
  BY <1>1, <1>2, <1>3, <1>4, <1>5, <1>6 DEF Next

LEMMA Invariance == Spec => []IInv
BY IInit, IStep, PTL DEF Spec

-----------------------------------------------------------------------------
(***************************************************************************)
(* The properties.                                                         *)
(***************************************************************************)

\* However appends interleave, whatever fails and whatever retention prunes,
\* what is left in the log is as it was appended, and unless a policy archives
\* the log nothing but the signed prefix is missing (AuditLog.save,
\* prune_audit_prefix).
THEOREM LogLosesNothing == Spec => []NothingLost
<1>1. IInv => NothingLost
  <2> SUFFICES ASSUME IInv, ~corrupted PROVE AsAppended /\ (exported \/ Faithful)
    BY DEF NothingLost
  <2>1. StateTypes /\ HeadTrue /\ RowsInPlace
    BY DEF IInv
  <2>2. /\ AsAppended <=> \A r \in rows : RowTrue(r)
        /\ Cardinality(rows) = head.last - head.archived <=> Present
    BY <2>1, FaithfulSays
  <2>3. AsAppended
    BY <2>2 DEF IInv, RowsTrue
  <2>4. ~exported => Present
    BY DEF IInv, NoneMissing
  <2> QED
    BY <2>2, <2>3, <2>4 DEF Faithful
<1> QED
  BY <1>1, Invariance, PTL

\* verify_chain accepts an intact chain, from any sequence and against a
\* checkpoint of any age, and accepts no other from the start: any number of
\* records, pruned to anywhere, one of them changed or lost in any way.
THEOREM VerdictIsCorrect == Spec => []VerdictCorrect
<1>1. IInv => VerdictCorrect
  <2> SUFFICES ASSUME IInv PROVE VerdictCorrect
    OBVIOUS
  <2>1. StateTypes /\ HeadTrue /\ RowsInPlace /\ WitnessesTrue /\ PinsTrue
    BY DEF IInv
  <2>2. Faithful <=> (\A r \in rows : RowTrue(r)) /\ Present
    BY <2>1, FaithfulSays DEF Faithful
  <2>3. ChainValid(1) => Faithful
    BY <2>1, <2>2, VerifiedIsTrue
  <2>4. Faithful => \A from \in 1..(head.last + 1) : ChainValid(from)
    BY <2>1, <2>2, TrueVerifies
  <2>5. ASSUME Faithful, NEW pin \in pinned, pin.sequence > 0 PROVE PinValid(pin)
    <3>1. /\ pin.sequence \in Nat /\ pin.sequence <= head.last
          /\ pin.hash = Prefix(appended, pin.sequence)
      BY <2>1 DEF PinsTrue
    <3>2. /\ head.last \in Nat /\ head.archived \in Nat
          /\ head.archivedHash = Prefix(appended, head.archived)
      BY <2>1, HeadNumbers
    <3>3. ASSUME pin.sequence > head.archived
          PROVE  \E r \in At(pin.sequence) : r.chain = pin.hash
      <4>1. pin.sequence \in (head.archived + 1)..head.last
        BY <3>1, <3>2, <3>3
      <4>2. PICK r \in rows : r.sequence = pin.sequence
        BY <2>2, <2>5, <4>1 DEF Present
      <4>3. r.chain = pin.hash
        BY <2>2, <2>5, <3>1, <4>2 DEF RowTrue
      <4> QED
        BY <4>2, <4>3 DEF At
    <3>4. ASSUME pin.sequence < head.archived
          PROVE  <<pin.sequence, pin.hash>> \in witnesses
      <4>1. pin.sequence \in 1..head.archived
        BY <2>5, <3>1, <3>2, <3>4
      <4> QED
        BY <2>1, <3>1, <4>1 DEF WitnessesTrue
    <3> QED
      BY <3>1, <3>2, <3>3, <3>4 DEF PinValid
  <2> QED
    BY <2>3, <2>4, <2>5 DEF VerdictCorrect
<1> QED
  BY <1>1, Invariance, PTL

\* Retention signs only what was really appended: no boundary and no witness
\* is taken from a chain that was touched (prune_audit_prefix verifies first).
THEOREM BoundariesAreTrue == Spec => []BoundariesTrue
<1>1. IInv => BoundariesTrue
  <2> SUFFICES ASSUME IInv PROVE BoundariesTrue
    OBVIOUS
  <2>1. HeadTrue /\ WitnessesTrue
    BY DEF IInv
  <2> QED
    BY <2>1 DEF BoundariesTrue, HeadTrue, WitnessesTrue
<1> QED
  BY <1>1, Invariance, PTL

\* While a hold is active no step of the application deletes a record, also
\* not one of a retention run begun before it was placed (LegalHold.save and
\* enforce_retention take the same lock).
THEOREM HoldsKeepRecords == Spec => HeldRecordsKept
<1>1. IInv /\ [Next]_vars => [hold /\ corrupted' = corrupted => rows \subseteq rows']_vars
  <2> SUFFICES ASSUME IInv, Next, hold, corrupted' = corrupted
               PROVE  rows \subseteq rows'
    OBVIOUS
  <2>1. retention = "idle"
    BY DEF IInv, HoldsStop
  <2>2. ~Prune /\ ~Archive
    BY <2>1 DEF Prune, Archive
  <2>3. ~Corrupt
    BY DEF Corrupt
  <2>4. ASSUME NEW w \in Writers, CommitAppend(w) PROVE rows \subseteq rows'
    BY <2>4 DEF CommitAppend
  <2>5. ASSUME \/ \E w \in Writers, content \in Contents : BeginAppend(w, content)
               \/ \E w \in Writers : CreateHead(w)
               \/ \E w \in Writers : LockHead(w)
               \/ \E w \in Writers : RollbackAppend(w)
               \/ TakeCheckpoint
               \/ BeginRetention
               \/ BeginPrune
               \/ EndRetention
               \/ ChangeHold
               \/ NextPeriod
        PROVE  rows' = rows
    BY <2>5 DEF BeginAppend, CreateHead, LockHead, RollbackAppend, TakeCheckpoint,
                BeginRetention, BeginPrune, EndRetention, ChangeHold, NextPeriod
  <2> QED
    BY <2>2, <2>3, <2>4, <2>5 DEF Next
<1> QED
  BY <1>1, Invariance, PTL DEF HeldRecordsKept, Spec

=============================================================================
