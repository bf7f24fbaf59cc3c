------------------------- MODULE PolicyEngineProofs -------------------------
(***************************************************************************)
(* Theorems about the two halves of services/policy_engine.py: PolicyCache *)
(* with PolicySaves (which policies an evaluation enforces) and            *)
(* PolicyDecision (what is in force, and what it decides of a call), for   *)
(* any number of writers, evaluations and writes, any lifetime of a cached *)
(* list, and for any rules.                                                *)
(***************************************************************************)
EXTENDS PolicySaves, PolicyDecision, FiniteSetTheorems, SequenceTheorems,
        WellFoundedInduction, TLAPS

(***************************************************************************)
(* Whatever is cached or was queried under a version has what landed by    *)
(* it, and is no older than its remaining ticks tell.                      *)
(***************************************************************************)
LandedInv ==
  /\ \A k \in Keys : Cached(k) => entry[k].policies >= landed[k]
  /\ \A e \in Readers : reader[e].stage = "queried" =>
       reader[e].result >= landed[reader[e].key]

AgeInv ==
  /\ \A i \in 1..Window : past[i] <= rows
  /\ \A k \in Keys, i \in 1..Window :
       Cached(k) /\ i > TTL - entry[k].left + Delay => entry[k].policies >= past[i]
  /\ \A e \in Readers, i \in 1..Window :
       reader[e].stage = "queried" /\ i > reader[e].waited => reader[e].result >= past[i]

IInv == TypeOK /\ LandedInv /\ AgeInv

-----------------------------------------------------------------------------
LEMMA Bounds ==
  /\ States \subseteq Nat /\ Keys \subseteq Nat /\ 0 \in States /\ 0 \in Keys
  /\ TTL \in Nat /\ TTL > 0 /\ Delay \in Nat /\ Window \in Nat /\ Window > Delay
  /\ MaxWrites \in Nat /\ MaxVersion \in Nat
BY PolicyCacheAssumption DEF States, Keys, Window

LEMMA Types ==
  ASSUME TypeOK
  PROVE  /\ rows \in Nat /\ rows \in States /\ version \in Keys /\ version \in Nat
         /\ DOMAIN landed \subseteq Keys /\ version \in DOMAIN landed /\ 0 \in DOMAIN landed
         /\ \A v \in 0..version : v \in DOMAIN landed
         /\ \A k \in DOMAIN landed : landed[k] \in Nat /\ landed[k] <= rows
         /\ \A k \in Keys : /\ entry[k] \in Entry
                            /\ entry[k].policies \in States /\ entry[k].policies \in Nat
                            /\ entry[k].left \in 0..TTL /\ entry[k].left \in Nat
         /\ \A e \in Readers : /\ reader[e] \in Evaluation
                               /\ reader[e].key \in DOMAIN landed
                               /\ reader[e].result \in States /\ reader[e].result \in Nat
                               /\ reader[e].waited \in 0..Delay
         /\ \A i \in 1..Window : past[i] \in States /\ past[i] \in Nat
<1>1. rows \in Nat /\ rows \in States
  BY Bounds DEF TypeOK
<1>2. PICK top \in Keys : landed \in [0..top -> 0..rows] /\ version \in 0..top
  BY DEF TypeOK
<1>3. DOMAIN landed = 0..top /\ top \in Nat
  BY <1>2, Bounds
<1>4. DOMAIN landed \subseteq Keys
  BY <1>2, <1>3, Bounds DEF Keys
<1>5. version \in Nat /\ version \in DOMAIN landed /\ 0 \in DOMAIN landed
      /\ \A v \in 0..version : v \in DOMAIN landed
  BY <1>2, <1>3
<1>6. \A k \in DOMAIN landed : landed[k] \in Nat /\ landed[k] <= rows
  BY <1>1, <1>2, <1>3
<1>7. \A k \in Keys : /\ entry[k] \in Entry
                      /\ entry[k].policies \in States /\ entry[k].policies \in Nat
                      /\ entry[k].left \in 0..TTL /\ entry[k].left \in Nat
  <2>1. entry \in [Keys -> Entry]
    BY DEF TypeOK
  <2>2. \A k \in Keys : /\ entry[k] \in Entry /\ entry[k].policies \in States
                        /\ entry[k].left \in 0..TTL
    BY <2>1 DEF Entry
  <2>3. \A n \in 0..TTL : n \in Nat
    BY Bounds
  <2>. QED
    BY <2>2, <2>3, Bounds
<1>8. \A e \in Readers : /\ reader[e] \in Evaluation
                         /\ reader[e].key \in DOMAIN landed
                         /\ reader[e].result \in States /\ reader[e].result \in Nat
                         /\ reader[e].waited \in 0..Delay
  BY Bounds DEF TypeOK, Evaluation
<1>9. \A i \in 1..Window : past[i] \in States /\ past[i] \in Nat
  BY Bounds DEF TypeOK
<1>. QED
  BY <1>1, <1>4, <1>5, <1>6, <1>7, <1>8, <1>9

LEMMA EvaluatingType ==
  ASSUME NEW stage \in {"idle", "keyed", "queried"}, NEW key \in Keys,
         NEW result \in States
  PROVE  /\ Evaluating(stage, key, result) \in Evaluation
         /\ Evaluating(stage, key, result).stage = stage
         /\ Evaluating(stage, key, result).key = key
         /\ Evaluating(stage, key, result).result = result
         /\ Evaluating(stage, key, result).waited = 0
BY Bounds DEF Evaluating, Evaluation

LEMMA InitIInv == Init => IInv
<1>. SUFFICES ASSUME Init PROVE IInv
  OBVIOUS
<1>1. NotThere \in Entry /\ NotThere.left = 0
  BY Bounds DEF NotThere, Entry
<1>2. \A k \in Keys : entry[k] = NotThere /\ ~Cached(k)
  BY <1>1 DEF Init, Cached
<1>3. \A e \in Readers : /\ reader[e] \in Evaluation /\ reader[e].stage = "idle"
                         /\ reader[e].key = 0 /\ reader[e].result = 0
  BY Bounds, EvaluatingType DEF Init
<1>4. writer \in [Writers -> Writer]
  BY DEF Init, Writer
<1>5. landed \in [0..0 -> 0..0] /\ 0..0 = {0} /\ rows = 0 /\ version = 0
  BY DEF Init
<1>6. past \in [1..Window -> States] /\ \A i \in 1..Window : past[i] = 0
  BY Bounds DEF Init
<1>7. entry \in [Keys -> Entry] /\ reader \in [Readers -> Evaluation]
  BY <1>1, <1>2, <1>3 DEF Init
<1>8. TypeOK
  BY <1>2, <1>3, <1>4, <1>5, <1>6, <1>7, Bounds DEF TypeOK
<1>. QED
  BY <1>2, <1>3, <1>5, <1>6, <1>8 DEF IInv, LandedInv, AgeInv

-----------------------------------------------------------------------------
(***************************************************************************)
(* Steps of writers.                                                       *)
(***************************************************************************)
LEMMA WriterType ==
  ASSUME TypeOK, NEW w \in Writers
  PROVE  /\ \A stage \in {"idle", "invalidating", "setting"} :
              [writer EXCEPT ![w].stage = stage] \in [Writers -> Writer]
         /\ \A tx \in {"none", "saved"} :
              [writer EXCEPT ![w].tx = tx] \in [Writers -> Writer]
         /\ [writer EXCEPT ![w] = [stage |-> "invalidating", tx |-> "saved"]]
              \in [Writers -> Writer]
BY DEF TypeOK, Writer

\* A writer moves on, and perhaps commits: there is more in the rows than there was.
LEMMA WriterIInv ==
  ASSUME IInv, writer' \in [Writers -> Writer],
         rows' = rows \/ (rows < MaxWrites /\ rows' = rows + 1),
         UNCHANGED <<version, entry, reader, past, landed>>
  PROVE  IInv'
<1>. USE DEF IInv
<1>1. rows \in Nat /\ rows' \in States /\ rows' \in Nat /\ rows <= rows'
  BY Types, Bounds DEF States
<1>2. \E top \in Keys : landed \in [0..top -> 0..rows'] /\ version \in 0..top
  <2>1. PICK top \in Keys : landed \in [0..top -> 0..rows] /\ version \in 0..top
    BY DEF TypeOK
  <2>2. 0..rows \subseteq 0..rows'
    BY <1>1
  <2>. QED
    BY <2>1, <2>2
<1>3. /\ \A k \in Keys : Cached(k) => entry[k].policies <= rows'
      /\ \A e \in Readers : reader[e].result <= rows'
      /\ \A i \in 1..Window : past[i] <= rows'
  <2>1. /\ \A k \in Keys : Cached(k) => entry[k].policies <= rows
        /\ \A e \in Readers : reader[e].result <= rows
        /\ \A i \in 1..Window : past[i] <= rows
    BY DEF TypeOK, AgeInv
  <2>. QED
    BY <1>1, <2>1, Types
<1>4. TypeOK'
  BY <1>1, <1>2, <1>3 DEF TypeOK, Cached
<1>5. LandedInv' /\ AgeInv'
  BY <1>3 DEF LandedInv, AgeInv, Cached
<1>. QED
  BY <1>4, <1>5

\* The counter comes to v, the next version or 1: if it has been there before,
\* what landed then stays; if not, nothing is cached or read under it yet.
LEMMA InvalidatedIInv ==
  ASSUME IInv, NEW w \in Writers, NEW v \in Keys, Invalidated(w, v),
         v - 1 \in DOMAIN landed
  PROVE  IInv'
<1>. USE DEF IInv
<1>1. PICK top \in Keys : landed \in [0..top -> 0..rows] /\ version \in 0..top
  BY DEF TypeOK
<1>2. /\ top \in Nat /\ v \in Nat /\ rows \in Nat /\ DOMAIN landed = 0..top
      /\ v - 1 \in 0..top
  BY <1>1, Types, Bounds
<1>3. /\ version' = v
      /\ landed' = [k \in DOMAIN landed \cup {v} |->
                      IF k \in DOMAIN landed THEN landed[k] ELSE rows]
      /\ writer' = [writer EXCEPT ![w].stage = "idle"]
      /\ UNCHANGED <<rows, entry, reader, past>>
  BY DEF Invalidated
<1>4. \A k \in DOMAIN landed : k \in DOMAIN landed' /\ landed'[k] = landed[k]
  BY <1>3
<1>5. \E new \in Keys : landed' \in [0..new -> 0..rows] /\ version' \in 0..new
  <2>1. CASE v \in 0..top
    <3>1. DOMAIN landed \cup {v} = 0..top
      BY <1>2, <2>1
    <3>2. landed' = [k \in 0..top |-> landed[k]]
      BY <1>2, <1>3, <3>1
    <3>. QED
      BY <1>1, <1>3, <2>1, <3>2
  <2>2. CASE v \notin 0..top
    <3>1. DOMAIN landed \cup {v} = 0..v /\ v \in 0..v
      BY <1>2, <2>2
    <3>2. \A k \in 0..v : (IF k \in DOMAIN landed THEN landed[k] ELSE rows) \in 0..rows
      BY <1>1, <1>2
    <3>3. landed' \in [0..v -> 0..rows]
      BY <1>3, <3>1, <3>2
    <3>. QED
      BY <1>3, <3>1, <3>3
  <2>. QED
    BY <2>1, <2>2
<1>6. writer' \in [Writers -> Writer]
  BY <1>3, WriterType
<1>7. TypeOK'
  BY <1>3, <1>4, <1>5, <1>6 DEF TypeOK, Cached
<1>8. LandedInv'
  <2>1. \A k \in Keys : Cached(k) => k \in DOMAIN landed /\ entry[k].policies >= landed[k]
    BY DEF TypeOK, LandedInv
  <2>2. \A e \in Readers : reader[e].stage = "queried" =>
          reader[e].key \in DOMAIN landed /\ reader[e].result >= landed[reader[e].key]
    BY Types DEF LandedInv
  <2>. QED
    BY <1>3, <1>4, <2>1, <2>2 DEF LandedInv, Cached
<1>9. AgeInv'
  BY <1>3 DEF AgeInv, Cached
<1>. QED
  BY <1>7, <1>8, <1>9

LEMMA WritersIInv ==
  ASSUME IInv, NEW w \in Writers,
         \/ Save(w) \/ InvalidateAgain(w) \/ SaveInTransaction(w)
         \/ CommitTransaction(w) \/ RollbackTransaction(w)
         \/ Incr(w) \/ IncrRaises(w) \/ SetOne(w) \/ InvalidationFails(w)
  PROVE  IInv'
<1>0. /\ \A stage \in {"idle", "invalidating", "setting"} :
           [writer EXCEPT ![w].stage = stage] \in [Writers -> Writer]
      /\ \A tx \in {"none", "saved"} : [writer EXCEPT ![w].tx = tx] \in [Writers -> Writer]
      /\ [writer EXCEPT ![w] = [stage |-> "invalidating", tx |-> "saved"]]
           \in [Writers -> Writer]
  BY WriterType DEF IInv
<1>1. CASE Save(w)
  <2>1. writer' \in [Writers -> Writer]
    BY <1>1, <1>0 DEF Save
  <2>. QED
    BY <1>1, <2>1, WriterIInv DEF Save
<1>2. CASE InvalidateAgain(w)
  <2>1. writer' \in [Writers -> Writer]
    BY <1>2, <1>0 DEF InvalidateAgain
  <2>2. rows' = rows
    BY <1>2 DEF InvalidateAgain
  <2>3. UNCHANGED <<version, entry, reader, past, landed>>
    BY <1>2 DEF InvalidateAgain
  <2>4. rows' = rows \/ (rows < MaxWrites /\ rows' = rows + 1)
    BY <2>2
  <2>. QED
    BY <2>1, <2>3, <2>4, WriterIInv
<1>3. CASE SaveInTransaction(w)
  <2>1. writer' \in [Writers -> Writer]
    BY <1>3, <1>0 DEF SaveInTransaction
  <2>2. rows' = rows
    BY <1>3 DEF SaveInTransaction
  <2>3. UNCHANGED <<version, entry, reader, past, landed>>
    BY <1>3 DEF SaveInTransaction
  <2>4. rows' = rows \/ (rows < MaxWrites /\ rows' = rows + 1)
    BY <2>2
  <2>. QED
    BY <2>1, <2>3, <2>4, WriterIInv
<1>4. CASE CommitTransaction(w)
  <2>1. writer' \in [Writers -> Writer]
    BY <1>4, <1>0 DEF CommitTransaction
  <2>. QED
    BY <1>4, <2>1, WriterIInv DEF CommitTransaction
<1>5. CASE RollbackTransaction(w)
  <2>1. writer' \in [Writers -> Writer]
    BY <1>5, <1>0 DEF RollbackTransaction
  <2>2. rows' = rows
    BY <1>5 DEF RollbackTransaction
  <2>3. UNCHANGED <<version, entry, reader, past, landed>>
    BY <1>5 DEF RollbackTransaction
  <2>4. rows' = rows \/ (rows < MaxWrites /\ rows' = rows + 1)
    BY <2>2
  <2>. QED
    BY <2>1, <2>3, <2>4, WriterIInv
<1>6. CASE Incr(w)
  <2>1. version + 1 \in Keys /\ (version + 1) - 1 \in DOMAIN landed
    BY <1>6, Types, Bounds DEF Incr, Keys, IInv
  <2>. QED
    BY <1>6, <2>1, InvalidatedIInv DEF Incr
<1>7. CASE SetOne(w)
  <2>1. 1 \in Keys /\ 1 - 1 \in DOMAIN landed
    BY Types, PolicyCacheAssumption DEF Keys, IInv
  <2>. QED
    BY <1>7, <2>1, InvalidatedIInv DEF SetOne
<1>8. CASE IncrRaises(w)
  <2>1. writer' \in [Writers -> Writer]
    BY <1>8, <1>0 DEF IncrRaises
  <2>2. rows' = rows
    BY <1>8 DEF IncrRaises
  <2>3. UNCHANGED <<version, entry, reader, past, landed>>
    BY <1>8 DEF IncrRaises
  <2>4. rows' = rows \/ (rows < MaxWrites /\ rows' = rows + 1)
    BY <2>2
  <2>. QED
    BY <2>1, <2>3, <2>4, WriterIInv
<1>9. CASE InvalidationFails(w)
  <2>1. writer' \in [Writers -> Writer]
    BY <1>9, <1>0 DEF InvalidationFails
  <2>2. rows' = rows
    BY <1>9 DEF InvalidationFails
  <2>3. UNCHANGED <<version, entry, reader, past, landed>>
    BY <1>9 DEF InvalidationFails
  <2>4. rows' = rows \/ (rows < MaxWrites /\ rows' = rows + 1)
    BY <2>2
  <2>. QED
    BY <2>1, <2>3, <2>4, WriterIInv
<1>. QED
  BY <1>1, <1>2, <1>3, <1>4, <1>5, <1>6, <1>7, <1>8, <1>9

-----------------------------------------------------------------------------
(***************************************************************************)
(* Steps of evaluations, of the cache and of the clock.                    *)
(***************************************************************************)

\* An evaluation moves on; the cache holds what it held.
LEMMA ReaderIInv ==
  ASSUME IInv, NEW e \in Readers, NEW next \in Evaluation,
         reader' = [reader EXCEPT ![e] = next],
         next.key \in DOMAIN landed, next.result <= rows,
         next.stage = "queried" =>
           next.result >= landed[next.key] /\ \A i \in 1..Window : next.result >= past[i],
         UNCHANGED <<rows, version, entry, writer, past, landed>>
  PROVE  IInv'
<1>. USE DEF IInv
<1>1. /\ reader' \in [Readers -> Evaluation] /\ reader'[e] = next
      /\ \A f \in Readers : f # e => reader'[f] = reader[f]
  BY DEF TypeOK
<1>2. TypeOK'
  BY <1>1 DEF TypeOK, Cached
<1>3. LandedInv'
  BY <1>1 DEF LandedInv, Cached
<1>4. AgeInv'
  BY <1>1 DEF AgeInv, Cached
<1>. QED
  BY <1>2, <1>3, <1>4

LEMMA ReadsIInv ==
  ASSUME IInv, NEW e \in Readers, ReadVersion(e) \/ Hit(e) \/ Query(e)
  PROVE  IInv'
<1>. DEFINE key == reader[e].key
<1>1. /\ key \in DOMAIN landed /\ key \in Keys /\ version \in DOMAIN landed /\ version \in Keys
      /\ 0 \in DOMAIN landed /\ 0 \in Keys /\ 0 \in States /\ rows \in States
      /\ entry[key].policies \in States /\ rows \in Nat /\ 0 <= rows /\ rows <= rows
      /\ landed[key] <= rows /\ landed[key] \in Nat
  <2>1. key \in DOMAIN landed /\ DOMAIN landed \subseteq Keys
    BY Types DEF IInv
  <2>2. /\ version \in DOMAIN landed /\ version \in Keys /\ 0 \in DOMAIN landed
        /\ rows \in States /\ rows \in Nat
    BY Types DEF IInv
  <2>3. key \in Keys
    BY <2>1
  <2>4. entry[key].policies \in States
    BY <2>3, Types DEF IInv
  <2>5. landed[key] <= rows /\ landed[key] \in Nat
    BY <2>1, Types DEF IInv
  <2>. QED
    BY <2>1, <2>2, <2>3, <2>4, <2>5, Bounds
<1>2. CASE ReadVersion(e)
  <2>. DEFINE next == Evaluating("keyed", version, 0)
  <2>1. /\ next \in Evaluation /\ next.stage = "keyed" /\ next.key = version
        /\ next.result = 0
    BY <1>1, EvaluatingType
  <2>2. /\ reader' = [reader EXCEPT ![e] = next]
        /\ UNCHANGED <<rows, version, entry, writer, past, landed>>
    BY <1>2 DEF ReadVersion
  <2>. HIDE DEF next
  <2>. QED
    BY <1>1, <2>1, <2>2, ReaderIInv
<1>3. CASE Hit(e)
  <2>. DEFINE next == Evaluating("idle", 0, entry[key].policies)
  <2>1. /\ next \in Evaluation /\ next.stage = "idle" /\ next.key = 0
        /\ next.result = entry[key].policies
    <3>. HIDE DEF key
    <3>. QED
      BY <1>1, EvaluatingType
  <2>2. /\ reader' = [reader EXCEPT ![e] = next] /\ Cached(key)
        /\ UNCHANGED <<rows, version, entry, writer, past, landed>>
    BY <1>3 DEF Hit
  <2>3. entry[key].policies <= rows
    BY <1>1, <2>2 DEF IInv, TypeOK
  <2>. HIDE DEF next, key
  <2>. QED
    BY <1>1, <2>1, <2>2, <2>3, ReaderIInv
<1>4. CASE Query(e)
  <2>. DEFINE next == Evaluating("queried", key, rows)
  <2>1. /\ next \in Evaluation /\ next.stage = "queried" /\ next.key = key
        /\ next.result = rows
    <3>. HIDE DEF key
    <3>. QED
      BY <1>1, EvaluatingType
  <2>2. /\ reader' = [reader EXCEPT ![e] = next]
        /\ UNCHANGED <<rows, version, entry, writer, past, landed>>
    BY <1>4 DEF Query
  <2>3. rows >= landed[key] /\ \A i \in 1..Window : rows >= past[i]
    BY <1>1, Types DEF IInv, AgeInv
  <2>. HIDE DEF next, key
  <2>. QED
    BY <1>1, <2>1, <2>2, <2>3, ReaderIInv
<1>. QED
  BY <1>2, <1>3, <1>4

LEMMA StoreIInv ==
  ASSUME IInv, NEW e \in Readers, Store(e)
  PROVE  IInv'
<1>. DEFINE key == reader[e].key
            result == reader[e].result
            new == [policies |-> result, left |-> TTL]
            next == Evaluating("idle", 0, result)
<1>1. /\ key \in DOMAIN landed /\ key \in Keys /\ result \in States /\ result <= rows
      /\ result >= landed[key] /\ reader[e].waited \in 0..Delay
      /\ \A i \in 1..Window : i > reader[e].waited => result >= past[i]
  BY Types DEF Store, StoreUnder, IInv, TypeOK, LandedInv, AgeInv
<1>2. new \in Entry /\ new.left = TTL /\ new.policies = result
  BY <1>1, Bounds DEF Entry
<1>3. /\ next \in Evaluation /\ next.stage = "idle" /\ next.key = 0 /\ next.result = result
  <2>. HIDE DEF result
  <2>. QED
    BY <1>1, Bounds, EvaluatingType
<1>4. /\ reader' = [reader EXCEPT ![e] = next]
      /\ entry' = [entry EXCEPT ![key] = new]
      /\ UNCHANGED <<rows, version, writer, past, landed>>
  BY DEF Store, StoreUnder
<1>5. 0 \in DOMAIN landed /\ \A i \in 1..Window : i > TTL - TTL + Delay => i > reader[e].waited
  BY <1>1, Types, Bounds DEF IInv
<1>. HIDE DEF key, result, new, next
<1>6. /\ reader' \in [Readers -> Evaluation] /\ reader'[e] = next
      /\ \A f \in Readers : f # e => reader'[f] = reader[f]
  BY <1>3, <1>4 DEF IInv, TypeOK
<1>7. /\ entry' \in [Keys -> Entry] /\ entry'[key] = new
      /\ \A k \in Keys : k # key => entry'[k] = entry[k]
  BY <1>1, <1>2, <1>4 DEF IInv, TypeOK
<1>8. TypeOK'
  <2>1. \A k \in Keys : Cached(k)' => k \in DOMAIN landed /\ entry'[k].policies <= rows
    BY <1>1, <1>2, <1>7 DEF IInv, TypeOK, Cached
  <2>2. \A f \in Readers : reader'[f].key \in DOMAIN landed /\ reader'[f].result <= rows
    BY <1>1, <1>3, <1>5, <1>6 DEF IInv, TypeOK
  <2>. QED
    BY <1>4, <1>6, <1>7, <2>1, <2>2 DEF IInv, TypeOK
<1>9. LandedInv'
  BY <1>1, <1>2, <1>3, <1>4, <1>6, <1>7 DEF IInv, LandedInv, Cached
<1>10. AgeInv'
  <2>1. ASSUME NEW k \in Keys, NEW i \in 1..Window, Cached(k)',
               i > TTL - entry'[k].left + Delay
        PROVE  entry'[k].policies >= past[i]
    <3>1. CASE k = key
      BY <1>1, <1>2, <1>5, <1>7, <2>1, <3>1
    <3>2. CASE k # key
      BY <1>7, <2>1, <3>2 DEF IInv, AgeInv, Cached
    <3>. QED
      BY <3>1, <3>2
  <2>2. \A f \in Readers, i \in 1..Window :
          reader'[f].stage = "queried" /\ i > reader'[f].waited => reader'[f].result >= past[i]
    BY <1>3, <1>6 DEF IInv, AgeInv
  <2>. QED
    BY <1>4, <2>1, <2>2 DEF IInv, AgeInv
<1>. QED
  BY <1>8, <1>9, <1>10 DEF IInv

LEMMA DropEntryIInv == IInv /\ DropEntry => IInv'
<1>. SUFFICES ASSUME IInv, DropEntry PROVE IInv'
  OBVIOUS
<1>1. PICK k \in Keys : entry' = [entry EXCEPT ![k] = NotThere]
  BY DEF DropEntry
<1>2. UNCHANGED <<rows, version, writer, reader, past, landed>>
  BY DEF DropEntry
<1>3. NotThere \in Entry /\ NotThere.left = 0
  BY Bounds DEF NotThere, Entry
<1>4. /\ entry' \in [Keys -> Entry] /\ entry'[k] = NotThere
      /\ \A j \in Keys : Cached(j)' => Cached(j) /\ entry'[j] = entry[j]
  BY <1>1, <1>3 DEF IInv, TypeOK, Cached
<1>5. TypeOK'
  BY <1>2, <1>4 DEF IInv, TypeOK
<1>6. LandedInv' /\ AgeInv'
  BY <1>2, <1>4 DEF IInv, LandedInv, AgeInv
<1>. QED
  BY <1>5, <1>6 DEF IInv

LEMMA LoseCounterIInv == IInv /\ LoseCounter => IInv'
<1>. SUFFICES ASSUME IInv, LoseCounter PROVE IInv'
  OBVIOUS
<1>1. PICK v \in 0..(version - 1) : version' = v
  BY DEF LoseCounter
<1>2. UNCHANGED <<rows, entry, writer, reader, past, landed>>
  BY DEF LoseCounter
<1>3. PICK top \in Keys : landed \in [0..top -> 0..rows] /\ version \in 0..top
  BY DEF IInv, TypeOK
<1>4. version' \in 0..top
  BY <1>1, <1>3, Bounds
<1>5. TypeOK'
  BY <1>2, <1>3, <1>4 DEF IInv, TypeOK, Cached
<1>6. LandedInv' /\ AgeInv'
  BY <1>2 DEF IInv, LandedInv, AgeInv, Cached
<1>. QED
  BY <1>5, <1>6 DEF IInv

\* A list left in the cache has one tick less, and is one tick older.
LEMMA TickIInv == IInv /\ Tick => IInv'
<1>. SUFFICES ASSUME IInv, Tick PROVE IInv'
  OBVIOUS
<1>1. /\ entry' = [k \in Keys |-> Aged(entry[k])]
      /\ past' = [i \in 1..Window |-> IF i = 1 THEN rows ELSE past[i - 1]]
      /\ UNCHANGED <<rows, version, writer, landed>>
  BY DEF Tick
<1>2. ASSUME NEW k \in Keys
      PROVE  /\ Aged(entry[k]) \in Entry /\ entry'[k] = Aged(entry[k])
             /\ Cached(k)' => /\ Cached(k) /\ entry'[k].policies = entry[k].policies
                              /\ entry'[k].left = entry[k].left - 1
  <2>1. entry[k] \in Entry /\ entry[k].left \in 0..TTL /\ entry'[k] = Aged(entry[k])
    BY <1>1, Types DEF IInv
  <2>2. PICK c \in Entry : c = entry[k]
    BY <2>1
  <2>3. CASE c.left > 1
    <3>1. Aged(c) = [c EXCEPT !.left = c.left - 1]
      BY <2>3 DEF Aged
    <3>2. c.left - 1 \in 0..TTL
      BY <2>1, <2>2, <2>3, Bounds
    <3>3. Aged(c) \in Entry /\ Aged(c).policies = c.policies /\ Aged(c).left = c.left - 1
      BY <3>1, <3>2 DEF Entry
    <3>. QED
      BY <2>1, <2>2, <2>3, <3>3 DEF Cached
  <2>4. CASE ~(c.left > 1)
    <3>1. Aged(c) = NotThere /\ NotThere \in Entry /\ NotThere.left = 0
      BY <2>4, Bounds DEF Aged, NotThere, Entry
    <3>. QED
      BY <2>1, <2>2, <3>1 DEF Cached
  <2>. QED
    BY <2>3, <2>4
<1>3. ASSUME NEW e \in Readers
      PROVE  /\ reader'[e] \in Evaluation /\ reader'[e].stage = reader[e].stage
             /\ reader'[e].key = reader[e].key /\ reader'[e].result = reader[e].result
             /\ reader[e].stage = "queried" => reader'[e].waited = reader[e].waited + 1
  <2>1. reader[e] \in Evaluation /\ reader[e].waited \in 0..Delay
    BY Types DEF IInv
  <2>2. reader'[e] = IF reader[e].stage = "queried"
                     THEN [reader[e] EXCEPT !.waited = reader[e].waited + 1] ELSE reader[e]
    BY DEF Tick
  <2>3. PICK r \in Evaluation : r = reader[e]
    BY <2>1
  <2>4. CASE r.stage = "queried"
    <3>1. r.waited < Delay
      BY <2>3, <2>4 DEF Tick
    <3>2. r.waited + 1 \in 0..Delay
      BY <2>1, <2>3, <3>1, Bounds
    <3>3. reader'[e] = [r EXCEPT !.waited = r.waited + 1]
      BY <2>2, <2>3, <2>4
    <3>. QED
      BY <2>3, <3>2, <3>3 DEF Evaluation
  <2>5. CASE r.stage # "queried"
    BY <2>1, <2>2, <2>3, <2>5
  <2>. QED
    BY <2>4, <2>5
<1>4. ASSUME NEW i \in 1..Window
      PROVE  /\ past'[i] = IF i = 1 THEN rows ELSE past[i - 1]
             /\ i # 1 => i - 1 \in 1..Window
             /\ past'[i] \in States /\ past'[i] <= rows
  <2>1. past'[i] = IF i = 1 THEN rows ELSE past[i - 1]
    BY <1>1
  <2>2. i # 1 => i - 1 \in 1..Window
    BY Bounds
  <2>3. rows \in States /\ rows <= rows
    BY Types DEF IInv
  <2>. QED
    BY <2>1, <2>2, <2>3, Types DEF IInv, AgeInv
<1>5. reader' \in [Readers -> Evaluation]
  BY <1>3 DEF Tick
<1>6. past' \in [1..Window -> States] /\ entry' \in [Keys -> Entry]
  BY <1>1, <1>2, <1>4
<1>7. TypeOK'
  <2>1. \A k \in Keys : Cached(k)' => k \in DOMAIN landed /\ entry'[k].policies <= rows
    BY <1>2 DEF IInv, TypeOK
  <2>2. \A e \in Readers : reader'[e].key \in DOMAIN landed /\ reader'[e].result <= rows
    BY <1>3 DEF IInv, TypeOK
  <2>. QED
    BY <1>1, <1>5, <1>6, <2>1, <2>2 DEF IInv, TypeOK
<1>8. LandedInv'
  BY <1>1, <1>2, <1>3 DEF IInv, LandedInv
<1>9. AgeInv'
  <2>1. \A i \in 1..Window : past'[i] <= rows'
    BY <1>1, <1>4
  <2>2. ASSUME NEW k \in Keys, NEW i \in 1..Window, Cached(k)',
               i > TTL - entry'[k].left + Delay
        PROVE  entry'[k].policies >= past'[i]
    <3>1. /\ Cached(k) /\ entry'[k].policies = entry[k].policies
          /\ entry'[k].left = entry[k].left - 1 /\ entry[k].left \in 0..TTL
      BY <1>2, <2>2, Types DEF IInv
    <3>2. i # 1 /\ i - 1 > TTL - entry[k].left + Delay
      BY <2>2, <3>1, Bounds
    <3>3. entry[k].policies >= past[i - 1]
      BY <1>4, <3>1, <3>2 DEF IInv, AgeInv
    <3>. QED
      BY <1>4, <3>1, <3>2, <3>3
  <2>3. ASSUME NEW e \in Readers, NEW i \in 1..Window, reader'[e].stage = "queried",
               i > reader'[e].waited
        PROVE  reader'[e].result >= past'[i]
    <3>1. /\ reader[e].stage = "queried" /\ reader'[e].result = reader[e].result
          /\ reader'[e].waited = reader[e].waited + 1 /\ reader[e].waited \in 0..Delay
      BY <1>3, <2>3, Types DEF IInv
    <3>2. i # 1 /\ i - 1 > reader[e].waited
      BY <2>3, <3>1, Bounds
    <3>3. reader[e].result >= past[i - 1]
      BY <1>4, <3>1, <3>2 DEF IInv, AgeInv
    <3>. QED
      BY <1>4, <3>1, <3>2, <3>3
  <2>. QED
    BY <2>1, <2>2, <2>3 DEF AgeInv
<1>. QED
  BY <1>7, <1>8, <1>9 DEF IInv

LEMMA NextIInv == IInv /\ [Next]_vars => IInv'
<1>. SUFFICES ASSUME IInv, [Next]_vars PROVE IInv'
  OBVIOUS
<1>1. CASE UNCHANGED vars
  BY <1>1 DEF vars, IInv, TypeOK, LandedInv, AgeInv, Cached
<1>. QED
  BY <1>1, WritersIInv, ReadsIInv, StoreIInv, DropEntryIInv, LoseCounterIInv, TickIInv
     DEF Next, AutocommitNext

LEMMA Invariance == Spec => []IInv
BY InitIInv, NextIInv, PTL DEF Spec

-----------------------------------------------------------------------------
\* A step after which an evaluation enforces is a hit or a store of its own.
LEMMA EnforcingSteps ==
  ASSUME IInv, [Next]_vars, NEW e \in Readers, Enforces(e)
  PROVE  Hit(e) \/ Store(e)
<1>1. reader[e].stage # "idle" /\ reader'[e].stage = "idle" /\ reader' # reader
  BY DEF Enforces
<1>2. ASSUME NEW f \in Readers, ReadVersion(f) \/ Hit(f) \/ Query(f) \/ Store(f)
      PROVE  f = e /\ (Hit(e) \/ Store(e))
  <2>1. reader \in [Readers -> Evaluation]
    BY DEF IInv, TypeOK
  <2>2. \E next : reader' = [reader EXCEPT ![f] = next]
    BY <1>2 DEF ReadVersion, Hit, Query, Store, StoreUnder
  <2>3. f = e
    BY <1>1, <2>1, <2>2
  <2>4. ~ReadVersion(e)
    BY <1>1 DEF ReadVersion
  <2>5. ~Query(e)
    <3>1. Query(e) => reader'[e] = Evaluating("queried", reader[e].key, rows)
      BY <2>1 DEF Query
    <3>. QED
      BY <1>1, <3>1 DEF Evaluating
  <2>. QED
    BY <1>2, <2>3, <2>4, <2>5
<1>3. ~Tick
  <2>1. ASSUME Tick PROVE reader'[e].stage = reader[e].stage
    <3>1. reader[e] \in Evaluation
      BY Types DEF IInv
    <3>2. PICK r \in Evaluation : r = reader[e]
      BY <3>1
    <3>3. reader'[e] = IF r.stage = "queried" THEN [r EXCEPT !.waited = r.waited + 1] ELSE r
      BY <2>1, <3>2 DEF Tick
    <3>. QED
      BY <3>2, <3>3 DEF Evaluation
  <2>. QED
    BY <1>1, <2>1
<1>4. /\ ~DropEntry /\ ~LoseCounter /\ ~UNCHANGED vars
      /\ \A w \in Writers : /\ ~Save(w) /\ ~InvalidateAgain(w) /\ ~IncrRaises(w)
                            /\ ~InvalidationFails(w) /\ ~SaveInTransaction(w)
                            /\ ~CommitTransaction(w) /\ ~RollbackTransaction(w)
  BY <1>1 DEF DropEntry, LoseCounter, vars, Save, InvalidateAgain, IncrRaises,
     InvalidationFails, SaveInTransaction, CommitTransaction, RollbackTransaction
<1>5. \A w \in Writers : ~Incr(w) /\ ~SetOne(w)
  BY <1>1 DEF Incr, SetOne, Invalidated
<1>. QED
  BY <1>2, <1>3, <1>4, <1>5 DEF Next, AutocommitNext

\* What such a step enforces has landed by the key's version, and is no older
\* than a lifetime and a delay.
LEMMA EnforcedFresh ==
  ASSUME IInv, [Next]_vars, NEW e \in Readers, Enforces(e)
  PROVE  /\ reader'[e].result >= landed[reader[e].key]
         /\ reader'[e].result >= past[Window]
<1>. DEFINE key == reader[e].key
<1>1. /\ key \in Keys /\ entry[key].policies \in States /\ entry[key].left \in 0..TTL
      /\ reader[e].result \in States /\ reader[e].waited \in 0..Delay
      /\ reader \in [Readers -> Evaluation] /\ Window \in 1..Window
  <2>1. key \in DOMAIN landed /\ DOMAIN landed \subseteq Keys
    BY Types DEF IInv
  <2>2. key \in Keys
    BY <2>1
  <2>3. entry[key].policies \in States /\ entry[key].left \in 0..TTL
    BY <2>2, Types DEF IInv
  <2>4. reader[e].result \in States /\ reader[e].waited \in 0..Delay
    BY Types DEF IInv
  <2>5. reader \in [Readers -> Evaluation]
    BY DEF IInv, TypeOK
  <2>6. Window \in 1..Window
    BY Bounds
  <2>. QED
    BY <2>2, <2>3, <2>4, <2>5, <2>6
<1>2. CASE Hit(e)
  <2>1. reader'[e] = Evaluating("idle", 0, entry[key].policies) /\ Cached(key)
    BY <1>1, <1>2 DEF Hit
  <2>2. reader'[e].result = entry[key].policies
    BY <2>1 DEF Evaluating
  <2>3. Window > TTL - entry[key].left + Delay
    BY <1>1, <2>1, Bounds DEF Window, Cached
  <2>4. entry[key].policies >= landed[key]
    BY <1>1, <2>1 DEF IInv, LandedInv
  <2>5. entry[key].policies >= past[Window]
    BY <1>1, <2>1, <2>3 DEF IInv, AgeInv
  <2>. QED
    BY <2>2, <2>4, <2>5
<1>3. CASE Store(e)
  <2>1. reader'[e] = Evaluating("idle", 0, reader[e].result) /\ reader[e].stage = "queried"
    BY <1>1, <1>3 DEF Store, StoreUnder
  <2>2. reader'[e].result = reader[e].result
    BY <2>1 DEF Evaluating
  <2>3. Window > reader[e].waited
    BY <1>1, Bounds
  <2>. QED
    BY <1>1, <2>1, <2>2, <2>3 DEF IInv, LandedInv, AgeInv
<1>. QED
  BY <1>2, <1>3, EnforcingSteps

\* Nothing is cached, and nobody reads, under a version the counter never had,
\* wherever it is set back or lost.
THEOREM TypeCorrect == Spec => []TypeOK
BY Invariance, PTL DEF IInv

\* Wherever late sets, lost counters, failed invalidations and open transactions
\* take the counter, an evaluation enforces every write committed as the counter
\* first came to the version it read: the next new version catches up.
THEOREM InvalidationsCatchUp == Spec => InvalidatedIsEnforced
<1>1. IInv /\ [Next]_vars =>
        [\A e \in Readers :
           Enforces(e) => reader'[e].result >= landed[reader[e].key]]_vars
  BY EnforcedFresh
<1>. QED
  BY <1>1, Invariance, PTL DEF Spec, InvalidatedIsEnforced

\* Where invalidation fails altogether, no evaluation enforces policies older
\* than a cached list's lifetime and an evaluation's delay.
THEOREM StalenessIsBounded == Spec => StalenessBounded
<1>1. IInv /\ [Next]_vars =>
        [\A e \in Readers : Enforces(e) => reader'[e].result >= past[Window]]_vars
  BY EnforcedFresh
<1>. QED
  BY <1>1, Invariance, PTL DEF Spec, StalenessBounded

-----------------------------------------------------------------------------
(***************************************************************************)
(* Writers in autocommit.  What is settled is what landed by the highest   *)
(* version the counter has had, so that an evaluation was promised no more *)
(* than what landed by the version it read.                                *)
(***************************************************************************)
SavesInv ==
  /\ IInv
  /\ announced = {}
  /\ promised \in [Readers -> Nat]
  /\ \A v \in DOMAIN landed :
       (\A u \in DOMAIN landed : u <= v) => settled = landed[v]
  /\ \A e \in Readers :
       IF reader[e].stage = "idle" THEN reader[e].result >= promised[e]
       ELSE promised[e] <= landed[reader[e].key]
  /\ \A w \in Writers : writer[w].tx = "none"

LEMMA SavesInvInit == SavesInit => SavesInv
<1>. SUFFICES ASSUME SavesInit PROVE SavesInv
  OBVIOUS
<1>1. IInv
  BY InitIInv DEF SavesInit
<1>2. \A e \in Readers : reader[e].stage = "idle" /\ reader[e].result = 0
  BY Bounds, EvaluatingType DEF SavesInit, Init
<1>3. DOMAIN landed = {0} /\ landed[0] = 0
  BY DEF SavesInit, Init
<1>4. \A w \in Writers : writer[w].tx = "none"
  BY DEF SavesInit, Init
<1>. QED
  BY <1>1, <1>2, <1>3, <1>4 DEF SavesInv, SavesInit

\* No writer of an autocommit behaviour comes to be in a transaction.
LEMMA StaysOutside ==
  ASSUME SavesInv, AutocommitNext
  PROVE  \A w \in Writers : writer'[w].tx = "none"
<1>1. writer \in [Writers -> Writer] /\ \A w \in Writers : writer[w].tx = "none"
  BY DEF SavesInv, IInv, TypeOK
<1>2. ASSUME NEW v \in Writers, NEW stage, writer' = [writer EXCEPT ![v].stage = stage]
      PROVE  \A w \in Writers : writer'[w].tx = "none"
  <2>1. ASSUME NEW w \in Writers PROVE writer'[w].tx = "none"
    <3>1. PICK r \in Writer : r = writer[w]
      BY <1>1
    <3>2. writer'[w] = r \/ writer'[w] = [r EXCEPT !.stage = stage]
      BY <1>1, <1>2, <3>1
    <3>. QED
      BY <1>1, <3>1, <3>2 DEF Writer
  <2>. QED
    BY <2>1
<1>3. CASE UNCHANGED writer
  BY <1>1, <1>3
<1>4. \/ UNCHANGED writer
      \/ \E v \in Writers, stage \in {"idle", "invalidating", "setting"} :
           writer' = [writer EXCEPT ![v].stage = stage]
  BY DEF AutocommitNext, Save, InvalidateAgain, Incr, IncrRaises, SetOne, Invalidated,
     InvalidationFails, ReadVersion, Hit, Query, Store, StoreUnder, DropEntry,
     LoseCounter, Tick
<1>. QED
  BY <1>2, <1>3, <1>4

\* The counter moves: what settles is what lands.
LEMMA SettledLands ==
  ASSUME SavesInv, AutocommitNext, Saves
  PROVE  /\ \A v \in DOMAIN landed' :
              (\A u \in DOMAIN landed' : u <= v) => settled' = landed'[v]
         /\ \A k \in DOMAIN landed : landed'[k] = landed[k]
<1>1. settled' = IF NewVersion THEN rows' ELSE settled
  BY DEF SavesInv, Saves
<1>2. CASE UNCHANGED landed
  BY <1>1, <1>2 DEF SavesInv, NewVersion
<1>3. ASSUME NEW w \in Writers, Incr(w) \/ SetOne(w)
      PROVE  /\ \A v \in DOMAIN landed' :
                   (\A u \in DOMAIN landed' : u <= v) => settled' = landed'[v]
             /\ \A k \in DOMAIN landed : landed'[k] = landed[k]
  <2>1. PICK v \in Keys : Invalidated(w, v)
    <3>1. version \in 1..(MaxVersion - 1) => version + 1 \in Keys
      BY Bounds DEF Keys
    <3>2. 1 \in Keys
      BY PolicyCacheAssumption DEF Keys
    <3>. QED
      BY <1>3, <3>1, <3>2 DEF Incr, SetOne
  <2>2. /\ landed' = [k \in DOMAIN landed \cup {v} |->
                       IF k \in DOMAIN landed THEN landed[k] ELSE rows]
        /\ rows' = rows
    BY <2>1 DEF Invalidated
  <2>3. /\ DOMAIN landed' = DOMAIN landed \cup {v}
        /\ \A k \in DOMAIN landed : landed'[k] = landed[k]
        /\ v \notin DOMAIN landed => landed'[v] = rows
    BY <2>2
  <2>4. PICK top \in Keys : landed \in [0..top -> 0..rows]
    BY DEF SavesInv, IInv, TypeOK
  <2>5. DOMAIN landed = 0..top /\ top \in Nat /\ v \in Nat
    BY <2>4, Bounds
  <2>6. CASE v \in DOMAIN landed
    <3>1. landed' = landed
      <4>1. DOMAIN landed \cup {v} = 0..top
        BY <2>5, <2>6
      <4>2. landed' = [k \in 0..top |-> landed[k]]
        BY <2>2, <2>5, <4>1
      <4>. QED
        BY <2>4, <4>2
    <3>. QED
      BY <1>2, <3>1
  <2>7. CASE v \notin DOMAIN landed
    <3>1. settled' = rows
      BY <1>1, <2>2, <2>3, <2>7 DEF NewVersion
    <3>2. \A u \in DOMAIN landed : u < v
      BY <2>5, <2>7
    <3>3. ASSUME NEW u \in DOMAIN landed', \A x \in DOMAIN landed' : x <= u PROVE u = v
      <4>1. v <= u
        BY <2>3, <3>3
      <4>. QED
        BY <2>3, <2>5, <3>2, <4>1
    <3>. QED
      BY <2>3, <2>7, <3>1, <3>3
  <2>. QED
    BY <2>6, <2>7
<1>4. UNCHANGED landed \/ \E w \in Writers : Incr(w) \/ SetOne(w)
  BY DEF AutocommitNext, Save, InvalidateAgain, IncrRaises, InvalidationFails,
     ReadVersion, Hit, Query, Store, StoreUnder, DropEntry, LoseCounter, Tick
<1>. QED
  BY <1>2, <1>3, <1>4

\* Evaluations start with what is promised, keep it, and enforce no less.
LEMMA PromisesKept ==
  ASSUME SavesInv, AutocommitNext, Saves, NEW e \in Readers
  PROVE  /\ promised'[e] \in Nat
         /\ IF reader'[e].stage = "idle" THEN reader'[e].result >= promised'[e]
            ELSE promised'[e] <= landed'[reader'[e].key]
<1>1. IInv /\ [Next]_vars
  BY DEF SavesInv, Next
<1>2. /\ promised'[e] = IF reader[e].stage = "idle" /\ reader'[e].stage = "keyed"
                       THEN Promised ELSE promised[e]
      /\ promised[e] \in Nat
  BY DEF Saves, SavesInv
<1>3. \A k \in DOMAIN landed : landed'[k] = landed[k]
  BY SettledLands
<1>4. reader[e].key \in DOMAIN landed /\ landed[reader[e].key] \in Nat
      /\ version \in DOMAIN landed /\ landed[version] \in Nat
      /\ reader \in [Readers -> Evaluation]
  <2>1. reader[e].key \in DOMAIN landed /\ version \in DOMAIN landed
    BY <1>1, Types DEF IInv
  <2>2. \A k \in DOMAIN landed : landed[k] \in Nat
    BY <1>1, Types DEF IInv
  <2>. QED
    BY <1>1, <2>1, <2>2 DEF IInv, TypeOK
<1>5. CASE Enforces(e)
  <2>1. reader'[e].result >= landed[reader[e].key]
    BY <1>1, <1>5, EnforcedFresh
  <2>2. promised'[e] = promised[e] /\ promised[e] <= landed[reader[e].key]
    BY <1>2, <1>5 DEF Enforces, SavesInv
  <2>3. reader'[e].result \in Nat
    <3>1. IInv'
      BY <1>1, NextIInv
    <3>2. reader'[e] \in Evaluation
      BY <3>1 DEF IInv, TypeOK
    <3>. QED
      BY <3>2, Bounds DEF Evaluation
  <2>. QED
    BY <1>2, <1>4, <1>5, <2>1, <2>2, <2>3 DEF Enforces
<1>6. CASE reader[e].stage = "idle" /\ reader'[e].stage = "keyed"
  <2>1. reader'[e].key = version
    <3>1. ReadVersion(e)
      <4>1. ASSUME NEW f \in Readers,
                   ReadVersion(f) \/ Hit(f) \/ Query(f) \/ Store(f)
            PROVE  ReadVersion(e)
        <5>1. \E next : reader' = [reader EXCEPT ![f] = next]
          BY <4>1 DEF ReadVersion, Hit, Query, Store, StoreUnder
        <5>2. f = e
          BY <1>4, <1>6, <5>1
        <5>. QED
          BY <1>6, <4>1, <5>2 DEF Hit, Query, Store, StoreUnder
      <4>2. ~Tick
        <5>1. ASSUME Tick PROVE reader'[e] = reader[e]
          BY <1>6, <5>1 DEF Tick
        <5>. QED
          BY <1>6, <5>1
      <4>3. ~UNCHANGED reader
        BY <1>6
      <4>4. \/ UNCHANGED reader \/ Tick
            \/ \E f \in Readers : ReadVersion(f) \/ Hit(f) \/ Query(f) \/ Store(f)
        BY DEF AutocommitNext, Save, InvalidateAgain, Incr, IncrRaises, SetOne,
           Invalidated, InvalidationFails, DropEntry, LoseCounter
      <4>. QED
        BY <4>1, <4>2, <4>3, <4>4
    <3>. QED
      BY <1>4, <3>1 DEF ReadVersion, Evaluating
  <2>2. Promised \in Nat /\ Promised <= landed[version]
    <3>1. CASE \E v \in DOMAIN landed : v > version
      BY <1>4, <3>1 DEF Promised
    <3>2. CASE ~ \E v \in DOMAIN landed : v > version
      <4>1. DOMAIN landed \subseteq Nat /\ version \in Nat
        BY <1>1, Types, Bounds DEF IInv
      <4>2. \A u \in DOMAIN landed : u <= version
        BY <3>2, <4>1
      <4>3. settled = landed[version]
        BY <1>4, <4>2 DEF SavesInv
      <4>. QED
        BY <1>4, <3>2, <4>3 DEF Promised
    <3>. QED
      BY <3>1, <3>2
  <2>. QED
    BY <1>2, <1>3, <1>4, <1>6, <2>1, <2>2
<1>7. CASE ~Enforces(e) /\ ~(reader[e].stage = "idle" /\ reader'[e].stage = "keyed")
  <2>1. \/ reader'[e].stage = "idle" /\ reader[e].stage = "idle"
           /\ reader'[e].result = reader[e].result
        \/ reader'[e].stage # "idle" /\ reader[e].stage # "idle"
           /\ reader'[e].key = reader[e].key
    <3>1. ASSUME NEW f \in Readers, ReadVersion(f) \/ Hit(f) \/ Query(f) \/ Store(f)
          PROVE  \/ reader'[e] = reader[e]
                 \/ /\ reader[e].stage = "keyed"
                    /\ reader'[e] = Evaluating("queried", reader[e].key, rows)
      <4>1. CASE ReadVersion(f)
        BY <1>4, <1>7, <4>1 DEF ReadVersion, Evaluating
      <4>2. CASE Hit(f)
        BY <1>4, <1>7, <4>2 DEF Hit, Evaluating, Enforces
      <4>3. CASE Query(f)
        BY <1>4, <4>3 DEF Query
      <4>4. CASE Store(f)
        BY <1>4, <1>7, <4>4 DEF Store, StoreUnder, Evaluating, Enforces
      <4>. QED
        BY <3>1, <4>1, <4>2, <4>3, <4>4
    <3>2. Tick => /\ reader'[e].stage = reader[e].stage /\ reader'[e].key = reader[e].key
                  /\ reader'[e].result = reader[e].result
      <4>1. PICK r \in Evaluation : r = reader[e]
        BY <1>4
      <4>2. Tick => reader'[e] = IF r.stage = "queried"
                                THEN [r EXCEPT !.waited = r.waited + 1] ELSE r
        BY <4>1 DEF Tick
      <4>. QED
        BY <4>1, <4>2 DEF Evaluation
    <3>3. \/ UNCHANGED reader \/ Tick
          \/ \E f \in Readers : ReadVersion(f) \/ Hit(f) \/ Query(f) \/ Store(f)
      BY DEF AutocommitNext, Save, InvalidateAgain, Incr, IncrRaises, SetOne,
         Invalidated, InvalidationFails, DropEntry, LoseCounter
    <3>. QED
      BY <3>1, <3>2, <3>3 DEF Evaluating
  <2>2. promised'[e] = promised[e]
    BY <1>2, <1>7
  <2>3. reader[e].stage = "idle" => reader[e].result >= promised[e]
    BY DEF SavesInv
  <2>4. reader[e].stage # "idle" => promised[e] <= landed[reader[e].key]
    BY DEF SavesInv
  <2>. QED
    BY <1>2, <1>3, <1>4, <2>1, <2>2, <2>3, <2>4
<1>. QED
  BY <1>5, <1>6, <1>7

LEMMA SavesInvNext == SavesInv /\ [AutocommitNext /\ Saves]_savesVars => SavesInv'
<1>. SUFFICES ASSUME SavesInv, [AutocommitNext /\ Saves]_savesVars PROVE SavesInv'
  OBVIOUS
<1>1. CASE AutocommitNext /\ Saves
  <2>1. IInv'
    BY <1>1, NextIInv DEF SavesInv, Next
  <2>2. \A w \in Writers : writer'[w].tx = "none"
    BY <1>1, StaysOutside
  <2>3. announced' = {}
    <3>1. \A w \in Writers : writer'[w] # [stage |-> "idle", tx |-> "saved"]
      BY <2>2
    <3>. QED
      BY <1>1, <3>1 DEF Saves
  <2>4. promised' \in [Readers -> Nat]
    <3>1. \A e \in Readers : promised'[e] \in Nat
      BY <1>1, PromisesKept
    <3>2. \E d : promised' = [e \in Readers |-> d[e]]
      <4>1. promised' = [e \in Readers |-> promised'[e]]
        BY <1>1 DEF Saves
      <4>. QED
        BY <4>1
    <3>. QED
      BY <3>1, <3>2
  <2>5. \A v \in DOMAIN landed' :
          (\A u \in DOMAIN landed' : u <= v) => settled' = landed'[v]
    BY <1>1, SettledLands
  <2>6. \A e \in Readers :
          IF reader'[e].stage = "idle" THEN reader'[e].result >= promised'[e]
          ELSE promised'[e] <= landed'[reader'[e].key]
    BY <1>1, PromisesKept
  <2>. QED
    BY <2>1, <2>2, <2>3, <2>4, <2>5, <2>6 DEF SavesInv
<1>2. CASE UNCHANGED savesVars
  <2>1. UNCHANGED vars /\ UNCHANGED <<settled, announced, promised>>
    BY <1>2 DEF savesVars
  <2>2. IInv'
    BY <2>1, NextIInv DEF SavesInv
  <2>. QED
    BY <2>1, <2>2 DEF SavesInv, vars
<1>. QED
  BY <1>1, <1>2

\* With writers outside transactions only, an evaluation that starts after a
\* write's request has finished enforces that write, unless the write was not
\* invalidated or the counter was lost or set back.
THEOREM SavedPoliciesAreEnforced == AutocommitSpec => []SavedIsEnforced
<1>1. SavesInv => SavedIsEnforced
  BY DEF SavesInv, SavedIsEnforced
<1>. QED
  BY <1>1, SavesInvInit, SavesInvNext, PTL DEF AutocommitSpec

-----------------------------------------------------------------------------
(***************************************************************************)
(* PolicyDecision.  First an induction over the numbers in a set.          *)
(***************************************************************************)
LEMMA AllNumbers ==
  ASSUME NEW S, 0 \in S, \A n \in Nat : n \in S => n + 1 \in S
  PROVE  \A n \in Nat : n \in S
<1> DEFINE Missing == Nat \ S
           Less == OpToRel(<, Nat)
<1>1. SUFFICES ASSUME Missing # {} PROVE FALSE
  OBVIOUS
<1>2. IsWellFoundedOn(Less, Nat)
  BY NatLessThanWellFounded, Zenon
<1>3. Missing \subseteq Nat
  OBVIOUS
<1> HIDE DEF Missing, Less
<1>4. PICK least \in Missing : \A m \in Missing : ~ (<<m, least>> \in Less)
  BY <1>1, <1>2, <1>3, WFMin
<1>5. least \in Nat /\ least # 0 /\ least \notin S
  BY <1>3, <1>4 DEF Missing
<1>6. least - 1 \in Nat /\ least - 1 < least /\ least = (least - 1) + 1
  BY <1>5
<1>7. least - 1 \in Missing
  BY <1>5, <1>6 DEF Missing
<1>8. <<least - 1, least>> \in Less
  BY <1>5, <1>6 DEF Less, OpToRel
<1> QED
  BY <1>4, <1>7, <1>8

(***************************************************************************)
(* The order of actions.                                                   *)
(***************************************************************************)
LEMMA OrderFacts ==
  /\ DOMAIN Order = 1..11 /\ Len(Order) = 11
  /\ Order[1] = "log" /\ Order[2] = "alert" /\ Order[3] = "warn" /\ Order[4] = "steer"
  /\ Order[5] = "redact" /\ Order[6] = "require_approval" /\ Order[7] = "tool_call"
  /\ Order[8] = "turn" /\ Order[9] = "revoke_key" /\ Order[10] = "stop"
  /\ Order[11] = "quarantine"
BY DEF Order

LEMMA RankOfPlace ==
  /\ Actions = {Order[i] : i \in 1..11}
  /\ \A i \in 1..11 : Order[i] \in Actions /\ Rank[Order[i]] = i
<1>1. Actions = {Order[i] : i \in 1..11}
  BY OrderFacts DEF Actions, ToSet
<1>2. \A i, j \in 1..11 : Order[i] = Order[j] => i = j
  BY OrderFacts
<1>3. ASSUME NEW i \in 1..11 PROVE Rank[Order[i]] = i
  <2>1. Rank[Order[i]] = CHOOSE j \in 1..11 : Order[j] = Order[i]
    BY <1>1, OrderFacts DEF Rank
  <2> QED
    BY <1>2, <2>1
<1> QED
  BY <1>1, <1>3

LEMMA RankFacts ==
  /\ Rank \in [Actions -> 1..11]
  /\ \A a, b \in Actions : Rank[a] = Rank[b] => a = b
  /\ Rank["log"] = 1 /\ Rank["alert"] = 2 /\ Rank["warn"] = 3 /\ Rank["steer"] = 4
  /\ Rank["redact"] = 5 /\ Rank["require_approval"] = 6 /\ Rank["tool_call"] = 7
  /\ {"log", "alert", "warn", "steer", "redact", "require_approval", "tool_call"} \subseteq Actions
<1>1. \A a \in Actions : Rank[a] \in 1..11 /\ a = Order[Rank[a]]
  BY RankOfPlace
<1>2. Rank = [a \in Actions |-> Rank[a]]
  BY DEF Rank
<1>3. \A i \in {1, 2, 3, 4, 5, 6, 7} : i \in 1..11
  OBVIOUS
<1> QED
  BY <1>1, <1>2, <1>3, OrderFacts, RankOfPlace

LEMMA RefusingFacts ==
  /\ Refusing = {a \in Actions : Rank[a] >= 5}
  /\ Blocks = {a \in Actions : Rank[a] >= 7}
  /\ \A a \in Actions : a \in Refusing => a \in Blocks \cup {"redact", "require_approval"}
  /\ "none" \notin Refusing
<1>1. Blocks = {a \in Actions : Rank[a] >= 7}
  BY RankFacts DEF Blocks
<1>2. ASSUME NEW a \in Actions, Rank[a] >= 5, ~(Rank[a] >= 7)
      PROVE  a \in {"redact", "require_approval"}
  <2>1. Rank[a] = 5 \/ Rank[a] = 6
    BY <1>2, RankFacts
  <2> QED
    BY <2>1, RankFacts
<1>3. Refusing = {a \in Actions : Rank[a] >= 5}
  BY <1>1, <1>2, RankFacts DEF Refusing
<1>4. "none" \notin Actions
  BY RankOfPlace, OrderFacts
<1> QED
  BY <1>1, <1>3, <1>4 DEF Refusing

LEMMA StrongestIs ==
  ASSUME NEW S \in SUBSET Actions, S # {}
  PROVE  Strongest(S) \in S /\ \A b \in S : Rank[b] <= Rank[Strongest(S)]
<1>1. \A a \in S : Rank[a] \in 1..11
  BY RankFacts
<1>2. \E a \in S : \A b \in S : Rank[b] <= Rank[a]
  <2>1. PICK x \in S : TRUE
    OBVIOUS
  <2>. SUFFICES ASSUME \A a \in S : \E b \in S : Rank[b] > Rank[a] PROVE FALSE
    BY <1>1
  <2>2. PICK x2 \in S : Rank[x2] >= 2
    BY <2>1, <1>1
  <2>3. PICK x3 \in S : Rank[x3] >= 3
    BY <2>2, <1>1
  <2>4. PICK x4 \in S : Rank[x4] >= 4
    BY <2>3, <1>1
  <2>5. PICK x5 \in S : Rank[x5] >= 5
    BY <2>4, <1>1
  <2>6. PICK x6 \in S : Rank[x6] >= 6
    BY <2>5, <1>1
  <2>7. PICK x7 \in S : Rank[x7] >= 7
    BY <2>6, <1>1
  <2>8. PICK x8 \in S : Rank[x8] >= 8
    BY <2>7, <1>1
  <2>9. PICK x9 \in S : Rank[x9] >= 9
    BY <2>8, <1>1
  <2>10. PICK x10 \in S : Rank[x10] >= 10
    BY <2>9, <1>1
  <2>11. PICK x11 \in S : Rank[x11] >= 11
    BY <2>10, <1>1
  <2> QED
    BY <2>11, <1>1
<1> QED
  BY <1>2 DEF Strongest

(***************************************************************************)
(* Rules, and what is decided of a match.                                  *)
(***************************************************************************)
LEMMA RuleFacts ==
  ASSUME NEW r \in Catalogue
  PROVE  /\ r.id \in Int /\ r.scope \in 1..5 /\ r.priority \in Int
         /\ r.type # "independent" /\ r.mandatory \in BOOLEAN /\ r.action \in Actions
         /\ r.mode \in {"enforce", "audit", "disabled"}
         /\ r.outcome \in {"pass", "match", "ask", "advisory", "error", "malformed"}
         /\ \A s \in r.repeat \cup r.severity : s.at \in Int /\ s.action \in Actions
         /\ \A s \in Catalogue : r.id = s.id => r = s
<1>1. r.repeat \in Steps(2..MaxMatches) /\ r.severity \in Steps(Severities) /\ MaxMatches \in Nat
  BY DecisionAssumption
<1>2. \A s \in r.repeat \cup r.severity : s.at \in Int /\ s.action \in Actions
  BY <1>1 DEF Steps, Severities
<1> QED
  BY <1>2, DecisionAssumption

\* What a match reaches are actions, its own among them, and higher counts and
\* severities reach no fewer.
LEMMA EscalateFacts ==
  ASSUME NEW r \in Catalogue, NEW count \in Int, NEW low \in Int, NEW high \in Int,
         low <= high
  PROVE  /\ Escalate(r, count, low) \in SUBSET Actions
         /\ OwnAction(r) \in Escalate(r, count, low)
         /\ Escalate(r, count, low) \subseteq Escalate(r, count, high)
<1>1. OwnAction(r) \in Actions
  BY RuleFacts, RankFacts DEF OwnAction
<1>2. Reached(r.repeat, count) \subseteq Actions /\ Reached(r.severity, low) \subseteq Actions
  BY RuleFacts DEF Reached
<1>3. Reached(r.severity, low) \subseteq Reached(r.severity, high)
  BY RuleFacts DEF Reached
<1> QED
  BY <1>1, <1>2, <1>3 DEF Escalate

LEMMA DecideFacts ==
  ASSUME DecisionTypeOK, NEW r \in Catalogue, NEW severity \in Int
  PROVE  /\ Decide(r, severity) \in Actions
         /\ r.mode = "audit" => Decide(r, severity) \notin Refusing
<1> DEFINE reached == Escalate(r, matches[r] + 1, severity)
<1>1. matches[r] + 1 \in Int
  BY DecisionAssumption DEF DecisionTypeOK
<1>2. reached \in SUBSET Actions /\ reached # {}
  BY <1>1, EscalateFacts
<1>3. Strongest(reached) \in Actions
  BY <1>2, StrongestIs
<1>4. {"log", "alert", "tool_call"} \subseteq Actions /\ "log" \notin Refusing /\ "alert" \notin Refusing
  BY RankFacts, RefusingFacts
<1> HIDE DEF reached
<1>5. Decide(r, severity) =
        IF r.outcome \in {"error", "malformed"}
        THEN IF r.mode = "enforce" THEN "tool_call" ELSE "log"
        ELSE IF r.mode = "audit" THEN IF "alert" \in reached THEN "alert" ELSE "log"
        ELSE IF r.outcome = "advisory" /\ Strongest(reached) \in Refusing THEN "alert"
        ELSE Strongest(reached)
  BY DEF Decide, reached
<1> QED
  BY <1>3, <1>4, <1>5

LEMMA SeverityFacts ==
  /\ \A score \in Int : SeverityOf(score) \in 1..4
  /\ \A low, high \in Int : low <= high => SeverityOf(low) <= SeverityOf(high)
BY DEF SeverityOf

\* More failures never score less.
LEMMA ScoresRise ==
  ASSUME NEW S, IsFiniteSet(S), NEW T \in SUBSET S
  PROVE  /\ ViolationScore(T) \in Nat /\ ViolationScore(S) \in Nat
         /\ AuditScore(T) \in Nat /\ AuditScore(S) \in Nat
         /\ ViolationScore(T) <= ViolationScore(S) /\ AuditScore(T) <= AuditScore(S)
<1>1. Cardinality(T) \in Nat /\ Cardinality(S) \in Nat /\ Cardinality(T) <= Cardinality(S)
  BY FS_Subset, FS_CardinalityType
<1> QED
  BY <1>1 DEF ViolationScore, AuditScore

LEMMA SeverityType ==
  ASSUME DecisionTypeOK, IsFiniteSet(rules), NEW q \in Requests
  PROVE  Score(q) \in Nat /\ Severity(q) \in 1..4
<1>1. IsFiniteSet(Failing(q))
  BY FS_Subset DEF Failing, DecisionTypeOK
<1>2. ViolationScore(Failing(q)) \in Nat
  BY <1>1, ScoresRise
<1> DEFINE audits == {r \in Failing(q) : r.mode = "audit" /\ r.outcome # "malformed"}
<1>3. AuditScore(audits) \in Nat
  <2>1. audits \in SUBSET Failing(q)
    OBVIOUS
  <2> HIDE DEF audits
  <2> QED
    BY <1>1, <2>1, ScoresRise
<1>4. q.base \in Nat
  <2>1. q.base \in Bases
    BY DEF Requests
  <2>2. Bases \subseteq 0..50
    BY DecisionAssumption, Zenon
  <2>3. 0..50 \subseteq Nat
    OBVIOUS
  <2> QED
    BY <2>1, <2>2, <2>3, Zenon
<1>5. Score(q) \in Nat
  BY <1>2, <1>3, <1>4 DEF Score
<1> QED
  BY <1>5, SeverityFacts DEF Severity

\* What an evaluation decides, rule by rule.
LEMMA DecisionsFacts ==
  ASSUME DecisionTypeOK, IsFiniteSet(rules), NEW q \in Requests
  PROVE  /\ DOMAIN Decisions(q) =
              {r \in Failing(q) : ~Released(r, Decide(r, Severity(q)), q)}
         /\ \A r \in DOMAIN Decisions(q) :
              /\ r \in policies /\ r \in Catalogue /\ r.mode \in {"enforce", "audit"}
              /\ Decisions(q)[r] = Decide(r, Severity(q)) /\ Decisions(q)[r] \in Actions
              /\ r.mode = "audit" => Decisions(q)[r] \notin Refusing
<1>1. Severity(q) \in Int
  BY SeverityType
<1>2. \A r \in Failing(q) : r \in policies /\ r \in Catalogue /\ r.mode \in {"enforce", "audit"}
  BY RuleFacts DEF Failing, DecisionTypeOK
<1>3. /\ DOMAIN Decisions(q) = {r \in Failing(q) : ~Released(r, Decide(r, Severity(q)), q)}
      /\ \A r \in DOMAIN Decisions(q) : Decisions(q)[r] = Decide(r, Severity(q))
  BY DEF Decisions
<1> QED
  BY <1>1, <1>2, <1>3, DecideFacts

-----------------------------------------------------------------------------
(***************************************************************************)
(* Refusals reach the target.                                              *)
(***************************************************************************)
LEMMA DecisiveAgrees ==
  ASSUME DecisionTypeOK, IsFiniteSet(rules), NEW q \in Requests, ~q.dry_run
  PROVE  ~Allowed(q) <=> Decisive(q) \in Refusing
<1> DEFINE d == Decisions(q)
           taken == Range(d) \cup IF Denials(d) = {} /\ ~q.admitted THEN {"tool_call"} ELSE {}
<1>1. \A r \in DOMAIN d : d[r] \in Actions /\ (r.mode = "audit" => d[r] \notin Refusing)
                          /\ r.mode \in {"enforce", "audit"}
  BY DecisionsFacts
<1>2. Range(d) = {d[r] : r \in DOMAIN d}
  BY DEF Range
<1>3. taken \in SUBSET Actions
  BY <1>1, <1>2, RankFacts
<1>4. Decisive(q) = IF taken = {} THEN "none" ELSE Strongest(taken)
  BY DEF Decisive
<1>5. ~Allowed(q) <=> Denials(d) # {} \/ ~q.admitted
  BY DEF Allowed
<1>6. Denials(d) # {} <=> Range(d) \cap Refusing # {}
  BY <1>1, <1>2 DEF Denials
<1>7. ~Allowed(q) <=> taken \cap Refusing # {}
  BY <1>5, <1>6, RankFacts, RefusingFacts
<1> HIDE DEF taken, d
<1>8. taken # {} => /\ Strongest(taken) \in taken
                    /\ \A b \in taken : Rank[b] <= Rank[Strongest(taken)]
  BY <1>3, StrongestIs
<1>9. taken \cap Refusing # {} => Strongest(taken) \in Refusing
  <2>1. SUFFICES ASSUME NEW b \in taken, b \in Refusing PROVE Strongest(taken) \in Refusing
    OBVIOUS
  <2>2. Rank[b] >= 5 /\ Rank[b] <= Rank[Strongest(taken)] /\ Strongest(taken) \in Actions
    BY <1>3, <1>8, <2>1, RefusingFacts
  <2>3. Rank[b] \in Int /\ Rank[Strongest(taken)] \in Int
    BY <1>3, <2>1, <2>2, RankFacts
  <2>4. Rank[Strongest(taken)] >= 5
    BY <2>2, <2>3
  <2> QED
    BY <2>2, <2>4, RefusingFacts
<1> QED
  BY <1>4, <1>7, <1>8, <1>9, RefusingFacts

\* Of the options a refusal falls back on, redact is the only one that lets a
\* call go on, and no target is asked to take it.
LEMMA ChainRefuses ==
  ASSUME NEW a \in Refusing
  PROVE  /\ Chain(a) \in Seq(Actions) /\ Chain(a) # << >>
         /\ \A i \in DOMAIN Chain(a) : Chain(a)[i] \in Blocks \cup {"redact", "require_approval"}
         /\ Last(Chain(a)) \in Blocks
<1>0. "tool_call" \in Blocks /\ "steer" \notin Blocks /\ "redact" \notin Blocks
      /\ "require_approval" \notin Blocks /\ Blocks \subseteq Actions
  BY RankFacts, RefusingFacts
<1>1. CASE a = "tool_call"
  BY <1>0, <1>1 DEF Chain, Last
<1>2. CASE a \in {"redact", "require_approval"}
  <2>1. Chain(a) = <<a, "tool_call">>
    BY <1>0, <1>2 DEF Chain
  <2>2. a \in Actions
    BY <1>2, RankFacts
  <2> QED
    BY <1>0, <1>2, <2>1, <2>2 DEF Last
<1>3. CASE a \in Blocks \ {"tool_call"}
  <2> DEFINE rest == SubSeq(Order, Rank[a], 11)
  <2>1. Chain(a) = rest \o <<"tool_call">>
    BY <1>0, <1>3, OrderFacts DEF Chain
  <2>2. a \in Actions /\ Rank[a] \in 7..11
    BY <1>0, <1>3, RankFacts, RefusingFacts
  <2>3. Order \in Seq(Actions)
    BY RankOfPlace, OrderFacts DEF Order
  <2>4. /\ rest \in Seq(Actions) /\ Len(rest) = 12 - Rank[a]
        /\ \A i \in 1..Len(rest) : rest[i] = Order[Rank[a] + i - 1]
    <3>1. PICK n \in 7..11 : n = Rank[a]
      BY <2>2
    <3>2. Len(Order) = 11
      BY OrderFacts
    <3>3. /\ SubSeq(Order, n, 11) \in Seq(Actions)
          /\ Len(SubSeq(Order, n, 11)) = 12 - n
          /\ \A i \in 1..(12 - n) : SubSeq(Order, n, 11)[i] = Order[n + i - 1]
      <4>1. n \in Int /\ 11 \in Int /\ n <= 11 /\ 11 - n + 1 = 12 - n
        OBVIOUS
      <4>2. \A i \in n..11 : Order[i] \in Actions
        BY RankOfPlace
      <4> QED
        BY <4>1, <4>2, SubSeqProperties
    <3> QED
      BY <3>1, <3>3
  <2>5. \A i \in 1..Len(rest) : rest[i] \in Blocks
    BY <2>2, <2>4, RankOfPlace, RefusingFacts
  <2> HIDE DEF rest
  <2>6. /\ Chain(a) \in Seq(Actions) /\ Len(Chain(a)) = Len(rest) + 1
        /\ \A i \in 1..Len(rest) : Chain(a)[i] = rest[i]
        /\ Chain(a)[Len(rest) + 1] = "tool_call"
    BY <1>0, <2>1, <2>4
  <2>7. Len(rest) \in Nat
    BY <2>4
  <2>8. DOMAIN Chain(a) = 1..(Len(rest) + 1) /\ Chain(a) # << >>
    BY <2>6, <2>7
  <2>9. \A i \in DOMAIN Chain(a) : Chain(a)[i] \in Blocks
    BY <1>0, <2>5, <2>6, <2>7, <2>8
  <2>10. Last(Chain(a)) = "tool_call"
    BY <2>6 DEF Last
  <2> QED
    BY <1>0, <2>6, <2>8, <2>9, <2>10
<1> QED
  BY <1>1, <1>2, <1>3, RefusingFacts DEF Refusing

LEMMA LeastIs ==
  ASSUME NEW S \in SUBSET Nat, S # {}
  PROVE  Min(S) \in S /\ \A m \in S : Min(S) <= m
<1>1. IsWellFoundedOn(OpToRel(<, Nat), Nat)
  BY NatLessThanWellFounded, Zenon
<1> DEFINE Less == OpToRel(<, Nat)
<1>2. IsWellFoundedOn(Less, Nat) /\ S \subseteq Nat
  BY <1>1
<1> HIDE DEF Less
<1>3. PICK least \in S : \A m \in S : ~ (<<m, least>> \in Less)
  BY <1>2, WFMin
<1>4. ASSUME NEW m \in S PROVE least <= m
  <2>1. m \in Nat /\ least \in Nat
    OBVIOUS
  <2>2. ~(m < least)
    BY <1>3, <2>1 DEF Less, OpToRel
  <2> QED
    BY <2>1, <2>2
<1> QED
  BY <1>4 DEF Min

LEMMA SelectRefuses ==
  ASSUME NEW a \in Refusing, NEW target
  PROVE  Select(Chain(a), target) \in Blocks \cup {"require_approval"}
<1> DEFINE options == {i \in DOMAIN Chain(a) : Chain(a)[i] \in Honourable(target)}
<1>1. Select(Chain(a), target) = IF options = {} THEN Last(Chain(a)) ELSE Chain(a)[Min(options)]
  BY DEF Select
<1>2. options \in SUBSET Nat /\ options \subseteq DOMAIN Chain(a)
  BY ChainRefuses
<1>3. \A i \in options : Chain(a)[i] # "redact"
  BY DEF Honourable, Unconditional
<1> HIDE DEF options
<1>4. options # {} => Min(options) \in options
  BY <1>2, LeastIs
<1> QED
  BY <1>1, <1>2, <1>3, <1>4, ChainRefuses

LEMMA RefusalsReach ==
  ASSUME DecisionTypeOK, IsFiniteSet(rules)
  PROVE  RefusalReachesTarget
BY DecisiveAgrees, SelectRefuses DEF RefusalReachesTarget

-----------------------------------------------------------------------------
(***************************************************************************)
(* More failures never loosen a decision.                                  *)
(***************************************************************************)
ScoreOf(base, failing) ==
  base + ViolationScore(failing)
       + AuditScore({r \in failing : r.mode = "audit" /\ r.outcome # "malformed"})

LEMMA SeverityRises ==
  ASSUME NEW base \in Bases, NEW S, IsFiniteSet(S), NEW T \in SUBSET S
  PROVE  /\ SeverityOf(ScoreOf(base, T)) \in Int /\ SeverityOf(ScoreOf(base, S)) \in Int
         /\ SeverityOf(ScoreOf(base, T)) <= SeverityOf(ScoreOf(base, S))
<1> DEFINE Audits(failing) == {r \in failing : r.mode = "audit" /\ r.outcome # "malformed"}
<1>1. base \in Nat
  <2>1. Bases \subseteq 0..50
    BY DecisionAssumption, Zenon
  <2>2. 0..50 \subseteq Nat
    OBVIOUS
  <2> QED
    BY <2>1, <2>2, Zenon
<1>2. Audits(T) \in SUBSET Audits(S) /\ IsFiniteSet(Audits(S))
  BY FS_Subset
<1> HIDE DEF Audits
<1>3. /\ ViolationScore(T) \in Nat /\ ViolationScore(S) \in Nat
      /\ ViolationScore(T) <= ViolationScore(S)
  BY ScoresRise
<1>4. /\ AuditScore(Audits(T)) \in Nat /\ AuditScore(Audits(S)) \in Nat
      /\ AuditScore(Audits(T)) <= AuditScore(Audits(S))
  BY <1>2, ScoresRise
<1>5. /\ ScoreOf(base, T) = base + ViolationScore(T) + AuditScore(Audits(T))
      /\ ScoreOf(base, S) = base + ViolationScore(S) + AuditScore(Audits(S))
  BY DEF ScoreOf, Audits
<1>6. /\ ScoreOf(base, T) \in Int /\ ScoreOf(base, S) \in Int
      /\ ScoreOf(base, T) <= ScoreOf(base, S)
  BY <1>1, <1>3, <1>4, <1>5
<1>7. \A score \in 1..4 : score \in Int
  OBVIOUS
<1> QED
  BY <1>6, <1>7, SeverityFacts

\* A rule decided at a higher severity still refuses, and unless it escalates
\* from redact asks for no approval that it did not ask for before.
LEMMA DecisionsRise ==
  ASSUME DecisionTypeOK, NEW r \in Catalogue, NEW low \in Int, NEW high \in Int, low <= high
  PROVE  /\ Decide(r, low) \in Refusing => Decide(r, high) \in Refusing
         /\ /\ ~RedactEscalates(r)
            /\ Decide(r, low) \in Refusing
            /\ Decide(r, high) = "require_approval"
            => Decide(r, low) = "require_approval"
         /\ r.outcome \in {"advisory", "error", "malformed"} =>
              Decide(r, low) # "require_approval"
<1> DEFINE Reach(level) == Escalate(r, matches[r] + 1, level)
<1>1. matches[r] + 1 \in Int
  BY DecisionAssumption DEF DecisionTypeOK
<1>2. /\ Reach(low) \in SUBSET Actions /\ Reach(low) # {} /\ OwnAction(r) \in Reach(low)
      /\ Reach(high) \in SUBSET Actions /\ Reach(high) # {} /\ Reach(low) \subseteq Reach(high)
  BY <1>1, EscalateFacts
<1>3. \A level \in Int : Decide(r, level) =
        IF r.outcome \in {"error", "malformed"}
        THEN IF r.mode = "enforce" THEN "tool_call" ELSE "log"
        ELSE IF r.mode = "audit" THEN IF "alert" \in Reach(level) THEN "alert" ELSE "log"
        ELSE IF r.outcome = "advisory" /\ Strongest(Reach(level)) \in Refusing THEN "alert"
        ELSE Strongest(Reach(level))
  BY DEF Decide
<1>4. \A a \in Reach(high) \ {OwnAction(r)} :
        \E s \in r.repeat \cup r.severity : s.action = a
  BY DEF Escalate, Reached
<1>5. \A a \in Reach(high) : a # "require_approval" =>
        a \in {r.action} \cup {s.action : s \in r.repeat \cup r.severity}
  BY <1>4 DEF OwnAction
<1> HIDE DEF Reach
<1>6. /\ Strongest(Reach(low)) \in Reach(low)
      /\ \A b \in Reach(low) : Rank[b] <= Rank[Strongest(Reach(low))]
      /\ Strongest(Reach(high)) \in Reach(high)
      /\ \A b \in Reach(high) : Rank[b] <= Rank[Strongest(Reach(high))]
  BY <1>2, StrongestIs
<1>7. PICK m \in 1..11 : m = Rank[Strongest(Reach(low))]
  BY <1>2, <1>6, RankFacts
<1>8. PICK n \in 1..11 : n = Rank[Strongest(Reach(high))]
  BY <1>2, <1>6, RankFacts
<1>9. m <= n
  BY <1>2, <1>6, <1>7, <1>8
<1>10. Strongest(Reach(low)) \in Refusing => Strongest(Reach(high)) \in Refusing
  BY <1>2, <1>6, <1>7, <1>8, <1>9, RefusingFacts
<1>11. ASSUME ~RedactEscalates(r), Strongest(Reach(low)) \in Refusing,
              Strongest(Reach(high)) = "require_approval"
       PROVE  Strongest(Reach(low)) = "require_approval"
  <2>1. n = 6 /\ m >= 5
    BY <1>7, <1>8, <1>11, RankFacts, RefusingFacts
  <2>2. PICK a \in Actions : a = Strongest(Reach(low)) /\ Rank[a] = m
    BY <1>2, <1>6, <1>7
  <2>3. CASE m = 6
    BY <2>2, <2>3, RankFacts
  <2>4. CASE m = 5
    <3>1. Strongest(Reach(low)) = "redact"
      BY <2>2, <2>4, RankFacts
    <3>2. "require_approval" \notin Reach(low)
      BY <1>6, <1>7, <2>4, RankFacts
    <3>3. "require_approval" \in Reach(high) \ {OwnAction(r)}
      BY <1>2, <1>6, <1>11, <3>2
    <3>4. "redact" \in Reach(high)
      BY <1>2, <1>6, <3>1
    <3> QED
      BY <1>4, <1>5, <1>11, <3>3, <3>4 DEF RedactEscalates
  <2> QED
    BY <1>9, <2>1, <2>3, <2>4
<1>12. /\ "log" \notin Refusing /\ "alert" \notin Refusing /\ "tool_call" \in Refusing
       /\ "require_approval" \in Refusing
  BY RankFacts, RefusingFacts
<1>13. CASE r.outcome \in {"error", "malformed"}
  <2>1. Decide(r, low) = Decide(r, high) /\ Decide(r, low) \in {"tool_call", "log"}
    <3>1. \A level \in Int :
             Decide(r, level) = IF r.mode = "enforce" THEN "tool_call" ELSE "log"
      BY <1>3, <1>13
    <3> QED
      BY <3>1
  <2>2. "log" # "require_approval" /\ "tool_call" # "require_approval"
    OBVIOUS
  <2> QED
    BY <2>1, <2>2
<1>14. CASE r.outcome \notin {"error", "malformed"} /\ r.mode = "audit"
  <2>1. Decide(r, low) \in {"alert", "log"} /\ Decide(r, high) \in {"alert", "log"}
    BY <1>3, <1>14
  <2> QED
    BY <1>12, <2>1
<1>15. CASE r.outcome = "advisory" /\ r.mode # "audit"
  <2>1. Decide(r, low) \notin Refusing
    BY <1>3, <1>12, <1>15
  <2> QED
    BY <1>12, <2>1
<1>16. CASE r.outcome \notin {"error", "malformed", "advisory"} /\ r.mode # "audit"
  <2>1. Decide(r, low) = Strongest(Reach(low)) /\ Decide(r, high) = Strongest(Reach(high))
    BY <1>3, <1>16
  <2> QED
    BY <1>10, <1>11, <1>16, <2>1
<1> QED
  BY <1>13, <1>14, <1>15, <1>16

LEMMA ApprovalHelps ==
  ASSUME DecisionTypeOK, IsFiniteSet(rules), NEW q \in Requests,
         ApprovalRequired(q), q.admitted, \A r \in rules : ~RedactEscalates(r)
  PROVE  Allowed([q EXCEPT !.token = TRUE])
<1>1. PICK p \in Requests : p = [q EXCEPT !.token = TRUE]
  BY DEF Requests
<1>2. p.token /\ p.base = q.base /\ p.admitted = q.admitted /\ q.base \in Bases
  BY <1>1 DEF Requests
<1>3. /\ Failing(p) \subseteq Failing(q) /\ IsFiniteSet(Failing(q))
      /\ \A r \in Failing(p) : r.outcome \notin {"pass", "ask"} /\ r \in rules /\ r \in Catalogue
  <2>1. Failing(q) \in SUBSET rules
    BY DEF Failing, DecisionTypeOK
  <2> QED
    BY <1>2, <2>1, FS_Subset DEF Failing, DecisionTypeOK
<1>4. Severity(p) \in Int /\ Severity(q) \in Int /\ Severity(p) <= Severity(q)
  <2>1. Severity(p) = SeverityOf(ScoreOf(q.base, Failing(p)))
        /\ Severity(q) = SeverityOf(ScoreOf(q.base, Failing(q)))
    BY <1>2 DEF Severity, Score, ScoreOf
  <2> QED
    BY <1>2, <1>3, <2>1, SeverityRises
<1>5. SUFFICES Denials(Decisions(p)) = {}
  BY <1>1, <1>2 DEF Allowed
<1>6. SUFFICES ASSUME NEW r \in Denials(Decisions(p)) PROVE FALSE
  OBVIOUS
<1>7. /\ r \in Failing(p) /\ r \in Failing(q) /\ r \in Catalogue /\ r.mode = "enforce"
      /\ ~RedactEscalates(r) /\ Decide(r, Severity(p)) \in Refusing
      /\ ~Released(r, Decide(r, Severity(p)), p)
  BY <1>3, <1>6, DecisionsFacts DEF Denials
<1>8. /\ Decide(r, Severity(q)) \in Refusing
      /\ Decide(r, Severity(q)) = "require_approval" =>
            Decide(r, Severity(p)) = "require_approval"
      /\ r.outcome \in {"advisory", "error", "malformed"} =>
            Decide(r, Severity(p)) # "require_approval"
  BY <1>4, <1>7, DecisionsRise
<1>9. r.outcome \in {"match", "advisory", "error", "malformed"}
  BY <1>3, <1>7, RuleFacts
<1>10. Decide(r, Severity(q)) # "require_approval"
  BY <1>2, <1>7, <1>8, <1>9 DEF Released
<1>11. r \in Denials(Decisions(q)) /\ Decisions(q)[r] = Decide(r, Severity(q))
  BY <1>7, <1>8, <1>10, DecisionsFacts DEF Denials, Released
<1> QED
  BY <1>10, <1>11 DEF ApprovalRequired, ApprovalOnly

LEMMA ApprovalsRelease ==
  ASSUME DecisionTypeOK, IsFiniteSet(rules)
  PROVE  ApprovalReleases
BY ApprovalHelps DEF ApprovalReleases

LEMMA AddedRuleKeepsRefusals ==
  ASSUME DecisionTypeOK, IsFiniteSet(rules), EffectiveAsDocumented,
         DecisionTypeOK', IsFiniteSet(rules)', EffectiveAsDocumented',
         rules \subseteq rules', matches' = matches,
         \A r \in rules' \ rules : Independent(r),
         \A r \in rules : ~RedactEscalates(r),
         NEW q \in Requests, Allowed(q)'
  PROVE  Allowed(q)
<1>1. policies \subseteq policies'
  BY DEF EffectiveAsDocumented
<1>2. Failing(q) \subseteq Failing(q)' /\ IsFiniteSet(Failing(q)')
  <2>1. Failing(q) \subseteq Failing(q)'
    BY <1>1 DEF Failing
  <2>2. Failing(q)' \subseteq rules'
    BY DEF Failing, DecisionTypeOK
  <2>3. IsFiniteSet(rules')
    OBVIOUS
  <2> QED
    BY <2>1, <2>2, <2>3, FS_Subset
<1>3. PICK low \in Int : low = Severity(q)
  <2>1. \A n \in 1..4 : n \in Int
    OBVIOUS
  <2> QED
    BY <2>1, SeverityType
<1>4. PICK high \in Int : high = Severity(q)' /\ low <= high
  <2>1. q.base \in Bases
    BY DEF Requests
  <2>2. low = SeverityOf(ScoreOf(q.base, Failing(q)))
        /\ Severity(q)' = SeverityOf(ScoreOf(q.base, Failing(q)'))
    BY <1>3 DEF Severity, Score, ScoreOf
  <2> QED
    BY <1>2, <2>1, <2>2, SeverityRises
<1>5. SUFFICES ASSUME ~q.dry_run, NEW r \in Denials(Decisions(q)) PROVE Denials(Decisions(q))' # {}
  BY DEF Allowed
<1>6. /\ r \in Failing(q) /\ r \in Catalogue /\ r \in rules /\ r.mode = "enforce"
      /\ Decide(r, low) \in Refusing /\ ~Released(r, Decide(r, low), q)
  BY <1>3, <1>5, DecisionsFacts DEF Denials, DecisionTypeOK
<1>7. /\ Decide(r, high) \in Refusing
      /\ Decide(r, high) = "require_approval" => Decide(r, low) = "require_approval"
  BY <1>4, <1>6, DecisionsRise
<1>8. ~Released(r, Decide(r, high), q)
  BY <1>6, <1>7 DEF Released
<1>9. Decide(r, Severity(q))' = Decide(r, high)
  BY <1>4 DEF Decide
<1>10. r \in DOMAIN Decisions(q)' /\ Decisions(q)'[r] = Decide(r, high)
  BY <1>2, <1>6, <1>8, <1>9 DEF Decisions, Released
<1>11. r \in Denials(Decisions(q)')
  BY <1>6, <1>7, <1>10 DEF Denials
<1> QED
  BY <1>11

-----------------------------------------------------------------------------
(***************************************************************************)
(* Merging.  The order policies are merged in exists because they are      *)
(* finitely many and Before is a strict order: the place of a policy is    *)
(* the number of those before it.                                          *)
(***************************************************************************)
LEMMA BeforeIsStrict ==
  ASSUME NEW r \in Catalogue, NEW s \in Catalogue
  PROVE  /\ ~(Before(r, s) /\ Before(s, r)) /\ ~Before(r, r)
         /\ r # s => Before(r, s) \/ Before(s, r)
         /\ \A t \in Catalogue : Before(t, r) /\ Before(r, s) => Before(t, s)
<1>1. \A t \in Catalogue : t.scope \in Int /\ t.priority \in Int /\ t.id \in Int
  <2>1. 1..5 \subseteq Int
    OBVIOUS
  <2> QED
    BY <2>1, RuleFacts
<1>2. r # s => r.id # s.id
  BY RuleFacts
<1> QED
  BY <1>1, <1>2 DEF Before

Ordered(order) ==
  \A i, j \in DOMAIN order : i < j => Before(order[i], order[j])

LEMMA OrderExists ==
  ASSUME NEW S \in SUBSET Catalogue, IsFiniteSet(S)
  PROVE  \E order \in SetToSeqs(S) : Ordered(order)
<1> DEFINE Below(r) == {s \in S : Before(s, r)}
           place == [r \in S |-> Cardinality(Below(r)) + 1]
           n == Cardinality(S)
<1>1. n \in Nat
  BY FS_CardinalityType
<1>2. ASSUME NEW r \in S PROVE Cardinality(Below(r)) \in 0..(n - 1)
  <2>1. Below(r) \in SUBSET S /\ Below(r) # S
    BY BeforeIsStrict
  <2> HIDE DEF Below
  <2>2. IsFiniteSet(Below(r)) /\ Cardinality(Below(r)) <= n /\ Cardinality(Below(r)) # n
    BY <2>1, FS_Subset
  <2>3. Cardinality(Below(r)) \in Nat
    BY <2>2, FS_CardinalityType
  <2> HIDE DEF n
  <2> QED
    BY <1>1, <2>2, <2>3
<1>3. place \in [S -> 1..n]
  BY <1>1, <1>2
<1>4. ASSUME NEW r \in S, NEW s \in S, Before(r, s) PROVE place[r] < place[s]
  <2>1. Below(r) \in SUBSET Below(s) /\ Below(r) # Below(s) /\ Below(s) \in SUBSET S
    BY <1>4, BeforeIsStrict
  <2> HIDE DEF Below
  <2>2. IsFiniteSet(Below(s))
    BY <2>1, FS_Subset
  <2>3. Cardinality(Below(r)) <= Cardinality(Below(s)) /\ Cardinality(Below(r)) # Cardinality(Below(s))
    BY <2>1, <2>2, FS_Subset
  <2> QED
    BY <1>1, <1>2, <2>3
<1> HIDE DEF place, n
<1>5. \A r, s \in S : r # s => place[r] # place[s]
  <2>1. SUFFICES ASSUME NEW r \in S, NEW s \in S, r # s PROVE place[r] # place[s]
    OBVIOUS
  <2>2. Before(r, s) \/ Before(s, r)
    BY <2>1, BeforeIsStrict
  <2>3. place[r] \in 1..n /\ place[s] \in 1..n
    BY <1>3
  <2> QED
    BY <1>1, <1>4, <2>2, <2>3
<1>6. place \in Injection(S, 1..n)
  BY <1>3, <1>5 DEF Injection, IsInjective
<1>7. IsFiniteSet(1..n) /\ Cardinality(1..n) = n
  BY <1>1, FS_Interval
<1>8. place \in Surjection(S, 1..n)
  BY <1>6, <1>7, FS_Injection DEF n
<1>9. \A i \in 1..n : \E r \in S : place[r] = i
  BY <1>8 DEF Surjection
<1> DEFINE order == [i \in 1..n |-> CHOOSE r \in S : place[r] = i]
<1>10. \A i \in 1..n : order[i] \in S /\ place[order[i]] = i
  BY <1>9
<1>11. order \in [1..n -> S] /\ DOMAIN order = 1..n
  BY <1>10
<1> HIDE DEF order
<1>12. \A i, j \in 1..n : i # j => order[i] # order[j]
  BY <1>10
<1>13. ASSUME NEW i \in 1..n, NEW j \in 1..n, i < j PROVE Before(order[i], order[j])
  <2>1. order[i] \in S /\ order[j] \in S /\ place[order[i]] = i /\ place[order[j]] = j
        /\ order[i] # order[j]
    BY <1>10, <1>12, <1>13
  <2>2. ~Before(order[j], order[i])
    <3>1. SUFFICES ASSUME Before(order[j], order[i]) PROVE FALSE
      OBVIOUS
    <3>2. place[order[j]] < place[order[i]]
      BY <1>4, <2>1, <3>1
    <3>3. j < i
      BY <2>1, <3>2
    <3> QED
      BY <1>1, <1>13, <3>3
  <2> QED
    BY <2>1, <2>2, BeforeIsStrict
<1>14. order \in SetToSeqs(S)
  BY <1>11, <1>12 DEF SetToSeqs, n
<1> QED
  BY <1>11, <1>13, <1>14 DEF Ordered

LEMMA InOrderIs ==
  ASSUME NEW S \in SUBSET Catalogue, IsFiniteSet(S)
  PROVE  /\ Cardinality(S) \in Nat
         /\ InOrder(S) \in [1..Cardinality(S) -> S] /\ Ordered(InOrder(S))
         /\ \A r \in S : \E i \in 1..Cardinality(S) : InOrder(S)[i] = r
<1> DEFINE order == InOrder(S)
           n == Cardinality(S)
<1>1. order \in SetToSeqs(S) /\ Ordered(order)
  <2>1. PICK some \in SetToSeqs(S) : Ordered(some)
    BY OrderExists
  <2> QED
    BY <2>1 DEF InOrder, Ordered
<1>2. order \in [1..n -> S] /\ \A i, j \in 1..n : i # j => order[i] # order[j]
  BY <1>1 DEF SetToSeqs
<1>3. n \in Nat /\ IsFiniteSet(1..n) /\ Cardinality(1..n) = n
  <2>1. n \in Nat
    BY FS_CardinalityType
  <2> QED
    BY <2>1, FS_Interval
<1> HIDE DEF order
<1>4. order \in Injection(1..n, S)
  BY <1>2 DEF Injection, IsInjective
<1>5. order \in Surjection(1..n, S)
  BY <1>3, <1>4, FS_Injection
<1>6. \A r \in S : \E i \in 1..n : order[i] = r
  BY <1>5 DEF Surjection
<1> QED
  BY <1>1, <1>2, <1>3, <1>6 DEF order

(***************************************************************************)
(* The fold over that order.  For every set of places the recursive        *)
(* function of the library's fold has the value Kept: under every key, the *)
(* policy of the last of the places that has the key.                      *)
(***************************************************************************)
Put(merged, r) ==
  [k \in DOMAIN merged \cup {MergeKey(r)} |-> IF k = MergeKey(r) THEN r ELSE merged[k]]

MergeStep(f, o) ==
  [s \in SUBSET DOMAIN o |-> IF s = {} THEN << >> ELSE Put(f[s \ {Max(s)}], o[Max(s)])]

MergeOf(o) == CHOOSE f : f = MergeStep(f, o)

LEMMA MergeIsFold ==
  ASSUME NEW S
  PROVE  Merge(S) = Range(MergeOf(InOrder(S))[DOMAIN InOrder(S)])
BY Zenon DEF Merge, FoldLeft, MapThenFoldSet, MergeOf, MergeStep, Put

LEMMA LargestIs ==
  ASSUME NEW n \in Nat, NEW S \in SUBSET (1..n), S # {}
  PROVE  Max(S) \in S /\ \A i \in S : i <= Max(S)
<1> DEFINE Rest == {n - i : i \in S}
<1>1. Rest \in SUBSET Nat /\ Rest # {}
  <2>1. \A i \in 1..n : n - i \in Nat
    OBVIOUS
  <2> QED
    BY <2>1
<1> HIDE DEF Rest
<1>2. Min(Rest) \in Rest /\ \A m \in Rest : Min(Rest) <= m
  BY <1>1, LeastIs
<1>3. PICK x \in S : Min(Rest) = n - x
  BY <1>2 DEF Rest
<1>4. ASSUME NEW i \in S PROVE i <= x
  <2>1. Min(Rest) <= n - i
    BY <1>2 DEF Rest
  <2>2. x \in 1..n /\ i \in 1..n
    OBVIOUS
  <2> QED
    BY <1>3, <2>1, <2>2
<1>5. \E y \in S : \A i \in S : y >= i
  BY <1>4
<1>6. Max(S) \in S /\ \A i \in S : Max(S) >= i
  BY <1>5 DEF Max
<1> QED
  BY <1>6

Having(o, s, k) == {i \in s : MergeKey(o[i]) = k}
Kept(o, s) == [k \in {MergeKey(o[i]) : i \in s} |-> o[Max(Having(o, s, k))]]

LEMMA KeptStep ==
  ASSUME NEW n \in Nat, NEW o, DOMAIN o = 1..n, NEW s \in SUBSET (1..n), s # {}
  PROVE  Kept(o, s) = Put(Kept(o, s \ {Max(s)}), o[Max(s)])
<1> DEFINE x == Max(s)
           key == MergeKey(o[x])
           less == s \ {x}
<1>1. x \in s /\ \A i \in s : i <= x
  BY LargestIs
<1>2. {MergeKey(o[i]) : i \in s} = {MergeKey(o[i]) : i \in less} \cup {key}
  BY <1>1
<1>3. Max(Having(o, s, key)) = x
  <2>1. Having(o, s, key) \in SUBSET (1..n) /\ x \in Having(o, s, key)
        /\ Having(o, s, key) \subseteq s
    BY <1>1 DEF Having
  <2>2. Max(Having(o, s, key)) \in Having(o, s, key)
        /\ \A i \in Having(o, s, key) : i <= Max(Having(o, s, key))
    BY <2>1, LargestIs
  <2>3. PICK y \in 1..n : y = Max(Having(o, s, key))
    BY <2>1, <2>2
  <2>4. x \in 1..n /\ x <= y /\ y <= x
    BY <1>1, <2>1, <2>2, <2>3
  <2> QED
    BY <2>3, <2>4
<1>4. \A k : k # key => Having(o, s, k) = Having(o, less, k)
  BY DEF Having
<1> HIDE DEF x, key, less
<1>5. DOMAIN Kept(o, less) = {MergeKey(o[i]) : i \in less}
  BY DEF Kept
<1>6. ASSUME NEW k \in {MergeKey(o[i]) : i \in s}
      PROVE  o[Max(Having(o, s, k))] = IF k = key THEN o[x] ELSE Kept(o, less)[k]
  <2>1. CASE k = key
    BY <1>3, <2>1
  <2>2. CASE k # key
    <3>1. k \in {MergeKey(o[i]) : i \in less}
      BY <1>2, <2>2
    <3>2. Kept(o, less)[k] = o[Max(Having(o, less, k))]
      BY <3>1 DEF Kept
    <3> QED
      BY <1>4, <2>2, <3>2
  <2> QED
    BY <2>1, <2>2
<1>7. Kept(o, s) =
        [k \in DOMAIN Kept(o, less) \cup {key} |-> IF k = key THEN o[x] ELSE Kept(o, less)[k]]
  BY <1>2, <1>5, <1>6 DEF Kept
<1> QED
  BY <1>7 DEF Put, x, key, less

LEMMA FoldKeeps ==
  ASSUME NEW n \in Nat, NEW o, DOMAIN o = 1..n
  PROVE  MergeOf(o)[1..n] = Kept(o, 1..n)
<1> DEFINE g == [s \in SUBSET (1..n) |-> Kept(o, s)]
           f == MergeOf(o)
<1>1. g = MergeStep(g, o)
  <2>1. ASSUME NEW s \in SUBSET (1..n)
        PROVE  Kept(o, s) = IF s = {} THEN << >> ELSE Put(g[s \ {Max(s)}], o[Max(s)])
    <3>1. CASE s = {}
      <4>1. Kept(o, {}) = << >>
        BY DEF Kept
      <4> QED
        BY <3>1, <4>1
    <3>2. CASE s # {}
      <4>1. g[s \ {Max(s)}] = Kept(o, s \ {Max(s)})
        OBVIOUS
      <4>2. Kept(o, s) = Put(Kept(o, s \ {Max(s)}), o[Max(s)])
        BY <3>2, KeptStep
      <4> HIDE DEF g
      <4> QED
        BY <3>2, <4>1, <4>2
    <3> QED
      BY <3>1, <3>2
  <2>2. g = [s \in SUBSET (1..n) |->
               IF s = {} THEN << >> ELSE Put(g[s \ {Max(s)}], o[Max(s)])]
    BY <2>1, Zenon
  <2> HIDE DEF g
  <2> QED
    BY <2>2 DEF MergeStep
<1> HIDE DEF g
<1>2. f = MergeStep(f, o)
  BY <1>1 DEF MergeOf
<1> HIDE DEF f
<1>3. \A s \in SUBSET (1..n) :
        f[s] = IF s = {} THEN << >> ELSE Put(f[s \ {Max(s)}], o[Max(s)])
  <2>1. f = [s \in SUBSET (1..n) |->
               IF s = {} THEN << >> ELSE Put(f[s \ {Max(s)}], o[Max(s)])]
    BY <1>2 DEF MergeStep
  <2> QED
    BY <2>1, Zenon
<1> DEFINE Same == {m \in Nat : m <= n => f[1..m] = Kept(o, 1..m)}
<1>4. 0 \in Same
  <2>1. 1..0 = {}
    OBVIOUS
  <2>2. Kept(o, {}) = << >>
    BY DEF Kept
  <2>3. f[{}] = << >>
    BY <1>3
  <2> QED
    BY <2>1, <2>2, <2>3
<1>5. ASSUME NEW m \in Nat, m \in Same PROVE m + 1 \in Same
  <2>1. SUFFICES ASSUME m + 1 <= n PROVE f[1..(m + 1)] = Kept(o, 1..(m + 1))
    OBVIOUS
  <2>2. 1..(m + 1) \in SUBSET (1..n) /\ m + 1 \in 1..(m + 1) /\ 1..(m + 1) # {}
    <3>1. \A i \in 1..(m + 1) : i \in 1..n
      BY <2>1
    <3>2. m + 1 \in 1..(m + 1)
      OBVIOUS
    <3> QED
      BY <3>1, <3>2
  <2>3. Max(1..(m + 1)) = m + 1
    <3>1. PICK s \in SUBSET (1..n) : s = 1..(m + 1)
      BY <2>2
    <3>2. Max(s) \in s /\ \A i \in s : i <= Max(s)
      BY <2>2, <3>1, LargestIs
    <3>3. PICK top \in 1..(m + 1) : top = Max(s)
      BY <3>1, <3>2
    <3>4. m + 1 <= top
      BY <2>2, <3>1, <3>2, <3>3
    <3> QED
      BY <3>1, <3>3, <3>4
  <2>4. (1..(m + 1)) \ {m + 1} = 1..m
    OBVIOUS
  <2>5. f[1..(m + 1)] = Put(f[1..m], o[m + 1])
    BY <1>3, <2>2, <2>3, <2>4
  <2>6. Kept(o, 1..(m + 1)) = Put(Kept(o, 1..m), o[m + 1])
    BY <2>2, <2>3, <2>4, KeptStep
  <2>7. f[1..m] = Kept(o, 1..m)
    BY <1>5, <2>1
  <2> QED
    BY <2>5, <2>6, <2>7
<1> HIDE DEF Same
<1>6. n \in Same
  BY <1>4, <1>5, AllNumbers
<1> QED
  BY <1>6 DEF Same, f

\* Of the policies with one key, the last in order is in force.
LEMMA MergeIs ==
  ASSUME NEW S \in SUBSET Catalogue, IsFiniteSet(S)
  PROVE  Merge(S) = {r \in S : \A s \in S : MergeKey(s) = MergeKey(r) => ~Before(r, s)}
<1> DEFINE order == InOrder(S)
           n == Cardinality(S)
<1>1. /\ n \in Nat /\ order \in [1..n -> S] /\ DOMAIN order = 1..n
      /\ \A i, j \in 1..n : i < j => Before(order[i], order[j])
      /\ \A r \in S : \E i \in 1..n : order[i] = r
  BY InOrderIs DEF Ordered
<1>2. Merge(S) = Range(Kept(order, 1..n))
  <2>1. MergeOf(order)[1..n] = Kept(order, 1..n)
    BY <1>1, FoldKeeps
  <2> QED
    BY <1>1, <2>1, MergeIsFold
<1> HIDE DEF order, n
<1>3. Merge(S) = {order[Max(Having(order, 1..n, MergeKey(order[i])))] : i \in 1..n}
  <2> DEFINE kept == Kept(order, 1..n)
             At(k) == order[Max(Having(order, 1..n, k))]
  <2>1. kept = [k \in {MergeKey(order[i]) : i \in 1..n} |-> At(k)]
    BY DEF Kept
  <2> HIDE DEF At, kept
  <2>2. Range(kept) = {At(MergeKey(order[i])) : i \in 1..n}
    BY <2>1 DEF Range
  <2> QED
    BY <1>2, <2>2 DEF At, kept
<1>4. ASSUME NEW i \in 1..n
      PROVE  /\ Max(Having(order, 1..n, MergeKey(order[i]))) \in 1..n
             /\ MergeKey(order[Max(Having(order, 1..n, MergeKey(order[i])))]) = MergeKey(order[i])
             /\ \A j \in 1..n : MergeKey(order[j]) = MergeKey(order[i]) =>
                  j <= Max(Having(order, 1..n, MergeKey(order[i])))
  <2> DEFINE same == Having(order, 1..n, MergeKey(order[i]))
  <2>1. same \in SUBSET (1..n) /\ i \in same
        /\ \A j \in 1..n : j \in same <=> MergeKey(order[j]) = MergeKey(order[i])
    BY DEF Having
  <2> HIDE DEF same
  <2>2. Max(same) \in same /\ \A j \in same : j <= Max(same)
    BY <1>1, <2>1, LargestIs
  <2> QED
    BY <2>1, <2>2 DEF same
<1>5. ASSUME NEW i \in 1..n, NEW last \in 1..n, MergeKey(order[last]) = MergeKey(order[i]),
             \A j \in 1..n : MergeKey(order[j]) = MergeKey(order[i]) => j <= last
      PROVE  \A s \in S : MergeKey(s) = MergeKey(order[last]) => ~Before(order[last], s)
  <2>1. SUFFICES ASSUME NEW j \in 1..n, MergeKey(order[j]) = MergeKey(order[last]),
                        Before(order[last], order[j])
                 PROVE  FALSE
    BY <1>1
  <2>2. j <= last
    BY <1>5, <2>1
  <2>3. order[j] \in Catalogue /\ order[last] \in Catalogue
    BY <1>1
  <2>4. j = last \/ Before(order[j], order[last])
    BY <1>1, <2>2
  <2> QED
    BY <2>1, <2>3, <2>4, BeforeIsStrict
<1>6. ASSUME NEW r \in S, \A s \in S : MergeKey(s) = MergeKey(r) => ~Before(r, s)
      PROVE  r \in Merge(S)
  <2>1. PICK i \in 1..n : order[i] = r
    BY <1>1
  <2>2. PICK last \in 1..n : last = Max(Having(order, 1..n, MergeKey(order[i])))
    BY <1>4
  <2>3. MergeKey(order[last]) = MergeKey(r) /\ i <= last
    BY <1>4, <2>1, <2>2
  <2>4. ~(i < last)
    BY <1>1, <1>6, <2>1, <2>3
  <2>5. i = last
    BY <1>1, <2>3, <2>4
  <2> QED
    BY <1>3, <2>1, <2>2, <2>5
<1>7. ASSUME NEW r \in Merge(S)
      PROVE  r \in S /\ \A s \in S : MergeKey(s) = MergeKey(r) => ~Before(r, s)
  <2>1. PICK i \in 1..n : r = order[Max(Having(order, 1..n, MergeKey(order[i])))]
    BY <1>3
  <2>2. PICK last \in 1..n : last = Max(Having(order, 1..n, MergeKey(order[i])))
    BY <1>4
  <2>3. MergeKey(order[last]) = MergeKey(order[i])
        /\ \A j \in 1..n : MergeKey(order[j]) = MergeKey(order[i]) => j <= last
    BY <1>4, <2>2
  <2>4. \A s \in S : MergeKey(s) = MergeKey(order[last]) => ~Before(order[last], s)
    BY <1>5, <2>3
  <2>5. r = order[last] /\ order[last] \in S
    BY <1>1, <2>1, <2>2
  <2> QED
    BY <2>4, <2>5
<1> QED
  BY <1>6, <1>7

\* Keys say of two policies that they compete, and the later one is the more
\* specific or, in a scope, has the higher priority.
LEMMA KeysCompete ==
  ASSUME NEW r \in Catalogue, NEW s \in Catalogue
  PROVE  MergeKey(s) = MergeKey(r) =>
           \/ s = r
           \/ ~Independent(s) /\ ~Independent(r) /\ s.type = r.type /\ s.group = r.group
<1>1. r.type # "independent" /\ s.type # "independent" /\ (r.id = s.id => r = s)
  BY RuleFacts
<1> QED
  BY <1>1 DEF MergeKey

LEMMA MergeAsDocumented ==
  ASSUME rules \in SUBSET Catalogue, IsFiniteSet(rules), policies = Merge(rules)
  PROVE  EffectiveAsDocumented
<1> DEFINE overrides(s, r) ==
        /\ ~Independent(s) /\ s.type = r.type /\ s.group = r.group
        /\ \/ s.scope > r.scope
           \/ s.scope = r.scope /\ s.priority > r.priority
           \/ s.scope = r.scope /\ s.priority = r.priority /\ s.id > r.id
<1>1. ASSUME NEW r \in rules
      PROVE  (\A s \in rules : MergeKey(s) = MergeKey(r) => ~Before(r, s))
               <=> Independent(r) \/ \A s \in rules : ~overrides(s, r)
  <2>1. ASSUME NEW s \in rules
        PROVE  MergeKey(s) = MergeKey(r) /\ Before(r, s) <=> ~Independent(r) /\ overrides(s, r)
    <3>1. /\ r.scope \in Int /\ r.priority \in Int /\ r.id \in Int
          /\ s.scope \in Int /\ s.priority \in Int /\ s.id \in Int
      <4>1. 1..5 \subseteq Int
        OBVIOUS
      <4> QED
        BY <4>1, RuleFacts
    <3>2. Before(r, s) <=>
            \/ s.scope > r.scope
            \/ s.scope = r.scope /\ s.priority > r.priority
            \/ s.scope = r.scope /\ s.priority = r.priority /\ s.id > r.id
      BY <3>1 DEF Before
    <3>3. ~Independent(s) /\ ~Independent(r) /\ s.type = r.type /\ s.group = r.group =>
            MergeKey(s) = MergeKey(r)
      BY DEF MergeKey
    <3>4. ~Before(r, r)
      BY BeforeIsStrict
    <3> QED
      BY <3>2, <3>3, <3>4, KeysCompete
  <2> QED
    BY <2>1
<1>2. Merge(rules) = {r \in rules : \A s \in rules : MergeKey(s) = MergeKey(r) => ~Before(r, s)}
  BY MergeIs
<1>3. policies = {r \in rules : Independent(r) \/ \A s \in rules : ~overrides(s, r)}
  BY <1>1, <1>2
<1> QED
  BY <1>3 DEF EffectiveAsDocumented

-----------------------------------------------------------------------------
(***************************************************************************)
(* The theorems.  The policies in force are always the merge of the        *)
(* rules, which is all the other properties need of a state.               *)
(***************************************************************************)
DecisionInv ==
  /\ DecisionTypeOK
  /\ IsFiniteSet(rules)
  /\ policies = Merge(rules)

LEMMA DecisionInvInit == DecisionInit => DecisionInv
<1>. SUFFICES ASSUME DecisionInit PROVE DecisionInv
  OBVIOUS
<1>1. rules = {} /\ policies = {} /\ pending = {} /\ matches = [r \in Catalogue |-> 0]
  BY DEF DecisionInit
<1>2. IsFiniteSet({}) /\ {} \in SUBSET Catalogue
  BY FS_EmptySet
<1>3. Merge({}) = {}
  BY <1>2, MergeIs
<1>4. MaxMatches \in Nat
  BY DecisionAssumption, Zenon
<1>5. matches \in [Catalogue -> 0..MaxMatches]
  BY <1>1, <1>4
<1> QED
  BY <1>1, <1>2, <1>3, <1>5 DEF DecisionInv, DecisionTypeOK

LEMMA CountMatchesType ==
  ASSUME DecisionTypeOK, NEW counted, CountMatches(counted), counted \subseteq Catalogue
  PROVE  matches' \in [Catalogue -> 0..MaxMatches]
<1>1. MaxMatches \in Nat
  BY DecisionAssumption, Zenon
<1>2. ASSUME NEW r \in counted PROVE matches[r] + 1 \in 0..MaxMatches
  <2>1. matches[r] \in 0..MaxMatches /\ matches[r] < MaxMatches
    BY <1>2 DEF CountMatches, DecisionTypeOK
  <2> QED
    BY <1>1, <2>1
<1> QED
  BY <1>2 DEF CountMatches, DecisionTypeOK

LEMMA CountableType ==
  ASSUME DecisionTypeOK, IsFiniteSet(rules), NEW q \in Requests
  PROVE  /\ Countable(Decisions(q)) \subseteq Catalogue
         /\ Waiting(q, Decisions(q)) \subseteq Catalogue
<1>1. DOMAIN Decisions(q) \subseteq Catalogue
  BY DecisionsFacts
<1> QED
  BY <1>1 DEF Countable, Waiting

LEMMA DecisionInvNext == DecisionInv /\ [DecisionNext]_decisionVars => DecisionInv'
<1>. SUFFICES ASSUME DecisionInv, [DecisionNext]_decisionVars PROVE DecisionInv'
  OBVIOUS
<1>1. DecisionTypeOK /\ IsFiniteSet(rules) /\ policies = Merge(rules)
  BY DEF DecisionInv
<1>2. ASSUME NEW r \in Catalogue, Enact(r) PROVE DecisionInv'
  <2>1. rules' = rules \cup {r} /\ policies' = Merge(rules') /\ UNCHANGED <<matches, pending>>
    BY <1>2 DEF Enact
  <2>2. IsFiniteSet(rules') /\ rules' \in SUBSET Catalogue
    BY <1>1, <2>1, FS_AddElement DEF DecisionTypeOK
  <2>3. Merge(rules') \subseteq rules'
    BY <2>2, MergeIs
  <2> QED
    BY <1>1, <2>1, <2>2, <2>3 DEF DecisionInv, DecisionTypeOK
<1>3. ASSUME NEW q \in Requests, Evaluate(q) PROVE DecisionInv'
  <2> DEFINE waiting == Waiting(q, Decisions(q))
             counted == IF q.dry_run THEN {} ELSE Countable(Decisions(q)) \ waiting
  <2>1. CountMatches(counted) /\ pending' = pending \cup waiting /\ UNCHANGED <<rules, policies>>
    BY <1>3 DEF Evaluate
  <2>2. waiting \subseteq Catalogue /\ counted \subseteq Catalogue
    BY <1>1, CountableType
  <2> HIDE DEF waiting, counted
  <2>3. matches' \in [Catalogue -> 0..MaxMatches]
    BY <1>1, <2>1, <2>2, CountMatchesType
  <2> QED
    BY <1>1, <2>1, <2>2, <2>3 DEF DecisionInv, DecisionTypeOK
<1>4. ASSUME Deny PROVE DecisionInv'
  <2>1. CountMatches(pending) /\ pending' = {} /\ UNCHANGED <<rules, policies>>
    BY <1>4 DEF Deny
  <2>2. matches' \in [Catalogue -> 0..MaxMatches]
    BY <1>1, <2>1, CountMatchesType DEF DecisionTypeOK
  <2> QED
    BY <1>1, <2>1, <2>2 DEF DecisionInv, DecisionTypeOK
<1>5. ASSUME Approve PROVE DecisionInv'
  BY <1>1, <1>5 DEF Approve, DecisionInv, DecisionTypeOK
<1>6. ASSUME NEW r \in Catalogue, WindowEnds(r) PROVE DecisionInv'
  <2>1. 0 \in 0..MaxMatches
    BY DecisionAssumption
  <2> QED
    BY <1>1, <1>6, <2>1 DEF WindowEnds, DecisionInv, DecisionTypeOK
<1>7. ASSUME UNCHANGED decisionVars PROVE DecisionInv'
  BY <1>1, <1>7 DEF decisionVars, DecisionInv, DecisionTypeOK
<1> QED
  BY <1>2, <1>3, <1>4, <1>5, <1>6, <1>7 DEF DecisionNext

LEMMA DecisionInvariant == DecisionSpec => []DecisionInv
BY DecisionInvInit, DecisionInvNext, PTL DEF DecisionSpec

\* Every reachable state of PolicyDecision is well typed, and what is in force
\* are rules the workload has.
THEOREM DecisionTypeCorrect == DecisionSpec => []DecisionTypeOK
<1>1. DecisionInv => DecisionTypeOK
  BY DEF DecisionInv
<1> QED
  BY <1>1, DecisionInvariant, PTL

\* _merge_policies computes what the documentation says is in force, for any
\* rules: those that are independent, and of the others the most specific of
\* each type and override group.
THEOREM MergeIsAsDocumented == DecisionSpec => []EffectiveAsDocumented
<1>1. DecisionInv => EffectiveAsDocumented
  BY MergeAsDocumented DEF DecisionInv, DecisionTypeOK
<1> QED
  BY <1>1, DecisionInvariant, PTL

\* For any rules and any target, the decision reported refuses exactly the
\* calls that are not allowed, and no option a target falls back on lets one
\* of them go through.
THEOREM RefusalsReachTargets == DecisionSpec => []RefusalReachesTarget
<1>1. DecisionInv => RefusalReachesTarget
  BY RefusalsReach DEF DecisionInv
<1> QED
  BY <1>1, DecisionInvariant, PTL

\* A call reported as held only for want of an approval goes through with one,
\* unless a rule escalates from redact to require_approval.
THEOREM ApprovalsReleaseCalls == DecisionSpec => []ApprovalReleases
<1>1. DecisionInv => ApprovalReleases
  BY ApprovalsRelease DEF DecisionInv
<1> QED
  BY <1>1, DecisionInvariant, PTL

\* A rule that composes never lets a call through that was refused without it,
\* unless a rule escalates from redact to require_approval.
THEOREM AddedRulesNeverLoosen == DecisionSpec => MoreRulesNeverLoosen
<1> DEFINE Tightens ==
      \A q \in Requests :
        /\ rules \subseteq rules' /\ matches' = matches
        /\ \A r \in rules' \ rules : Independent(r)
        /\ \A r \in rules : ~RedactEscalates(r)
        => (Allowed(q)' => Allowed(q))
<1>1. DecisionInv => EffectiveAsDocumented
  BY MergeAsDocumented DEF DecisionInv, DecisionTypeOK
<1>2. ASSUME DecisionInv, DecisionInv', EffectiveAsDocumented, EffectiveAsDocumented'
      PROVE  Tightens
  <2>1. DecisionTypeOK /\ IsFiniteSet(rules) /\ DecisionTypeOK' /\ IsFiniteSet(rules)'
    BY <1>2 DEF DecisionInv
  <2> QED
    BY <1>2, <2>1, AddedRuleKeepsRefusals
<1>3. DecisionInv /\ DecisionInv' /\ EffectiveAsDocumented /\ EffectiveAsDocumented'
        => [Tightens]_rules
  BY <1>2
<1> QED
  BY <1>1, <1>3, DecisionInvariant, PTL DEF MoreRulesNeverLoosen
=============================================================================
