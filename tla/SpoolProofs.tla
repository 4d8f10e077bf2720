----------------------------- MODULE SpoolProofs -----------------------------
(***************************************************************************)
(* The agent's spool, for every set of runs, caps, TTL and number of       *)
(* crashes: the totals it reports are the bytes it holds, its caps and its *)
(* order hold, what it calls complete has a result, and a drain removes    *)
(* exactly what it sent.  Each operator on a spool is a lemma: from a      *)
(* spool in order it makes a spool in order.                               *)
(***************************************************************************)
EXTENDS Spool, FiniteSetTheorems, SequenceTheorems, WellFoundedInduction, TLAPS

\* A non-empty set of natural numbers has a least element.
LEMMA LeastNumber ==
  ASSUME NEW T, T \subseteq Nat, T # {}
  PROVE  \E n \in T : \A m \in T : n <= m
<1>1. IsWellFoundedOn(OpToRel(<, Nat), Nat)
  BY NatLessThanWellFounded
<1>2. PICK n \in T : \A m \in T : ~(<<m, n>> \in OpToRel(<, Nat))
  BY <1>1, WFMin
<1>3. \A m \in T : ~(m < n)
  BY <1>2 DEF OpToRel
<1> QED BY <1>3

\* The elements at some positions: as many as there are, each once, in order.
LEMMA AtIs ==
  ASSUME NEW S, NEW q \in Seq(S), NEW I \in SUBSET DOMAIN q
  PROVE  /\ At(q, I) \in Seq(S) /\ Len(At(q, I)) = Cardinality(I)
         /\ \E f \in [1..Cardinality(I) -> I] :
              /\ \A n \in 1..Cardinality(I) : At(q, I)[n] = q[f[n]]
              /\ \A m, n \in 1..Cardinality(I) : m < n => f[m] < f[n]
              /\ \A i \in I : \E n \in 1..Cardinality(I) : f[n] = i
<1> DEFINE Upto(i) == {j \in I : j <= i}
           C(i) == Cardinality(Upto(i))
           N == Cardinality(I)
<1>1. IsFiniteSet(I) /\ I \subseteq 1..Len(q) /\ Len(q) \in Nat
  BY FS_Interval, FS_Subset
<1>2. N \in Nat
  BY <1>1, FS_CardinalityType
<1>3. \A i \in Nat : IsFiniteSet(Upto(i)) /\ C(i) \in Nat
  BY <1>1, FS_Subset, FS_CardinalityType
<1>3a. \A i \in Nat : C(i) \in Nat
  BY <1>3
<1>4. C(0) = 0
  <2>1. Upto(0) = {}
    BY <1>1
  <2> QED BY <2>1, FS_EmptySet
<1>5. C(Len(q)) = N
  <2>1. Upto(Len(q)) = I
    BY <1>1
  <2> QED BY <2>1
<1>6. ASSUME NEW i \in Nat, i # 0
      PROVE  C(i) = IF i \in I THEN C(i - 1) + 1 ELSE C(i - 1)
  <2>1. CASE i \in I
    <3>1. Upto(i) = Upto(i - 1) \cup {i} /\ i \notin Upto(i - 1) /\ i - 1 \in Nat
      BY <1>1, <1>6, <2>1
    <3>2. IsFiniteSet(Upto(i - 1))
      BY <1>3, <3>1
    <3> HIDE DEF Upto
    <3>3. Cardinality(Upto(i - 1) \cup {i}) = Cardinality(Upto(i - 1)) + 1
      BY <3>1, <3>2, FS_AddElement
    <3> QED BY <2>1, <3>1, <3>3
  <2>2. CASE i \notin I
    <3>1. Upto(i) = Upto(i - 1)
      BY <1>1, <1>6, <2>2
    <3> HIDE DEF Upto
    <3> QED BY <2>2, <3>1
  <2> QED BY <2>1, <2>2
<1>7. \A i, j \in Nat : i <= j => C(i) <= C(j)
  <2> SUFFICES ASSUME NEW i \in Nat, NEW j \in Nat, i <= j
               PROVE  C(i) <= C(j)
    OBVIOUS
  <2>1. Upto(i) \in SUBSET Upto(j)
    BY <1>1
  <2> HIDE DEF Upto
  <2> QED BY <2>1, <1>3, FS_Subset
<1>8. ASSUME NEW i \in I
      PROVE  C(i) \in 1..N /\ \A j \in I : j < i => C(j) < C(i)
  <2>1. i \in Nat /\ i # 0 /\ i - 1 \in Nat /\ i <= Len(q)
    BY <1>1
  <2>2. C(i) = C(i - 1) + 1
    BY <1>6, <2>1
  <2>3. C(i) \in Nat /\ C(i - 1) \in Nat /\ C(i) <= C(Len(q))
    BY <1>1, <1>3, <1>7, <2>1
  <2>4. ASSUME NEW j \in I, j < i
        PROVE  C(j) < C(i)
    <3>1. j \in Nat /\ j <= i - 1
      BY <1>1, <2>1, <2>4
    <3>2. C(j) <= C(i - 1) /\ C(j) \in Nat
      BY <1>3, <1>7, <2>1, <3>1
    <3> HIDE DEF C
    <3> QED BY <2>2, <2>3, <3>2
  <2> HIDE DEF C
  <2> QED BY <1>2, <1>5, <2>2, <2>3, <2>4
<1>9. ASSUME NEW n \in 1..N
      PROVE  \E i \in I : C(i) = n
  <2> HIDE DEF C
  <2> DEFINE T == {i \in Nat : C(i) >= n}
  <2>1. Len(q) \in T
    BY <1>1, <1>2, <1>5
  <2>2. T \subseteq Nat
    OBVIOUS
  <2>3. PICK i \in T : \A m \in T : i <= m
    <3> HIDE DEF T
    <3> QED BY <2>1, <2>2, LeastNumber
  <2>4. i \in Nat /\ C(i) >= n /\ i # 0
    BY <2>3, <1>2, <1>4
  <2>5. i - 1 \in Nat /\ C(i - 1) < n
    BY <2>3, <2>4, <1>2, <1>3a
  <2>6. i \in I /\ C(i) = C(i - 1) + 1
    <3>1. C(i) = IF i \in I THEN C(i - 1) + 1 ELSE C(i - 1)
      BY <2>4, <1>6
    <3> QED BY <2>4, <2>5, <3>1, <1>2, <1>3a
  <2> QED BY <2>4, <2>5, <2>6, <1>2, <1>3a
<1> DEFINE f == [n \in 1..N |-> CHOOSE i \in I : C(i) = n]
<1>10. At(q, I) = [n \in 1..N |-> q[CHOOSE i \in I : C(i) = n]]
  BY DEF At
<1> HIDE DEF C, N
<1>11. \A n \in 1..N : f[n] \in I /\ C(f[n]) = n
  BY <1>9
<1>12. f \in [1..N -> I]
  BY <1>11
<1>13. \A n \in 1..N : At(q, I)[n] = q[f[n]]
  BY <1>10
<1>14. ASSUME NEW m \in 1..N, NEW n \in 1..N, m < n
       PROVE  f[m] < f[n]
  <2> HIDE DEF f
  <2>1. f[m] \in I /\ f[n] \in I /\ C(f[m]) = m /\ C(f[n]) = n /\ I \subseteq Nat
    BY <1>1, <1>11
  <2>2. f[n] < f[m] => C(f[n]) < C(f[m])
    BY <1>8, <2>1
  <2> QED BY <1>2, <1>14, <2>1, <2>2
<1>15. ASSUME NEW i \in I
       PROVE  \E n \in 1..N : f[n] = i
  <2> HIDE DEF f
  <2>1. C(i) \in 1..N
    BY <1>8
  <2>2. f[C(i)] \in I /\ C(f[C(i)]) = C(i) /\ I \subseteq Nat
    BY <1>1, <1>11, <2>1
  <2>3. ~(f[C(i)] < i) /\ ~(i < f[C(i)])
    BY <1>2, <1>8, <2>1, <2>2
  <2> QED BY <2>1, <2>2, <2>3
<1>16. At(q, I) \in [1..N -> S]
  <2>1. \A n \in 1..N : q[f[n]] \in S
    BY <1>1, <1>11
  <2> QED BY <1>10, <2>1
<1>17. At(q, I) \in Seq(S) /\ Len(At(q, I)) = N
  BY <1>2, <1>16
<1> HIDE DEF f
<1> QED BY <1>12, <1>13, <1>14, <1>15, <1>17 DEF N

-----------------------------------------------------------------------------
(* The bytes of a set of runs *)

BytesOf(s, R) == UNION {{r} \X (1..s.bytes[r]) : r \in R}

\* Byte n of run r is <<r, n>>.
LEMMA BytesAre ==
  ASSUME NEW s, NEW R
  PROVE  \A r, n : <<r, n>> \in BytesOf(s, R) <=> r \in R /\ n \in 1..s.bytes[r]
  BY DEF BytesOf

\* A sum is a number, and that of one run is the run's.
LEMMA SumType ==
  ASSUME NEW s, s.bytes \in [SpoolRuns -> Nat], NEW R \in SUBSET SpoolRuns
  PROVE  IsFiniteSet(BytesOf(s, R)) /\ SumBytes(s, R) \in Nat
<1> DEFINE Part(r) == {r} \X (1..s.bytes[r])
           Parts == {Part(r) : r \in R}
<1>1. IsFiniteSet(R)
  BY SpoolAssumption, FS_Subset
<1>2. IsFiniteSet(Parts)
  <2> HIDE DEF Part
  <2>1. [r \in R |-> Part(r)] \in Surjection(R, Parts)
    BY DEF Surjection
  <2> QED BY <1>1, <2>1, FS_Surjection
<1>3. \A P \in Parts : IsFiniteSet(P)
  <2> SUFFICES ASSUME NEW r \in R
               PROVE  IsFiniteSet(Part(r))
    OBVIOUS
  <2> DEFINE n == s.bytes[r]
  <2>1. n \in Int /\ 1 \in Int
    OBVIOUS
  <2> HIDE DEF n
  <2>2. IsFiniteSet({r}) /\ IsFiniteSet(1..n)
    BY <2>1, FS_Singleton, FS_Interval
  <2>3. IsFiniteSet({r} \X (1..n))
    BY <2>2, FS_Product
  <2> QED BY <2>3 DEF n
<1>4. IsFiniteSet(UNION Parts)
  <2> HIDE DEF Parts
  <2> QED BY <1>2, <1>3, FS_UNION
<1> QED BY <1>4, FS_CardinalityType DEF BytesOf, SumBytes

\* No runs hold no bytes.
LEMMA SumEmpty ==
  ASSUME NEW s
  PROVE  SumBytes(s, {}) = 0
<1>1. UNION {{r} \X (1..s.bytes[r]) : r \in {}} = {}
  OBVIOUS
<1> QED BY <1>1, FS_EmptySet DEF SumBytes

\* One run holds its own bytes.
LEMMA SumOne ==
  ASSUME NEW s, s.bytes \in [SpoolRuns -> Nat], NEW r \in SpoolRuns
  PROVE  SumBytes(s, {r}) = s.bytes[r]
<1> DEFINE n == s.bytes[r]
<1>1. UNION {{x} \X (1..s.bytes[x]) : x \in {r}} = {r} \X (1..n)
  OBVIOUS
<1>2. n \in Nat
  OBVIOUS
<1> HIDE DEF n
<1>3. IsFiniteSet(1..n) /\ Cardinality(1..n) = n
  BY <1>2, FS_Interval
<1>4. IsFiniteSet({r}) /\ Cardinality({r}) = 1
  BY FS_Singleton
<1>5. Cardinality({r} \X (1..n)) = Cardinality({r}) * Cardinality(1..n)
  BY <1>3, <1>4, FS_Product
<1>6. SumBytes(s, {r}) = Cardinality({r} \X (1..n))
  BY <1>1 DEF SumBytes
<1>7. SumBytes(s, {r}) = n
  BY <1>2, <1>3, <1>4, <1>5, <1>6
<1> QED BY <1>7 DEF n

\* Two sets of runs without a common run.
LEMMA SumSplit ==
  ASSUME NEW s, s.bytes \in [SpoolRuns -> Nat], NEW R \in SUBSET SpoolRuns,
         NEW T \in SUBSET SpoolRuns, R \cap T = {}
  PROVE  SumBytes(s, R \cup T) = SumBytes(s, R) + SumBytes(s, T)
<1>1. BytesOf(s, R \cup T) = BytesOf(s, R) \cup BytesOf(s, T)
  BY DEF BytesOf
<1>2. BytesOf(s, R) \cap BytesOf(s, T) = {}
  BY DEF BytesOf
<1>3. /\ IsFiniteSet(BytesOf(s, R)) /\ IsFiniteSet(BytesOf(s, T))
      /\ SumBytes(s, R) \in Nat /\ SumBytes(s, T) \in Nat
  BY SumType
<1>4. Cardinality(BytesOf(s, R) \cup BytesOf(s, T)) =
        Cardinality(BytesOf(s, R)) + Cardinality(BytesOf(s, T))
          - Cardinality(BytesOf(s, R) \cap BytesOf(s, T))
  BY <1>3, FS_Union
<1>5. Cardinality(BytesOf(s, R) \cap BytesOf(s, T)) = 0
  BY <1>2, FS_EmptySet
<1>6. /\ SumBytes(s, R) = Cardinality(BytesOf(s, R)) /\ SumBytes(s, T) = Cardinality(BytesOf(s, T))
      /\ SumBytes(s, R \cup T) = Cardinality(BytesOf(s, R \cup T))
  BY DEF SumBytes, BytesOf
<1>7. SumBytes(s, R \cup T) = SumBytes(s, R) + SumBytes(s, T) - 0
  BY <1>1, <1>4, <1>5, <1>6
<1> QED BY <1>3, <1>7

\* Only the runs summed count.
LEMMA SumSame ==
  ASSUME NEW s, NEW t, NEW R, \A r \in R : s.bytes[r] = t.bytes[r]
  PROVE  SumBytes(s, R) = SumBytes(t, R)
<1>1. {{r} \X (1..s.bytes[r]) : r \in R} = {{r} \X (1..t.bytes[r]) : r \in R}
  OBVIOUS
<1> QED BY <1>1 DEF SumBytes

\* What is left when some of the runs are taken out.
LEMMA SumRest ==
  ASSUME NEW s, s.bytes \in [SpoolRuns -> Nat], NEW R \in SUBSET SpoolRuns, NEW T \in SUBSET R
  PROVE  /\ SumBytes(s, R \ T) = SumBytes(s, R) - SumBytes(s, T)
         /\ SumBytes(s, R \ T) \in Nat /\ SumBytes(s, T) \in Nat /\ SumBytes(s, R) \in Nat
         /\ SumBytes(s, R \ T) <= SumBytes(s, R)
<1>1. R = (R \ T) \cup T /\ (R \ T) \cap T = {} /\ R \ T \in SUBSET SpoolRuns
      /\ T \in SUBSET SpoolRuns
  OBVIOUS
<1>2. /\ SumBytes(s, R) \in Nat /\ SumBytes(s, T) \in Nat /\ SumBytes(s, R \ T) \in Nat
  BY <1>1, SumType
<1>3. SumBytes(s, (R \ T) \cup T) = SumBytes(s, R \ T) + SumBytes(s, T)
  BY <1>1, SumSplit
<1> QED BY <1>1, <1>2, <1>3

\* One run's bytes change.
LEMMA SumSet ==
  ASSUME NEW s, s.bytes \in [SpoolRuns -> Nat], NEW t, t.bytes \in [SpoolRuns -> Nat],
         NEW R \in SUBSET SpoolRuns, NEW r \in R, \A x \in R : x # r => t.bytes[x] = s.bytes[x]
  PROVE  SumBytes(t, R) = SumBytes(s, R) - s.bytes[r] + t.bytes[r]
<1>1. SumBytes(s, R \ {r}) = SumBytes(t, R \ {r})
  BY SumSame
<1> {r} \in SUBSET R
  OBVIOUS
<1>2. SumBytes(s, R \ {r}) = SumBytes(s, R) - SumBytes(s, {r}) /\ SumBytes(s, R) \in Nat
  BY SumRest
<1>3. SumBytes(t, R \ {r}) = SumBytes(t, R) - SumBytes(t, {r}) /\ SumBytes(t, R) \in Nat
  BY SumRest
<1>4. SumBytes(s, {r}) = s.bytes[r] /\ SumBytes(t, {r}) = t.bytes[r] /\ r \in SpoolRuns
  BY SumOne
<1>5. s.bytes[r] \in Nat /\ t.bytes[r] \in Nat
  BY <1>4
<1>6. SumBytes(s, R) - s.bytes[r] = SumBytes(t, R) - t.bytes[r]
  BY <1>1, <1>2, <1>3, <1>4
<1> QED BY <1>2, <1>3, <1>5, <1>6

-----------------------------------------------------------------------------
(* A spool in order *)

\* Every held run stands in the order once, the older ones first.
InOrder(s) ==
  /\ \A i, j \in DOMAIN s.order : i < j => s.order[i] # s.order[j]
  /\ {s.order[i] : i \in DOMAIN s.order} = SpoolRuns \ Tier(s, "none")
  /\ \A i, j \in DOMAIN s.order : i < j => s.since[s.order[i]] <= s.since[s.order[j]]

\* The totals are what the runs hold; a run holds no less than can be read back.
Totals(s) ==
  /\ s.mem = SumBytes(s, Tier(s, "ram")) /\ s.disk = SumBytes(s, Tier(s, "disk"))
  /\ \A r \in SpoolRuns : Len(s.recs[r]) <= s.bytes[r]
  /\ \A r \in SpoolRuns : s.tier[r] = "none" => s.bytes[r] = 0

Dated(s) == \A r \in SpoolRuns : s.since[r] <= clock /\ s.mtime[r] <= clock

HasResult(s, r) == \E i \in DOMAIN s.recs[r] : s.recs[r][i] = "result"

Replayable(s) ==
  \A r \in SpoolRuns : s.hasResult[r] /\ s.log[r] = "whole" => HasResult(s, r)

Good(s) == s \in SpoolType /\ InOrder(s) /\ Totals(s) /\ Dated(s) /\ Replayable(s)

\* What Drain copied still stands at the front of its run's records, unless the
\* run was dropped or its log damaged.
SnapKept(s) ==
  \A r \in drain.id :
    s.gone = {} =>
      /\ s.tier[r] # "none"
      /\ s.log[r] = "whole" =>
           /\ Len(drain.snap) <= Len(s.recs[r])
           /\ \A i \in 1..Len(drain.snap) : s.recs[r][i] = drain.snap[i]

\* The fields of a spool.
LEMMA Fields ==
  ASSUME NEW s \in SpoolType
  PROVE  /\ s.order \in Seq(SpoolRuns) /\ s.tier \in [SpoolRuns -> {"none", "ram", "disk"}]
         /\ s.recs \in [SpoolRuns -> Seq(RecordKinds)] /\ s.bytes \in [SpoolRuns -> Nat]
         /\ s.since \in [SpoolRuns -> Nat] /\ s.mtime \in [SpoolRuns -> Nat]
         /\ s.hasResult \in [SpoolRuns -> BOOLEAN]
         /\ s.log \in [SpoolRuns -> {"whole", "torn", "bad"}]
         /\ s.mem \in Nat /\ s.disk \in Nat /\ s.gone \in SUBSET SpoolRuns
  BY DEF SpoolType

-----------------------------------------------------------------------------
(* Dropping runs *)

\* What dropLocked leaves of each field of s in t.
Dropped(s, R, t) ==
  /\ t.order = At(s.order, {i \in DOMAIN s.order : s.order[i] \notin R})
  /\ t.tier = [r \in SpoolRuns |-> IF r \in R THEN "none" ELSE s.tier[r]]
  /\ t.recs = [r \in SpoolRuns |-> IF r \in R THEN <<>> ELSE s.recs[r]]
  /\ t.bytes = [r \in SpoolRuns |-> IF r \in R THEN 0 ELSE s.bytes[r]]
  /\ t.since = [r \in SpoolRuns |-> IF r \in R THEN 0 ELSE s.since[r]]
  /\ t.mtime = [r \in SpoolRuns |-> IF r \in R THEN 0 ELSE s.mtime[r]]
  /\ t.hasResult = [r \in SpoolRuns |-> s.hasResult[r] /\ r \notin R]
  /\ t.log = [r \in SpoolRuns |-> IF r \in R THEN "whole" ELSE s.log[r]]
  /\ t.gone = s.gone \cup (R \cap drain.id)
  /\ t.mem = s.mem - SumBytes(s, R \cap Tier(s, "ram"))
  /\ t.disk = s.disk - SumBytes(s, R \cap Tier(s, "disk"))
  /\ t = [order |-> t.order, tier |-> t.tier, recs |-> t.recs, bytes |-> t.bytes,
          since |-> t.since, mtime |-> t.mtime, hasResult |-> t.hasResult, log |-> t.log,
          mem |-> t.mem, disk |-> t.disk, gone |-> t.gone]

\* What the operator of dropLocked makes of each field.
LEMMA DropFields ==
  ASSUME NEW s \in SpoolType, NEW R
  PROVE  Dropped(s, R, DropRuns(s, R))
<1>1. ASSUME NEW t, t = DropRuns(s, R)
      PROVE  Dropped(s, R, t)
  BY <1>1 DEF DropRuns, SpoolType, Dropped
<1> QED BY <1>1

\* The runs left in a tier, and their bytes.
LEMMA DropTotals ==
  ASSUME NEW s \in SpoolType, Totals(s), NEW R, NEW t, Dropped(s, R, t)
  PROVE  Totals(t) /\ t.mem \in Nat /\ t.disk \in Nat /\ t.mem <= s.mem /\ t.disk <= s.disk
<1> s.bytes \in [SpoolRuns -> Nat] /\ s.tier \in [SpoolRuns -> {"none", "ram", "disk"}]
    /\ s.recs \in [SpoolRuns -> Seq(RecordKinds)]
  BY Fields
<1>1. ASSUME NEW x \in {"ram", "disk"}
      PROVE  /\ SumBytes(t, Tier(t, x)) = SumBytes(s, Tier(s, x)) - SumBytes(s, R \cap Tier(s, x))
             /\ SumBytes(t, Tier(t, x)) \in Nat
             /\ SumBytes(t, Tier(t, x)) <= SumBytes(s, Tier(s, x))
  <2>1. Tier(t, x) = Tier(s, x) \ (R \cap Tier(s, x))
    BY DEF Dropped, Tier
  <2>2. \A r \in Tier(t, x) : t.bytes[r] = s.bytes[r]
    BY <2>1 DEF Dropped, Tier
  <2>3. SumBytes(t, Tier(t, x)) = SumBytes(s, Tier(t, x))
    BY <2>2, SumSame
  <2>4. R \cap Tier(s, x) \in SUBSET Tier(s, x) /\ Tier(s, x) \in SUBSET SpoolRuns
    BY DEF Tier
  <2> DEFINE T == Tier(s, x)
             U == R \cap Tier(s, x)
  <2> HIDE DEF T, U
  <2>5. U \in SUBSET T /\ T \in SUBSET SpoolRuns
    BY <2>4 DEF T, U
  <2>6. /\ SumBytes(s, T \ U) = SumBytes(s, T) - SumBytes(s, U)
        /\ SumBytes(s, T \ U) \in Nat /\ SumBytes(s, T \ U) <= SumBytes(s, T)
    BY <2>5, SumRest
  <2> QED BY <2>1, <2>3, <2>6 DEF T, U
<1>2. /\ t.mem = SumBytes(t, Tier(t, "ram")) /\ t.disk = SumBytes(t, Tier(t, "disk"))
      /\ t.mem \in Nat /\ t.disk \in Nat /\ t.mem <= s.mem /\ t.disk <= s.disk
  BY <1>1 DEF Dropped, Totals
<1>3. \A r \in SpoolRuns : Len(t.recs[r]) <= t.bytes[r] /\ (t.tier[r] = "none" => t.bytes[r] = 0)
  BY DEF Dropped, Totals
<1> QED BY <1>2, <1>3 DEF Totals

\* What is left stands in the order it stood in.
LEMMA DropOrder ==
  ASSUME NEW s \in SpoolType, InOrder(s), NEW R, NEW t, Dropped(s, R, t)
  PROVE  InOrder(t) /\ t.order \in Seq(SpoolRuns)
<1> DEFINE I == {i \in DOMAIN s.order : s.order[i] \notin R}
           N == Cardinality(I)
<1>1. s.order \in Seq(SpoolRuns) /\ s.tier \in [SpoolRuns -> {"none", "ram", "disk"}]
  BY Fields
<1>2. t.order = At(s.order, I) /\ I \in SUBSET DOMAIN s.order
  BY DEF Dropped
<1>3. t.order \in Seq(SpoolRuns) /\ Len(t.order) = N
  <2> HIDE DEF I
  <2> QED BY <1>1, <1>2, AtIs
<1>4. PICK f \in [1..N -> I] :
        /\ \A n \in 1..N : t.order[n] = s.order[f[n]]
        /\ \A m, n \in 1..N : m < n => f[m] < f[n]
        /\ \A i \in I : \E n \in 1..N : f[n] = i
  <2> HIDE DEF I
  <2> QED BY <1>1, <1>2, AtIs
<1>5. DOMAIN t.order = 1..N
  BY <1>3
<1>5a. \A n \in 1..N : f[n] \in DOMAIN s.order /\ s.order[f[n]] \notin R
                       /\ s.order[f[n]] \in SpoolRuns
  <2>1. \A i \in DOMAIN s.order : s.order[i] \in SpoolRuns
    BY <1>1
  <2>2. \A n \in 1..N : f[n] \in I
    <3> HIDE DEF N, I
    <3> QED BY <1>4
  <2> QED BY <2>1, <2>2
<1>5b. \A m, n \in 1..N : m < n => /\ s.order[f[m]] # s.order[f[n]]
                                  /\ s.since[s.order[f[m]]] <= s.since[s.order[f[n]]]
  <2> HIDE DEF N, I
  <2> QED BY <1>4, <1>5a DEF InOrder
<1> HIDE DEF N, I
<1>6. \A i, j \in DOMAIN t.order : i < j => t.order[i] # t.order[j]
  BY <1>4, <1>5, <1>5b
<1>7. \A n \in 1..N : t.order[n] \in SpoolRuns /\ t.order[n] \notin R
  BY <1>4, <1>5a
<1>8. \A i, j \in DOMAIN t.order : i < j => t.since[t.order[i]] <= t.since[t.order[j]]
  <2>1. \A n \in 1..N : t.since[t.order[n]] = s.since[s.order[f[n]]]
    BY <1>4, <1>5a, <1>7 DEF Dropped
  <2> QED BY <1>5, <1>5b, <2>1
<1>9. {t.order[i] : i \in DOMAIN t.order} = SpoolRuns \ Tier(t, "none")
  <2>1. SpoolRuns \ Tier(t, "none") = (SpoolRuns \ Tier(s, "none")) \ R
    BY DEF Dropped, Tier
  <2>2. ASSUME NEW r \in SpoolRuns \ Tier(t, "none")
        PROVE  r \in {t.order[i] : i \in DOMAIN t.order}
    <3>1. PICK i \in DOMAIN s.order : s.order[i] = r
      BY <2>1 DEF InOrder
    <3>2. i \in I
      BY <2>1, <3>1 DEF I
    <3> QED BY <1>4, <1>5, <3>1, <3>2
  <2>3. ASSUME NEW n \in 1..N
        PROVE  t.order[n] \in SpoolRuns \ Tier(t, "none")
    <3>1. f[n] \in DOMAIN s.order /\ t.order[n] = s.order[f[n]]
      BY <1>4, <1>5a
    <3>2. s.order[f[n]] \in SpoolRuns \ Tier(s, "none")
      BY <3>1 DEF InOrder
    <3> QED BY <1>7, <2>1, <3>1, <3>2
  <2> QED BY <1>5, <2>2, <2>3
<1> QED BY <1>3, <1>6, <1>8, <1>9 DEF InOrder

\* A spool some runs are dropped from is in order, holds no more than before, and
\* the run that is being drained is marked when it is among them.
LEMMA DropGood ==
  ASSUME NEW s, Good(s), NEW R, NEW t, Dropped(s, R, t), clock \in Nat,
         drain.id \in SUBSET SpoolRuns
  PROVE  /\ Good(t) /\ t.mem <= s.mem /\ t.disk <= s.disk
         /\ SnapKept(s) => SnapKept(t)
<1> s \in SpoolType /\ InOrder(s) /\ Totals(s) /\ Dated(s) /\ Replayable(s)
  BY DEF Good
<1>1. /\ Totals(t) /\ t.mem \in Nat /\ t.disk \in Nat /\ t.mem <= s.mem /\ t.disk <= s.disk
      /\ InOrder(t) /\ t.order \in Seq(SpoolRuns)
  BY DropTotals, DropOrder
<1>f. /\ s.order \in Seq(SpoolRuns) /\ s.tier \in [SpoolRuns -> {"none", "ram", "disk"}]
      /\ s.recs \in [SpoolRuns -> Seq(RecordKinds)] /\ s.bytes \in [SpoolRuns -> Nat]
      /\ s.since \in [SpoolRuns -> Nat] /\ s.mtime \in [SpoolRuns -> Nat]
      /\ s.hasResult \in [SpoolRuns -> BOOLEAN]
      /\ s.log \in [SpoolRuns -> {"whole", "torn", "bad"}]
      /\ s.mem \in Nat /\ s.disk \in Nat /\ s.gone \in SUBSET SpoolRuns
  BY Fields
<1>2. t \in SpoolType
  <2>1. /\ t.tier \in [SpoolRuns -> {"none", "ram", "disk"}]
        /\ t.recs \in [SpoolRuns -> Seq(RecordKinds)] /\ t.bytes \in [SpoolRuns -> Nat]
        /\ t.since \in [SpoolRuns -> Nat] /\ t.mtime \in [SpoolRuns -> Nat]
        /\ t.log \in [SpoolRuns -> {"whole", "torn", "bad"}]
        /\ t.gone \in SUBSET SpoolRuns
    BY <1>f DEF Dropped
  <2>2. t.hasResult \in [SpoolRuns -> BOOLEAN]
    BY <1>f DEF Dropped
  <2> QED BY <1>1, <2>1, <2>2 DEF Dropped, SpoolType
<1>3. Dated(t)
  BY <1>f DEF Dropped, Dated
<1>4. Replayable(t)
  <2> SUFFICES ASSUME NEW r \in SpoolRuns, t.hasResult[r], t.log[r] = "whole"
               PROVE  HasResult(t, r)
    BY DEF Replayable
  <2>1. r \notin R /\ s.hasResult[r]
    BY <1>f DEF Dropped
  <2>2. s.log[r] = "whole" /\ t.recs[r] = s.recs[r]
    BY <1>f, <2>1 DEF Dropped
  <2> QED BY <2>1, <2>2 DEF Replayable, HasResult
<1>5. SnapKept(s) => SnapKept(t)
  BY <1>f DEF Dropped, SnapKept
<1> QED BY <1>1, <1>2, <1>3, <1>4, <1>5 DEF Good

\* The same of the operator itself: a drop leaves the spool in order.
LEMMA DropsGood ==
  ASSUME NEW s, Good(s), NEW R, clock \in Nat, drain.id \in SUBSET SpoolRuns
  PROVE  /\ Good(DropRuns(s, R)) /\ DropRuns(s, R).mem <= s.mem /\ DropRuns(s, R).disk <= s.disk
         /\ SnapKept(s) => SnapKept(DropRuns(s, R))
<1>1. Dropped(s, R, DropRuns(s, R))
  BY DropFields DEF Good
<1> QED BY <1>1, DropGood

\* pruneLocked drops runs, whichever they are.
LEMMA PruneGood ==
  ASSUME NEW s, Good(s), clock \in Nat, drain.id \in SUBSET SpoolRuns
  PROVE  /\ Good(Prune(s)) /\ Prune(s).mem <= s.mem /\ Prune(s).disk <= s.disk
         /\ SnapKept(s) => SnapKept(Prune(s))
<1> DEFINE Fresh(r) == clock - s.since[r] <= SpoolTTL
           n == CHOOSE n \in 0..Len(s.order) :
                  /\ \A i \in 1..n : ~Fresh(s.order[i])
                  /\ n < Len(s.order) => Fresh(s.order[n + 1])
           R == Oldest(s.order, n)
<1>1. Prune(s) = DropRuns(s, R)
  BY DEF Prune
<1> HIDE DEF R
<1> QED BY <1>1, DropsGood

-----------------------------------------------------------------------------
(* A record is appended *)

\* What a record appended to run r makes of s.
Added(s, r, k, t) ==
  /\ t.order = IF s.tier[r] = "none" THEN Append(s.order, r) ELSE s.order
  /\ t.tier = [s.tier EXCEPT ![r] = IF s.tier[r] = "none" THEN "ram" ELSE @]
  /\ t.since = [s.since EXCEPT ![r] = IF s.tier[r] = "none" THEN clock ELSE @]
  /\ t.recs = [s.recs EXCEPT ![r] = IF s.log[r] = "whole" THEN Append(@, k) ELSE @]
  /\ t.log = [s.log EXCEPT ![r] = IF @ = "whole" THEN @ ELSE "bad"]
  /\ t.bytes = [s.bytes EXCEPT ![r] = @ + 1]
  /\ t.mtime = [s.mtime EXCEPT ![r] = IF s.tier[r] = "disk" THEN clock ELSE @]
  /\ t.mem = IF s.tier[r] = "disk" THEN s.mem ELSE s.mem + 1
  /\ t.disk = IF s.tier[r] = "disk" THEN s.disk + 1 ELSE s.disk
  /\ t.hasResult = [s.hasResult EXCEPT ![r] = @ \/ k = "result"]
  /\ t.gone = s.gone
  /\ t = [order |-> t.order, tier |-> t.tier, recs |-> t.recs, bytes |-> t.bytes,
          since |-> t.since, mtime |-> t.mtime, hasResult |-> t.hasResult, log |-> t.log,
          mem |-> t.mem, disk |-> t.disk, gone |-> t.gone]

\* What the operator of Append makes of each field.
LEMMA AddFields ==
  ASSUME NEW s \in SpoolType, NEW r \in SpoolRuns, NEW k \in RecordKinds
  PROVE  Added(s, r, k, AddRecord(s, r, k))
<1>1. ASSUME NEW t, t = AddRecord(s, r, k)
      PROVE  Added(s, r, k, t)
  <2>1. s.tier[r] \in {"none", "ram", "disk"}
    BY DEF SpoolType
  <2>2. (s.tier[r] = "none" \/ s.tier[r] = "ram") <=> s.tier[r] # "disk"
    BY <2>1
  <2> QED BY <1>1, <2>2 DEF AddRecord, SpoolType, Added
<1> QED BY <1>1

\* One run holds one byte more, the others what they held.
LEMMA AddTotals ==
  ASSUME NEW s \in SpoolType, Totals(s), NEW r \in SpoolRuns, NEW k \in RecordKinds,
         NEW t, Added(s, r, k, t)
  PROVE  Totals(t) /\ t.mem \in Nat /\ t.disk \in Nat
<1>f. /\ s.tier \in [SpoolRuns -> {"none", "ram", "disk"}] /\ s.bytes \in [SpoolRuns -> Nat]
      /\ s.recs \in [SpoolRuns -> Seq(RecordKinds)] /\ s.mem \in Nat /\ s.disk \in Nat
  BY Fields
<1>1. t.bytes \in [SpoolRuns -> Nat] /\ t.bytes[r] = s.bytes[r] + 1
      /\ \A x \in SpoolRuns : x # r => t.bytes[x] = s.bytes[x]
  BY <1>f DEF Added
<1> DEFINE Ram == Tier(s, "ram")
           Dsk == Tier(s, "disk")
<1>2. Ram \in SUBSET SpoolRuns /\ Dsk \in SUBSET SpoolRuns
  BY DEF Tier
<1>3. t.mem = SumBytes(t, Tier(t, "ram")) /\ t.disk = SumBytes(t, Tier(t, "disk"))
  <2>1. CASE s.tier[r] = "none"
    <3>1. Tier(t, "ram") = Ram \cup {r} /\ Ram \cap {r} = {} /\ Tier(t, "disk") = Dsk /\ r \notin Dsk
          /\ {r} \in SUBSET SpoolRuns
      BY <1>f, <2>1 DEF Added, Tier
    <3> HIDE DEF Ram, Dsk
    <3>2. SumBytes(t, Ram \cup {r}) = SumBytes(t, Ram) + SumBytes(t, {r})
      BY <1>1, <1>2, <3>1, SumSplit
    <3>3. (\A x \in Ram : t.bytes[x] = s.bytes[x]) /\ (\A x \in Dsk : t.bytes[x] = s.bytes[x])
      BY <1>1, <1>2, <3>1
    <3>4. SumBytes(t, Ram) = SumBytes(s, Ram) /\ SumBytes(t, Dsk) = SumBytes(s, Dsk)
      BY <3>3, SumSame
    <3>5. SumBytes(t, {r}) = 1
      <4>1. SumBytes(t, {r}) = t.bytes[r]
        BY <1>1, SumOne
      <4> QED BY <1>1, <2>1, <4>1 DEF Totals
    <3>6. t.mem = s.mem + 1 /\ t.disk = s.disk
      BY <2>1 DEF Added
    <3> QED BY <3>1, <3>2, <3>4, <3>5, <3>6 DEF Totals, Ram, Dsk
  <2>2. CASE s.tier[r] = "ram"
    <3>1. Tier(t, "ram") = Ram /\ r \in Ram /\ Tier(t, "disk") = Dsk /\ r \notin Dsk
      BY <1>f, <2>2 DEF Added, Tier
    <3> HIDE DEF Ram, Dsk
    <3>2. (\A x \in Ram : x # r => t.bytes[x] = s.bytes[x]) /\ (\A x \in Dsk : t.bytes[x] = s.bytes[x])
      BY <1>1, <1>2, <3>1
    <3>3. SumBytes(t, Ram) = SumBytes(s, Ram) - s.bytes[r] + t.bytes[r]
      <4>1. s.bytes \in [SpoolRuns -> Nat]
        BY <1>f
      <4>2. t.bytes \in [SpoolRuns -> Nat]
        BY <1>1
      <4>3. r \in Ram
        BY <3>1
      <4>4. \A x \in Ram : x # r => t.bytes[x] = s.bytes[x]
        BY <3>2
      <4> QED BY <1>2, <4>1, <4>2, <4>3, <4>4, SumSet
    <3>4. SumBytes(t, Dsk) = SumBytes(s, Dsk)
      BY <3>2, SumSame
    <3>5. t.mem = s.mem + 1 /\ t.disk = s.disk /\ s.bytes[r] \in Nat
      BY <1>f, <2>2 DEF Added
    <3>6. s.mem = SumBytes(s, Ram) /\ s.disk = SumBytes(s, Dsk)
      BY DEF Totals, Ram, Dsk
    <3> QED BY <1>1, <1>f, <3>1, <3>3, <3>4, <3>5, <3>6
  <2>3. CASE s.tier[r] = "disk"
    <3>1. Tier(t, "ram") = Ram /\ r \notin Ram /\ Tier(t, "disk") = Dsk /\ r \in Dsk
      BY <1>f, <2>3 DEF Added, Tier
    <3> HIDE DEF Ram, Dsk
    <3>2. (\A x \in Dsk : x # r => t.bytes[x] = s.bytes[x]) /\ (\A x \in Ram : t.bytes[x] = s.bytes[x])
      BY <1>1, <1>2, <3>1
    <3>3. SumBytes(t, Dsk) = SumBytes(s, Dsk) - s.bytes[r] + t.bytes[r]
      <4>1. s.bytes \in [SpoolRuns -> Nat]
        BY <1>f
      <4>2. t.bytes \in [SpoolRuns -> Nat]
        BY <1>1
      <4>3. r \in Dsk
        BY <3>1
      <4>4. \A x \in Dsk : x # r => t.bytes[x] = s.bytes[x]
        BY <3>2
      <4> QED BY <1>2, <4>1, <4>2, <4>3, <4>4, SumSet
    <3>4. SumBytes(t, Ram) = SumBytes(s, Ram)
      BY <3>2, SumSame
    <3>5. t.mem = s.mem /\ t.disk = s.disk + 1 /\ s.bytes[r] \in Nat
      BY <1>f, <2>3 DEF Added
    <3>6. s.mem = SumBytes(s, Ram) /\ s.disk = SumBytes(s, Dsk)
      BY DEF Totals, Ram, Dsk
    <3> QED BY <1>1, <1>f, <3>1, <3>3, <3>4, <3>5, <3>6
  <2> QED BY <1>f, <2>1, <2>2, <2>3
<1>4. ASSUME NEW x \in SpoolRuns
      PROVE  Len(t.recs[x]) <= t.bytes[x] /\ (t.tier[x] = "none" => t.bytes[x] = 0)
  <2>1. Len(s.recs[x]) <= s.bytes[x] /\ (s.tier[x] = "none" => s.bytes[x] = 0)
        /\ s.recs[x] \in Seq(RecordKinds) /\ s.bytes[x] \in Nat
    BY <1>f DEF Totals
  <2>2. x # r => t.recs[x] = s.recs[x] /\ t.bytes[x] = s.bytes[x] /\ t.tier[x] = s.tier[x]
    BY <1>f DEF Added
  <2>3. t.tier[r] # "none" /\ (t.recs[r] = s.recs[r] \/ t.recs[r] = Append(s.recs[r], k))
    BY <1>f DEF Added
  <2>4. Len(Append(s.recs[x], k)) = Len(s.recs[x]) + 1 /\ Len(s.recs[x]) \in Nat
    BY <2>1
  <2> QED BY <1>1, <2>1, <2>2, <2>3, <2>4
<1>5. t.mem \in Nat /\ t.disk \in Nat
  BY <1>f DEF Added
<1> QED BY <1>3, <1>4, <1>5 DEF Totals

\* A new run is the youngest and stands last.
LEMMA AddOrder ==
  ASSUME NEW s \in SpoolType, InOrder(s), Dated(s), clock \in Nat, NEW r \in SpoolRuns,
         NEW k \in RecordKinds, NEW t, Added(s, r, k, t)
  PROVE  InOrder(t) /\ t.order \in Seq(SpoolRuns)
<1>f. /\ s.order \in Seq(SpoolRuns) /\ s.tier \in [SpoolRuns -> {"none", "ram", "disk"}]
      /\ s.since \in [SpoolRuns -> Nat]
  BY Fields
<1>1. CASE s.tier[r] # "none"
  <2>1. t.order = s.order /\ t.since = s.since /\ Tier(t, "none") = Tier(s, "none")
    BY <1>f, <1>1 DEF Added, Tier
  <2> QED BY <1>f, <2>1 DEF InOrder
<1>2. CASE s.tier[r] = "none"
  <2> DEFINE N == Len(s.order)
  <2>1. t.order = Append(s.order, r)
    BY <1>2 DEF Added
  <2>2. t.order \in Seq(SpoolRuns) /\ DOMAIN t.order = 1..(N + 1) /\ t.order[N + 1] = r
        /\ N \in Nat /\ DOMAIN s.order = 1..N
        /\ \A i \in 1..N : t.order[i] = s.order[i]
    BY <1>f, <2>1
  <2>3. SpoolRuns \ Tier(t, "none") = (SpoolRuns \ Tier(s, "none")) \cup {r}
    BY <1>f, <1>2 DEF Added, Tier
  <2>4. r \notin SpoolRuns \ Tier(s, "none")
    BY <1>2 DEF Tier
  <2>5. t.since = [s.since EXCEPT ![r] = clock]
    BY <1>2 DEF Added
  <2> HIDE DEF N
  <2>6. \A i \in 1..N : s.order[i] \in SpoolRuns /\ s.order[i] # r
    <3>1. \A i \in DOMAIN s.order : s.order[i] \in SpoolRuns \ Tier(s, "none")
      BY DEF InOrder
    <3> QED BY <2>2, <2>4, <3>1
  <2>7. \A i \in 1..N : t.since[t.order[i]] = s.since[s.order[i]] /\ s.since[s.order[i]] <= clock
    <3>1. \A x \in SpoolRuns : x # r => t.since[x] = s.since[x]
      BY <1>f, <2>5
    <3>2. \A x \in SpoolRuns : s.since[x] <= clock
      BY DEF Dated
    <3> QED BY <2>2, <2>6, <3>1, <3>2
  <2>8. t.since[t.order[N + 1]] = clock
    BY <1>f, <2>2, <2>5
  <2>9. ASSUME NEW i \in DOMAIN t.order, NEW j \in DOMAIN t.order, i < j
        PROVE  t.order[i] # t.order[j] /\ t.since[t.order[i]] <= t.since[t.order[j]]
    <3>1. i \in 1..N
      BY <2>2, <2>9
    <3>2. CASE j = N + 1
      BY <2>2, <2>6, <2>7, <2>8, <3>1, <3>2
    <3>3. CASE j \in 1..N
      BY <2>2, <2>7, <2>9, <3>1, <3>3 DEF InOrder
    <3> QED BY <2>2, <3>2, <3>3
  <2>10. {t.order[i] : i \in DOMAIN t.order} = {s.order[i] : i \in DOMAIN s.order} \cup {r}
    <3>1. \A i \in DOMAIN t.order : t.order[i] \in {s.order[j] : j \in DOMAIN s.order} \cup {r}
      BY <2>2
    <3>2. \A i \in DOMAIN s.order : s.order[i] \in {t.order[j] : j \in DOMAIN t.order}
      BY <2>2
    <3>3. r \in {t.order[j] : j \in DOMAIN t.order}
      BY <2>2
    <3> QED BY <3>1, <3>2, <3>3
  <2> QED BY <2>2, <2>3, <2>9, <2>10 DEF InOrder
<1> QED BY <1>1, <1>2

\* A spool a record is appended to is in order, and what Drain copied still
\* stands in front.
LEMMA AddGood ==
  ASSUME NEW s, Good(s), clock \in Nat, NEW r \in SpoolRuns, NEW k \in RecordKinds,
         NEW t, Added(s, r, k, t), drain.id \in SUBSET SpoolRuns, Len(drain.snap) \in Nat
  PROVE  Good(t) /\ (SnapKept(s) => SnapKept(t))
<1> s \in SpoolType /\ InOrder(s) /\ Totals(s) /\ Dated(s) /\ Replayable(s)
  BY DEF Good
<1>f. /\ s.order \in Seq(SpoolRuns) /\ s.tier \in [SpoolRuns -> {"none", "ram", "disk"}]
      /\ s.recs \in [SpoolRuns -> Seq(RecordKinds)] /\ s.bytes \in [SpoolRuns -> Nat]
      /\ s.since \in [SpoolRuns -> Nat] /\ s.mtime \in [SpoolRuns -> Nat]
      /\ s.hasResult \in [SpoolRuns -> BOOLEAN]
      /\ s.log \in [SpoolRuns -> {"whole", "torn", "bad"}]
      /\ s.mem \in Nat /\ s.disk \in Nat /\ s.gone \in SUBSET SpoolRuns
  BY Fields
<1>1. Totals(t) /\ t.mem \in Nat /\ t.disk \in Nat
  BY AddTotals
<1>2. InOrder(t) /\ t.order \in Seq(SpoolRuns)
  BY AddOrder
<1>3. ASSUME NEW x \in SpoolRuns
      PROVE  /\ Append(s.recs[x], k) \in Seq(RecordKinds)
             /\ Len(Append(s.recs[x], k)) = Len(s.recs[x]) + 1
             /\ Append(s.recs[x], k)[Len(s.recs[x]) + 1] = k
             /\ Len(s.recs[x]) \in Nat /\ DOMAIN s.recs[x] = 1..Len(s.recs[x])
             /\ DOMAIN Append(s.recs[x], k) = 1..(Len(s.recs[x]) + 1)
             /\ \A i \in 1..Len(s.recs[x]) : Append(s.recs[x], k)[i] = s.recs[x][i]
  <2>1. s.recs[x] \in Seq(RecordKinds)
    BY <1>f
  <2> QED BY <2>1
<1>4. t \in SpoolType
  <2>1. t.tier \in [SpoolRuns -> {"none", "ram", "disk"}]
    BY <1>f DEF Added
  <2>2. t.recs \in [SpoolRuns -> Seq(RecordKinds)]
    BY <1>f, <1>3 DEF Added
  <2>3. t.bytes \in [SpoolRuns -> Nat]
    <3>1. t.bytes = [s.bytes EXCEPT ![r] = s.bytes[r] + 1] /\ s.bytes[r] + 1 \in Nat
      BY <1>f DEF Added
    <3> QED BY <1>f, <3>1
  <2>4. t.since \in [SpoolRuns -> Nat] /\ t.mtime \in [SpoolRuns -> Nat]
    BY <1>f DEF Added
  <2>5. t.hasResult \in [SpoolRuns -> BOOLEAN]
    <3>1. (s.hasResult[r] \/ k = "result") \in BOOLEAN
      OBVIOUS
    <3> QED BY <1>f, <3>1 DEF Added
  <2>6. t.log \in [SpoolRuns -> {"whole", "torn", "bad"}]
    BY <1>f DEF Added
  <2>7. t.gone \in SUBSET SpoolRuns
    BY <1>f DEF Added
  <2>8. t = [order |-> t.order, tier |-> t.tier, recs |-> t.recs, bytes |-> t.bytes,
             since |-> t.since, mtime |-> t.mtime, hasResult |-> t.hasResult, log |-> t.log,
             mem |-> t.mem, disk |-> t.disk, gone |-> t.gone]
    BY DEF Added
  <2> QED BY <1>1, <1>2, <2>1, <2>2, <2>3, <2>4, <2>5, <2>6, <2>7, <2>8 DEF SpoolType
<1>5. Dated(t)
  <2> SUFFICES ASSUME NEW x \in SpoolRuns
               PROVE  t.since[x] <= clock /\ t.mtime[x] <= clock
    BY DEF Dated
  <2>1. s.since[x] <= clock /\ s.mtime[x] <= clock
    BY DEF Dated
  <2>2. t.since[x] = s.since[x] \/ t.since[x] = clock
    BY <1>f DEF Added
  <2>3. t.mtime[x] = s.mtime[x] \/ t.mtime[x] = clock
    BY <1>f DEF Added
  <2> QED BY <2>1, <2>2, <2>3
<1>6. Replayable(t)
  <2> SUFFICES ASSUME NEW x \in SpoolRuns, t.hasResult[x], t.log[x] = "whole"
               PROVE  HasResult(t, x)
    BY DEF Replayable
  <2>1. s.log[x] = "whole"
    BY <1>f DEF Added
  <2>2. CASE x # r
    <3>1. s.hasResult[x] /\ t.recs[x] = s.recs[x]
      BY <1>f, <2>2 DEF Added
    <3> QED BY <2>1, <3>1 DEF Replayable, HasResult
  <2>3. CASE x = r
    <3>1. t.recs[x] = Append(s.recs[x], k)
      BY <1>f, <2>1, <2>3 DEF Added
    <3>2. CASE k = "result"
      BY <1>3, <3>1, <3>2 DEF HasResult
    <3>3. CASE k # "result"
      <4>1. s.hasResult[x]
        BY <1>f, <2>3, <3>3 DEF Added
      <4>2. PICK i \in DOMAIN s.recs[x] : s.recs[x][i] = "result"
        BY <2>1, <4>1 DEF Replayable, HasResult
      <4>3. i \in DOMAIN t.recs[x] /\ t.recs[x][i] = "result"
        BY <1>3, <3>1, <4>2
      <4> QED BY <4>3 DEF HasResult
    <3> QED BY <3>2, <3>3
  <2> QED BY <2>2, <2>3
<1>7. ASSUME SnapKept(s)
      PROVE  SnapKept(t)
  <2> SUFFICES ASSUME NEW x \in drain.id, t.gone = {}
               PROVE  /\ t.tier[x] # "none"
                      /\ t.log[x] = "whole" =>
                           /\ Len(drain.snap) <= Len(t.recs[x])
                           /\ \A i \in 1..Len(drain.snap) : t.recs[x][i] = drain.snap[i]
    BY DEF SnapKept
  <2>1. s.gone = {} /\ x \in SpoolRuns
    BY <1>7 DEF Added
  <2>2. t.tier[x] # "none"
    <3>1. s.tier[x] # "none"
      BY <1>7, <2>1 DEF SnapKept
    <3> QED BY <1>f, <2>1, <3>1 DEF Added
  <2>3. CASE t.log[x] = "whole"
    <3>1. s.log[x] = "whole"
      BY <1>f, <2>1, <2>3 DEF Added
    <3>2. Len(drain.snap) <= Len(s.recs[x]) /\ \A i \in 1..Len(drain.snap) : s.recs[x][i] = drain.snap[i]
      BY <1>7, <2>1, <3>1 DEF SnapKept
    <3>3. t.recs[x] = s.recs[x] \/ t.recs[x] = Append(s.recs[x], k)
      <4>1. CASE x = r
        BY <1>f, <2>1, <3>1, <4>1 DEF Added
      <4>2. CASE x # r
        BY <1>f, <2>1, <4>2 DEF Added
      <4> QED BY <4>1, <4>2
    <3>4. CASE t.recs[x] = s.recs[x]
      BY <2>2, <3>2, <3>4
    <3>5. CASE t.recs[x] = Append(s.recs[x], k)
      <4>1. /\ Len(t.recs[x]) = Len(s.recs[x]) + 1 /\ Len(s.recs[x]) \in Nat
            /\ \A i \in 1..Len(s.recs[x]) : t.recs[x][i] = s.recs[x][i]
        BY <1>3, <2>1, <3>5
      <4>2. \A i \in 1..Len(drain.snap) : i \in 1..Len(s.recs[x])
        BY <3>2, <4>1
      <4> QED BY <2>2, <3>2, <4>1, <4>2
    <3> QED BY <3>3, <3>4, <3>5
  <2> QED BY <2>2, <2>3
<1> QED BY <1>1, <1>2, <1>4, <1>5, <1>6, <1>7 DEF Good

\* The same of the operator itself: one more record leaves the spool in order.
LEMMA AddsGood ==
  ASSUME NEW s, Good(s), clock \in Nat, NEW r \in SpoolRuns, NEW k \in RecordKinds,
         drain.id \in SUBSET SpoolRuns, Len(drain.snap) \in Nat
  PROVE  Good(AddRecord(s, r, k)) /\ (SnapKept(s) => SnapKept(AddRecord(s, r, k)))
<1>1. Added(s, r, k, AddRecord(s, r, k))
  BY AddFields DEF Good
<1> QED BY <1>1, AddGood

-----------------------------------------------------------------------------
(* RAM is spilled to its cap, the disk is dropped to its own *)

\* The elements of the order that stand in a tier are the runs of that tier.
LEMMA TierRuns ==
  ASSUME NEW s \in SpoolType, InOrder(s), NEW x \in {"ram", "disk"}
  PROVE  /\ InTier(s, x) \in Seq(SpoolRuns)
         /\ Oldest(InTier(s, x), Len(InTier(s, x))) = Tier(s, x)
<1> DEFINE I == {i \in DOMAIN s.order : s.tier[s.order[i]] = x}
           N == Cardinality(I)
           q == InTier(s, x)
<1>f. s.order \in Seq(SpoolRuns) /\ s.tier \in [SpoolRuns -> {"none", "ram", "disk"}]
  BY Fields
<1>1. q = At(s.order, I) /\ I \in SUBSET DOMAIN s.order
  BY DEF InTier
<1>2. q \in Seq(SpoolRuns) /\ Len(q) = N
  <2> HIDE DEF I, q
  <2> QED BY <1>f, <1>1, AtIs
<1>3. PICK f \in [1..N -> I] :
        /\ \A n \in 1..N : q[n] = s.order[f[n]]
        /\ \A i \in I : \E n \in 1..N : f[n] = i
  <2> HIDE DEF I, q
  <2>1. \E f \in [1..Cardinality(I) -> I] :
          /\ \A n \in 1..Cardinality(I) : At(s.order, I)[n] = s.order[f[n]]
          /\ \A m, n \in 1..Cardinality(I) : m < n => f[m] < f[n]
          /\ \A i \in I : \E n \in 1..Cardinality(I) : f[n] = i
    BY <1>f, <1>1, AtIs
  <2>2. PICK f \in [1..N -> I] :
          /\ \A n \in 1..N : At(s.order, I)[n] = s.order[f[n]]
          /\ \A i \in I : \E n \in 1..N : f[n] = i
    BY <2>1
  <2>3. \A n \in 1..N : q[n] = s.order[f[n]]
    BY <1>1, <2>2
  <2> QED BY <2>2, <2>3
<1>4. \A n \in 1..N : f[n] \in I
  <2> HIDE DEF I, N
  <2> QED BY <1>3
<1>5. \A n \in 1..N : q[n] \in Tier(s, x)
  <2>1. \A i \in I : s.order[i] \in Tier(s, x)
    BY <1>f DEF Tier
  <2> HIDE DEF I, N, q
  <2> QED BY <1>3, <1>4, <2>1
<1>6. ASSUME NEW r \in Tier(s, x)
      PROVE  \E n \in 1..N : q[n] = r
  <2>1. r \in SpoolRuns \ Tier(s, "none")
    BY DEF Tier
  <2>2. PICK i \in DOMAIN s.order : s.order[i] = r
    BY <2>1 DEF InOrder
  <2>3. i \in I
    BY <2>2 DEF Tier
  <2> HIDE DEF I, N, q
  <2> QED BY <1>3, <2>2, <2>3
<1> HIDE DEF q, I, N
<1>7. Oldest(q, Len(q)) = Tier(s, x)
  BY <1>2, <1>5, <1>6 DEF Oldest
<1> QED BY <1>2, <1>7 DEF q

\* When some number is enough, the number taken is.
LEMMA FewestIs ==
  ASSUME NEW q, NEW enough \in SUBSET Nat, enough # {}
  PROVE  \E n \in enough : Fewest(q, enough) = Oldest(q, n)
<1>1. \E n \in enough : \A i \in enough : n <= i
  BY LeastNumber
<1> QED BY <1>1 DEF Fewest

\* What spillLocked makes of s.
Spilled(s, R, t) ==
  /\ t.order = s.order /\ t.recs = s.recs /\ t.bytes = s.bytes /\ t.since = s.since
  /\ t.hasResult = s.hasResult /\ t.log = s.log /\ t.gone = s.gone
  /\ t.tier = [r \in SpoolRuns |-> IF r \in R THEN "disk" ELSE s.tier[r]]
  /\ t.mtime = [r \in SpoolRuns |-> IF r \in R THEN clock ELSE s.mtime[r]]
  /\ t.mem = s.mem - SumBytes(s, R)
  /\ t.disk = s.disk + SumBytes(s, R)
  /\ t = [order |-> t.order, tier |-> t.tier, recs |-> t.recs, bytes |-> t.bytes,
          since |-> t.since, mtime |-> t.mtime, hasResult |-> t.hasResult, log |-> t.log,
          mem |-> t.mem, disk |-> t.disk, gone |-> t.gone]

\* What the operator of spillLocked makes of each field.
LEMMA SpillFields ==
  ASSUME NEW s \in SpoolType, NEW R
  PROVE  Spilled(s, R, SpillRuns(s, R))
<1>1. ASSUME NEW t, t = SpillRuns(s, R)
      PROVE  Spilled(s, R, t)
  BY <1>1 DEF SpillRuns, SpoolType, Spilled
<1> QED BY <1>1

\* Runs that move from RAM to disk take their bytes along.
LEMMA SpillTotals ==
  ASSUME NEW s \in SpoolType, Totals(s), NEW R \in SUBSET Tier(s, "ram"), NEW t, Spilled(s, R, t)
  PROVE  Totals(t) /\ t.mem \in Nat /\ t.disk \in Nat
<1>f. /\ s.tier \in [SpoolRuns -> {"none", "ram", "disk"}] /\ s.bytes \in [SpoolRuns -> Nat]
      /\ s.recs \in [SpoolRuns -> Seq(RecordKinds)] /\ s.mem \in Nat /\ s.disk \in Nat
  BY Fields
<1> DEFINE Ram == Tier(s, "ram")
           Dsk == Tier(s, "disk")
<1>1. /\ Ram \in SUBSET SpoolRuns /\ Dsk \in SUBSET SpoolRuns /\ R \in SUBSET SpoolRuns
      /\ R \in SUBSET Ram /\ Dsk \cap R = {}
  BY DEF Tier
<1>2. Tier(t, "ram") = Ram \ R /\ Tier(t, "disk") = Dsk \cup R
  BY <1>f, <1>1 DEF Tier, Spilled
<1>3. t.bytes = s.bytes /\ t.mem = s.mem - SumBytes(s, R) /\ t.disk = s.disk + SumBytes(s, R)
  BY DEF Spilled
<1>4. s.mem = SumBytes(s, Ram) /\ s.disk = SumBytes(s, Dsk)
  BY DEF Totals
<1> HIDE DEF Ram, Dsk
<1>5. SumBytes(s, Ram \ R) = SumBytes(s, Ram) - SumBytes(s, R) /\ SumBytes(s, Ram \ R) \in Nat
      /\ SumBytes(s, R) \in Nat
  BY <1>f, <1>1, SumRest
<1>6. SumBytes(s, Dsk \cup R) = SumBytes(s, Dsk) + SumBytes(s, R)
  BY <1>f, <1>1, SumSplit
<1>7. \A T : SumBytes(t, T) = SumBytes(s, T)
  BY <1>3 DEF SumBytes
<1>8. t.mem = SumBytes(t, Tier(t, "ram")) /\ t.disk = SumBytes(t, Tier(t, "disk"))
  BY <1>2, <1>3, <1>4, <1>5, <1>6, <1>7
<1>9. \A r \in SpoolRuns : Len(t.recs[r]) <= t.bytes[r] /\ (t.tier[r] = "none" => t.bytes[r] = 0)
  BY <1>f DEF Totals, Spilled
<1>10. t.mem \in Nat /\ t.disk \in Nat
  BY <1>f, <1>3, <1>4, <1>5
<1> QED BY <1>8, <1>9, <1>10 DEF Totals

\* A spool that is spilled is in order.
LEMMA SpillGood ==
  ASSUME NEW s, Good(s), clock \in Nat, drain.id \in SUBSET SpoolRuns,
         NEW R \in SUBSET Tier(s, "ram"), NEW t, Spilled(s, R, t)
  PROVE  Good(t) /\ (SnapKept(s) => SnapKept(t))
<1> s \in SpoolType /\ InOrder(s) /\ Totals(s) /\ Dated(s) /\ Replayable(s)
  BY DEF Good
<1>f. /\ s.order \in Seq(SpoolRuns) /\ s.tier \in [SpoolRuns -> {"none", "ram", "disk"}]
      /\ s.recs \in [SpoolRuns -> Seq(RecordKinds)] /\ s.bytes \in [SpoolRuns -> Nat]
      /\ s.since \in [SpoolRuns -> Nat] /\ s.mtime \in [SpoolRuns -> Nat]
      /\ s.hasResult \in [SpoolRuns -> BOOLEAN]
      /\ s.log \in [SpoolRuns -> {"whole", "torn", "bad"}]
      /\ s.gone \in SUBSET SpoolRuns
  BY Fields
<1>1. Totals(t) /\ t.mem \in Nat /\ t.disk \in Nat
  BY SpillTotals
<1>2. Tier(t, "none") = Tier(s, "none") /\ t.tier \in [SpoolRuns -> {"none", "ram", "disk"}]
  BY <1>f DEF Tier, Spilled
<1>3. InOrder(t)
  BY <1>2 DEF InOrder, Spilled
<1>4. t.mtime \in [SpoolRuns -> Nat]
  BY <1>f DEF Spilled
<1>5. t \in SpoolType
  <2>1. /\ t.order \in Seq(SpoolRuns) /\ t.recs \in [SpoolRuns -> Seq(RecordKinds)]
        /\ t.bytes \in [SpoolRuns -> Nat] /\ t.since \in [SpoolRuns -> Nat]
        /\ t.hasResult \in [SpoolRuns -> BOOLEAN]
        /\ t.log \in [SpoolRuns -> {"whole", "torn", "bad"}]
        /\ t.gone \in SUBSET SpoolRuns
    BY <1>f DEF Spilled
  <2>2. t = [order |-> t.order, tier |-> t.tier, recs |-> t.recs, bytes |-> t.bytes,
             since |-> t.since, mtime |-> t.mtime, hasResult |-> t.hasResult, log |-> t.log,
             mem |-> t.mem, disk |-> t.disk, gone |-> t.gone]
    BY DEF Spilled
  <2> QED BY <1>1, <1>2, <1>4, <2>1, <2>2 DEF SpoolType
<1>6. Dated(t)
  BY <1>f DEF Dated, Spilled
<1>7. Replayable(t)
  BY DEF Replayable, HasResult, Spilled
<1>8. SnapKept(s) => SnapKept(t)
  <2>1. \A r \in SpoolRuns : s.tier[r] # "none" => t.tier[r] # "none"
    BY <1>f DEF Spilled
  <2> QED BY <2>1 DEF SnapKept, Spilled
<1> QED BY <1>1, <1>3, <1>5, <1>6, <1>7, <1>8 DEF Good

\* After the first loop of Append RAM is under its cap.
LEMMA SpillToCapGood ==
  ASSUME NEW s, Good(s), clock \in Nat, drain.id \in SUBSET SpoolRuns
  PROVE  /\ Good(SpillToCap(s)) /\ SpillToCap(s).mem <= MemCap
         /\ SnapKept(s) => SnapKept(SpillToCap(s))
<1> s \in SpoolType /\ InOrder(s) /\ Totals(s)
  BY DEF Good
<1> DEFINE ram == InTier(s, "ram")
           N == Len(ram)
           enough == {n \in 0..N : s.mem - SumBytes(s, Oldest(ram, n)) <= MemCap}
           R == Fewest(ram, enough)
           t == SpillRuns(s, R)
<1>1. SpillToCap(s) = t
  BY DEF SpillToCap
<1>2. ram \in Seq(SpoolRuns) /\ N \in Nat /\ Oldest(ram, N) = Tier(s, "ram")
  <2>1. ram \in Seq(SpoolRuns) /\ Oldest(ram, N) = Tier(s, "ram")
    BY TierRuns
  <2> QED BY <2>1
<1>3. MemCap \in Nat /\ s.mem \in Nat /\ s.mem = SumBytes(s, Tier(s, "ram"))
  BY SpoolAssumption, Fields DEF Totals
<1> HIDE DEF ram
<1>4. N \in enough
  BY <1>2, <1>3
<1>5. enough \in SUBSET Nat
  BY <1>2
<1>6. PICK n \in enough : R = Oldest(ram, n)
  <2> HIDE DEF enough
  <2> QED BY <1>4, <1>5, FewestIs
<1>7. R \in SUBSET Tier(s, "ram")
  <2>1. Oldest(ram, n) \subseteq Oldest(ram, N)
    BY <1>2 DEF Oldest
  <2> QED BY <1>2, <1>6, <2>1
<1>8. Spilled(s, R, t)
  <2> HIDE DEF R
  <2> QED BY SpillFields
<1>9. t.mem <= MemCap
  <2>1. t.mem = s.mem - SumBytes(s, R)
    BY <1>8 DEF Spilled
  <2>2. s.mem - SumBytes(s, Oldest(ram, n)) <= MemCap
    BY <1>6
  <2> QED BY <1>6, <2>1, <2>2
<1> HIDE DEF t, R
<1>10. Good(t) /\ (SnapKept(s) => SnapKept(t))
  BY <1>7, <1>8, SpillGood
<1> QED BY <1>1, <1>9, <1>10

\* After the second the disk is under its own, and RAM holds no more.
LEMMA DropToCapGood ==
  ASSUME NEW s, Good(s), clock \in Nat, drain.id \in SUBSET SpoolRuns
  PROVE  /\ Good(DropToCap(s)) /\ DropToCap(s).disk <= DiskCap /\ DropToCap(s).mem <= s.mem
         /\ SnapKept(s) => SnapKept(DropToCap(s))
<1> s \in SpoolType /\ InOrder(s) /\ Totals(s)
  BY DEF Good
<1> DEFINE N == Len(s.order)
           onDisk(n) == Oldest(s.order, n) \cap Tier(s, "disk")
           enough == {n \in 0..N : s.disk - SumBytes(s, onDisk(n)) <= DiskCap}
           R == Fewest(s.order, enough)
           t == DropRuns(s, R)
<1>1. DropToCap(s) = t
  BY DEF DropToCap
<1>2. N \in Nat /\ DOMAIN s.order = 1..N
  <2>1. s.order \in Seq(SpoolRuns)
    BY Fields
  <2> QED BY <2>1
<1>3. onDisk(N) = Tier(s, "disk")
  <2>1. Oldest(s.order, N) = SpoolRuns \ Tier(s, "none")
    BY <1>2 DEF Oldest, InOrder
  <2>2. Tier(s, "disk") \subseteq SpoolRuns \ Tier(s, "none")
    BY DEF Tier
  <2> QED BY <2>1, <2>2
<1>4. DiskCap \in Nat /\ s.disk \in Nat /\ s.disk = SumBytes(s, Tier(s, "disk"))
  BY SpoolAssumption, Fields DEF Totals
<1>5. N \in enough
  <2> HIDE DEF N, onDisk
  <2> QED BY <1>2, <1>3, <1>4
<1>6. enough \in SUBSET Nat
  BY <1>2
<1>7. PICK n \in enough : R = Oldest(s.order, n)
  <2> HIDE DEF enough
  <2> QED BY <1>5, <1>6, FewestIs
<1>8. s.disk - SumBytes(s, R \cap Tier(s, "disk")) <= DiskCap
  <2>1. s.disk - SumBytes(s, onDisk(n)) <= DiskCap
    OBVIOUS
  <2>2. onDisk(n) = R \cap Tier(s, "disk")
    BY <1>7
  <2> HIDE DEF R, onDisk
  <2> QED BY <2>1, <2>2
<1> HIDE DEF R
<1>9. Dropped(s, R, t)
  BY DropFields
<1>10. t.disk <= DiskCap
  BY <1>8, <1>9 DEF Dropped
<1>11. Good(t) /\ t.mem <= s.mem /\ (SnapKept(s) => SnapKept(t))
  BY DropsGood
<1> QED BY <1>1, <1>10, <1>11

-----------------------------------------------------------------------------
(* What was sent is removed *)

\* The records behind the first n.
LEMMA RestIs ==
  ASSUME NEW q \in Seq(RecordKinds), NEW n \in Nat \ {0}
  PROVE  LET rest == SubSeq(q, n + 1, Len(q)) IN
           /\ rest \in Seq(RecordKinds) /\ Len(rest) <= Len(q) /\ Len(rest) \in Nat
           /\ rest # <<>> => /\ n < Len(q) /\ Len(rest) = Len(q) - n
           /\ \A i \in 1..Len(rest) : rest[i] = q[n + i]
           /\ n <= Len(q) => Len(rest) = Len(q) - n
<1> DEFINE rest == SubSeq(q, n + 1, Len(q))
<1>1. Len(q) \in Nat /\ \A i \in 1..Len(q) : q[i] \in RecordKinds
  OBVIOUS
<1>2. CASE n < Len(q)
  <2>1. rest = [i \in 1..(Len(q) - n) |-> q[n + i]]
    BY <1>1, <1>2 
  <2>2. Len(q) - n \in Nat
    BY <1>1, <1>2
  <2>3. rest \in Seq(RecordKinds) /\ Len(rest) = Len(q) - n
    BY <1>1, <2>1, <2>2
  <2> QED BY <1>1, <1>2, <2>1, <2>3
<1>3. CASE ~(n < Len(q))
  <2>1. rest = <<>>
    BY <1>1, <1>3
  <2> QED BY <1>1, <1>3, <2>1
<1> QED BY <1>2, <1>3

\* What dropPrefixLocked makes of s when records are left.
Cut(s, r, n, rest, t) ==
  LET k == Len(s.recs[r]) - Len(rest) IN
  /\ t.order = s.order /\ t.tier = s.tier /\ t.since = s.since /\ t.gone = s.gone
  /\ t.recs = [s.recs EXCEPT ![r] = rest]
  /\ t.bytes = [s.bytes EXCEPT ![r] = @ - k]
  /\ t.mem = IF s.tier[r] = "ram" THEN s.mem - k ELSE s.mem
  /\ t.disk = IF s.tier[r] = "disk" THEN s.disk - k ELSE s.disk
  /\ t.mtime = [s.mtime EXCEPT ![r] = IF s.tier[r] = "disk" THEN clock ELSE @]
  /\ t.log = [s.log EXCEPT ![r] = "whole"]
  /\ t.hasResult = [s.hasResult EXCEPT ![r] = @ /\ (n > 0 => EndsWithResult(rest))]
  /\ t = [order |-> t.order, tier |-> t.tier, recs |-> t.recs, bytes |-> t.bytes,
          since |-> t.since, mtime |-> t.mtime, hasResult |-> t.hasResult, log |-> t.log,
          mem |-> t.mem, disk |-> t.disk, gone |-> t.gone]

\* What the removal of a sent prefix makes of each field.
LEMMA CutFields ==
  ASSUME NEW s \in SpoolType, NEW r \in SpoolRuns, NEW n, s.tier[r] # "none",
         SubSeq(s.recs[r], n + 1, Len(s.recs[r])) # <<>>
  PROVE  Cut(s, r, n, SubSeq(s.recs[r], n + 1, Len(s.recs[r])), DropPrefix(s, r, n))
<1> DEFINE rest == SubSeq(s.recs[r], n + 1, Len(s.recs[r]))
<1>1. ASSUME NEW t, t = DropPrefix(s, r, n)
      PROVE  Cut(s, r, n, rest, t)
  <2> DEFINE k == Len(s.recs[r]) - Len(rest)
  <2>1. t = [s EXCEPT !.recs[r] = rest, !.bytes[r] = @ - k,
                     !.mem  = IF s.tier[r] = "ram" THEN @ - k ELSE @,
                     !.disk = IF s.tier[r] = "disk" THEN @ - k ELSE @,
                     !.mtime[r] = IF s.tier[r] = "disk" THEN clock ELSE @,
                     !.log[r] = "whole",
                     !.hasResult[r] = @ /\ (n > 0 => EndsWithResult(rest))]
    BY <1>1 DEF DropPrefix
  <2> HIDE DEF rest
  <2> QED BY <2>1 DEF SpoolType, Cut
<1> QED BY <1>1

\* A run that is cut holds less by what was cut off, and is complete only with
\* a result at its end.
LEMMA CutGood ==
  ASSUME NEW s, Good(s), clock \in Nat, NEW r \in SpoolRuns, NEW n \in Nat \ {0},
         s.tier[r] # "none", NEW rest, rest = SubSeq(s.recs[r], n + 1, Len(s.recs[r])),
         rest # <<>>, NEW t, Cut(s, r, n, rest, t)
  PROVE  Good(t) /\ t.mem <= s.mem /\ t.disk <= s.disk
<1> s \in SpoolType /\ InOrder(s) /\ Totals(s) /\ Dated(s) /\ Replayable(s)
  BY DEF Good
<1>f. /\ s.order \in Seq(SpoolRuns) /\ s.tier \in [SpoolRuns -> {"none", "ram", "disk"}]
      /\ s.recs \in [SpoolRuns -> Seq(RecordKinds)] /\ s.bytes \in [SpoolRuns -> Nat]
      /\ s.since \in [SpoolRuns -> Nat] /\ s.mtime \in [SpoolRuns -> Nat]
      /\ s.hasResult \in [SpoolRuns -> BOOLEAN]
      /\ s.log \in [SpoolRuns -> {"whole", "torn", "bad"}]
      /\ s.mem \in Nat /\ s.disk \in Nat /\ s.gone \in SUBSET SpoolRuns
  BY Fields
<1>1. /\ rest \in Seq(RecordKinds) /\ Len(s.recs[r]) \in Nat /\ n < Len(s.recs[r])
      /\ Len(rest) = Len(s.recs[r]) - n
  <2>1. s.recs[r] \in Seq(RecordKinds)
    BY <1>f
  <2>2. LET x == SubSeq(s.recs[r], n + 1, Len(s.recs[r])) IN
           /\ x \in Seq(RecordKinds) /\ Len(x) <= Len(s.recs[r]) /\ Len(x) \in Nat
           /\ x # <<>> => n < Len(s.recs[r]) /\ Len(x) = Len(s.recs[r]) - n
    BY <2>1, RestIs
  <2> QED BY <2>1, <2>2
<1>2. Len(s.recs[r]) <= s.bytes[r] /\ s.bytes[r] \in Nat
  BY <1>f DEF Totals
<1>3. Len(s.recs[r]) - Len(rest) = n /\ s.bytes[r] - n \in Nat
  BY <1>1, <1>2
<1>4. /\ t.bytes = [s.bytes EXCEPT ![r] = s.bytes[r] - n]
      /\ t.mem = IF s.tier[r] = "ram" THEN s.mem - n ELSE s.mem
      /\ t.disk = IF s.tier[r] = "disk" THEN s.disk - n ELSE s.disk
      /\ t.recs = [s.recs EXCEPT ![r] = rest] /\ t.tier = s.tier
  BY <1>3 DEF Cut
<1>5. /\ t.bytes \in [SpoolRuns -> Nat] /\ t.bytes[r] = s.bytes[r] - n
      /\ \A x \in SpoolRuns : x # r => t.bytes[x] = s.bytes[x]
  BY <1>f, <1>3, <1>4
<1>6. ASSUME NEW x \in {"ram", "disk"}
      PROVE  /\ Tier(t, x) = Tier(s, x)
             /\ SumBytes(t, Tier(t, x)) \in Nat
             /\ SumBytes(t, Tier(t, x)) =
                  IF s.tier[r] = x THEN SumBytes(s, Tier(s, x)) - n ELSE SumBytes(s, Tier(s, x))
  <2> DEFINE T == Tier(s, x)
  <2>1. Tier(t, x) = T /\ T \in SUBSET SpoolRuns /\ (r \in T <=> s.tier[r] = x)
    BY <1>4 DEF Tier
  <2> HIDE DEF T
  <2>2. SumBytes(t, T) \in Nat /\ SumBytes(s, T) \in Nat
    BY <1>f, <1>5, <2>1, SumType
  <2>3. CASE r \in T
    <3>1. s.bytes \in [SpoolRuns -> Nat] /\ t.bytes \in [SpoolRuns -> Nat]
      BY <1>f, <1>5
    <3>2. \A y \in T : y # r => t.bytes[y] = s.bytes[y]
      BY <1>5, <2>1
    <3>3. SumBytes(t, T) = SumBytes(s, T) - s.bytes[r] + t.bytes[r]
      <4>1. T \in SUBSET SpoolRuns
        BY <2>1
      <4> QED BY <2>3, <3>1, <3>2, <4>1, SumSet
    <3> QED BY <1>2, <1>5, <2>1, <2>2, <2>3, <3>3 DEF T
  <2>4. CASE r \notin T
    <3>1. \A y \in T : t.bytes[y] = s.bytes[y]
      BY <1>5, <2>1, <2>4
    <3>2. SumBytes(t, T) = SumBytes(s, T)
      BY <3>1, SumSame
    <3> QED BY <2>1, <2>2, <2>4, <3>2 DEF T
  <2> QED BY <2>3, <2>4
<1>7. /\ t.mem = SumBytes(t, Tier(t, "ram")) /\ t.disk = SumBytes(t, Tier(t, "disk"))
      /\ t.mem \in Nat /\ t.disk \in Nat /\ t.mem <= s.mem /\ t.disk <= s.disk
  <2>1. s.mem = SumBytes(s, Tier(s, "ram")) /\ s.disk = SumBytes(s, Tier(s, "disk"))
    BY DEF Totals
  <2> QED BY <1>4, <1>6, <1>f, <2>1
<1>8. ASSUME NEW x \in SpoolRuns
      PROVE  Len(t.recs[x]) <= t.bytes[x] /\ (t.tier[x] = "none" => t.bytes[x] = 0)
  <2>1. CASE x = r
    BY <1>f, <1>1, <1>2, <1>4, <1>5, <2>1
  <2>2. CASE x # r
    BY <1>f, <1>4, <1>5, <2>2 DEF Totals
  <2> QED BY <2>1, <2>2
<1>9. Totals(t)
  BY <1>7, <1>8 DEF Totals
<1>10. InOrder(t)
  BY <1>4 DEF InOrder, Cut, Tier
<1>11. t \in SpoolType
  <2>1. t.recs \in [SpoolRuns -> Seq(RecordKinds)]
    BY <1>f, <1>1, <1>4
  <2>2. t.mtime \in [SpoolRuns -> Nat]
    BY <1>f DEF Cut
  <2>3. t.log \in [SpoolRuns -> {"whole", "torn", "bad"}]
    BY <1>f DEF Cut
  <2>4. t.hasResult \in [SpoolRuns -> BOOLEAN]
    <3>1. (s.hasResult[r] /\ (n > 0 => EndsWithResult(rest))) \in BOOLEAN
      OBVIOUS
    <3> QED BY <1>f, <3>1 DEF Cut
  <2>5. t.order \in Seq(SpoolRuns) /\ t.tier \in [SpoolRuns -> {"none", "ram", "disk"}]
        /\ t.since \in [SpoolRuns -> Nat] /\ t.gone \in SUBSET SpoolRuns
    BY <1>f DEF Cut
  <2>6. t = [order |-> t.order, tier |-> t.tier, recs |-> t.recs, bytes |-> t.bytes,
             since |-> t.since, mtime |-> t.mtime, hasResult |-> t.hasResult, log |-> t.log,
             mem |-> t.mem, disk |-> t.disk, gone |-> t.gone]
    BY DEF Cut
  <2> QED BY <1>5, <1>7, <2>1, <2>2, <2>3, <2>4, <2>5, <2>6 DEF SpoolType
<1>12. Dated(t)
  <2> SUFFICES ASSUME NEW x \in SpoolRuns
               PROVE  t.since[x] <= clock /\ t.mtime[x] <= clock
    BY DEF Dated
  <2>1. s.since[x] <= clock /\ s.mtime[x] <= clock
    BY DEF Dated
  <2>2. t.since[x] = s.since[x]
    BY DEF Cut
  <2>3. t.mtime[x] = s.mtime[x] \/ t.mtime[x] = clock
    BY <1>f DEF Cut
  <2> QED BY <2>1, <2>2, <2>3
<1>13. Replayable(t)
  <2> SUFFICES ASSUME NEW x \in SpoolRuns, t.hasResult[x], t.log[x] = "whole"
               PROVE  HasResult(t, x)
    BY DEF Replayable
  <2>1. CASE x = r
    <3>1. EndsWithResult(rest)
      <4>1. t.hasResult = [s.hasResult EXCEPT ![r] = s.hasResult[r] /\ (n > 0 => EndsWithResult(rest))]
        BY DEF Cut
      <4>2. t.hasResult[r] = (s.hasResult[r] /\ (n > 0 => EndsWithResult(rest)))
        BY <1>f, <4>1
      <4>3. n > 0
        OBVIOUS
      <4> QED BY <2>1, <4>2, <4>3
    <3>2. t.recs[x] = rest
      BY <1>f, <1>4, <2>1
    <3>3. Len(rest) \in 1..Len(rest) /\ DOMAIN rest = 1..Len(rest)
      BY <1>1
    <3> QED BY <3>1, <3>2, <3>3 DEF EndsWithResult, HasResult
  <2>2. CASE x # r
    <3>1. s.hasResult[x] /\ s.log[x] = "whole" /\ t.recs[x] = s.recs[x]
      BY <1>f, <2>2 DEF Cut
    <3> QED BY <3>1 DEF Replayable, HasResult
  <2> QED BY <2>1, <2>2
<1> QED BY <1>7, <1>9, <1>10, <1>11, <1>12, <1>13 DEF Good

\* Removing what was sent leaves a spool in order that holds no more, and of a
\* whole log just the records behind what was sent.
LEMMA PrefixGood ==
  ASSUME NEW s, Good(s), clock \in Nat, drain.id \in SUBSET SpoolRuns, NEW r \in SpoolRuns,
         NEW n \in Nat \ {0}
  PROVE  /\ Good(DropPrefix(s, r, n)) /\ DropPrefix(s, r, n).mem <= s.mem
         /\ DropPrefix(s, r, n).disk <= s.disk
         /\ s.tier[r] # "none" =>
              DropPrefix(s, r, n).recs[r] = SubSeq(s.recs[r], n + 1, Len(s.recs[r]))
<1> s \in SpoolType
  BY DEF Good
<1> DEFINE rest == SubSeq(s.recs[r], n + 1, Len(s.recs[r]))
           t == DropPrefix(s, r, n)
<1>1. CASE s.tier[r] = "none"
  <2>1. t = s
    BY <1>1 DEF DropPrefix
  <2>2. s.mem \in Nat /\ s.disk \in Nat
    BY Fields
  <2> QED BY <1>1, <2>1, <2>2
<1>2. CASE s.tier[r] # "none" /\ rest = <<>>
  <2>1. t = DropRuns(s, {r})
    BY <1>2 DEF DropPrefix
  <2>2. Dropped(s, {r}, DropRuns(s, {r}))
    BY DropFields
  <2>3. DropRuns(s, {r}).recs[r] = <<>>
    BY <2>2 DEF Dropped
  <2>4. Good(DropRuns(s, {r})) /\ DropRuns(s, {r}).mem <= s.mem /\ DropRuns(s, {r}).disk <= s.disk
    BY DropsGood
  <2> QED BY <1>2, <2>1, <2>3, <2>4
<1>3. CASE s.tier[r] # "none" /\ rest # <<>>
  <2>1. Cut(s, r, n, rest, t)
    BY <1>3, CutFields
  <2>2. t.recs[r] = rest
    <3>1. s.recs \in [SpoolRuns -> Seq(RecordKinds)]
      BY Fields
    <3> QED BY <2>1, <3>1 DEF Cut
  <2>3. Good(t) /\ t.mem <= s.mem /\ t.disk <= s.disk
    <3>1. s.tier[r] # "none"
      BY <1>3
    <3>2. PICK x : x = rest
      OBVIOUS
    <3>3. x = SubSeq(s.recs[r], n + 1, Len(s.recs[r])) /\ x # <<>> /\ Cut(s, r, n, x, t)
      BY <1>3, <2>1, <3>2
    <3> HIDE DEF t, rest
    <3> QED BY <3>1, <3>3, CutGood
  <2> QED BY <2>2, <2>3
<1> QED BY <1>1, <1>2, <1>3

-----------------------------------------------------------------------------
(* The directory is reopened *)

\* What Open makes of the logs of the runs D, adopted in the order q.
Adopted(s, D, q, t) ==
  /\ t.order = q
  /\ t.tier = [r \in SpoolRuns |-> IF r \in D THEN "disk" ELSE "none"]
  /\ t.recs = [r \in SpoolRuns |-> IF r \in D THEN s.recs[r] ELSE <<>>]
  /\ t.bytes = [r \in SpoolRuns |-> IF r \in D THEN Len(s.recs[r]) ELSE 0]
  /\ t.since = [r \in SpoolRuns |-> IF r \in D THEN s.mtime[r] ELSE 0]
  /\ t.mtime = [r \in SpoolRuns |-> IF r \in D THEN s.mtime[r] ELSE 0]
  /\ t.log = [r \in SpoolRuns |-> IF r \in D THEN s.log[r] ELSE "whole"]
  /\ t.hasResult = [r \in SpoolRuns |-> r \in D /\ EndsWithResult(s.recs[r])]
  /\ t.mem = 0 /\ t.disk = SumBytes(t, D) /\ t.gone = {}
  /\ t = [order |-> t.order, tier |-> t.tier, recs |-> t.recs, bytes |-> t.bytes,
          since |-> t.since, mtime |-> t.mtime, hasResult |-> t.hasResult, log |-> t.log,
          mem |-> t.mem, disk |-> t.disk, gone |-> t.gone]

\* Open adopts some of the logs found on disk, in one of the orders of their
\* modification times.
LEMMA ReopenFields ==
  ASSUME NEW s \in SpoolType, Reopen(s)
  PROVE  \E D \in SUBSET Tier(s, "disk") : \E q \in AdoptionOrders(s, D) : Adopted(s, D, q, sp')
<1>1. PICK X \in SUBSET {r \in Tier(s, "disk") : s.log[r] = "bad"} :
        LET D == Tier(s, "disk") \ X
            Kept(f, zero) == [r \in SpoolRuns |-> IF r \in D THEN f[r] ELSE zero]
            size == [r \in SpoolRuns |-> Len(s.recs[r])]
            left == [EmptySpool EXCEPT
                       !.tier = Kept([r \in SpoolRuns |-> "disk"], "none"),
                       !.recs = Kept(s.recs, <<>>), !.bytes = Kept(size, 0),
                       !.since = Kept(s.mtime, 0), !.mtime = Kept(s.mtime, 0),
                       !.log = Kept(s.log, "whole"),
                       !.hasResult = [r \in SpoolRuns |-> r \in D /\ EndsWithResult(s.recs[r])]]
        IN  \E q \in AdoptionOrders(s, D) :
              sp' = [left EXCEPT !.order = q, !.disk = SumBytes(left, D)]
  BY DEF Reopen
<1> DEFINE D == Tier(s, "disk") \ X
           Kept(f, zero) == [r \in SpoolRuns |-> IF r \in D THEN f[r] ELSE zero]
           size == [r \in SpoolRuns |-> Len(s.recs[r])]
           left == [EmptySpool EXCEPT
                      !.tier = Kept([r \in SpoolRuns |-> "disk"], "none"),
                      !.recs = Kept(s.recs, <<>>), !.bytes = Kept(size, 0),
                      !.since = Kept(s.mtime, 0), !.mtime = Kept(s.mtime, 0),
                      !.log = Kept(s.log, "whole"),
                      !.hasResult = [r \in SpoolRuns |-> r \in D /\ EndsWithResult(s.recs[r])]]
<1>2. PICK q \in AdoptionOrders(s, D) :
        sp' = [left EXCEPT !.order = q, !.disk = SumBytes(left, D)]
  BY <1>1
<1>3. D \in SUBSET Tier(s, "disk")
  OBVIOUS
<1> HIDE DEF D
<1>4. /\ Kept([r \in SpoolRuns |-> "disk"], "none")
           = [r \in SpoolRuns |-> IF r \in D THEN "disk" ELSE "none"]
      /\ Kept(size, 0) = [r \in SpoolRuns |-> IF r \in D THEN Len(s.recs[r]) ELSE 0]
  OBVIOUS
<1>5. /\ sp'.order = q
      /\ sp'.tier = Kept([r \in SpoolRuns |-> "disk"], "none")
      /\ sp'.recs = Kept(s.recs, <<>>) /\ sp'.bytes = Kept(size, 0)
      /\ sp'.since = Kept(s.mtime, 0) /\ sp'.mtime = Kept(s.mtime, 0)
      /\ sp'.log = Kept(s.log, "whole")
      /\ sp'.hasResult = [r \in SpoolRuns |-> r \in D /\ EndsWithResult(s.recs[r])]
      /\ sp'.mem = 0 /\ sp'.disk = SumBytes(left, D) /\ sp'.gone = {}
      /\ left.bytes = Kept(size, 0)
      /\ sp' = [order |-> sp'.order, tier |-> sp'.tier, recs |-> sp'.recs, bytes |-> sp'.bytes,
                since |-> sp'.since, mtime |-> sp'.mtime, hasResult |-> sp'.hasResult,
                log |-> sp'.log, mem |-> sp'.mem, disk |-> sp'.disk, gone |-> sp'.gone]
  <2> HIDE DEF Kept, size
  <2> QED BY <1>2 DEF EmptySpool
<1>6. SumBytes(left, D) = SumBytes(sp', D)
  <2>1. left.bytes = sp'.bytes
    BY <1>5
  <2> HIDE DEF left
  <2> QED BY <2>1 DEF SumBytes
<1>7. Adopted(s, D, q, sp')
  <2> HIDE DEF left, size
  <2> QED BY <1>4, <1>5, <1>6 DEF Adopted
<1> QED BY <1>2, <1>3, <1>7

\* An adoption order holds every adopted run once.
LEMMA AdoptionOrderIs ==
  ASSUME NEW s, NEW D \in SUBSET SpoolRuns, NEW q \in AdoptionOrders(s, D)
  PROVE  /\ q \in Seq(SpoolRuns) /\ DOMAIN q = 1..Cardinality(D)
         /\ {q[i] : i \in DOMAIN q} = D
         /\ \A i, j \in DOMAIN q : i < j => q[i] # q[j] /\ s.mtime[q[i]] <= s.mtime[q[j]]
<1> DEFINE N == Cardinality(D)
<1>1. IsFiniteSet(D) /\ N \in Nat
  BY SpoolAssumption, FS_Subset, FS_CardinalityType
<1>2. q \in [1..N -> D]
      /\ \A i, j \in 1..N : i < j => q[i] # q[j] /\ s.mtime[q[i]] <= s.mtime[q[j]]
  BY DEF AdoptionOrders
<1> HIDE DEF N
<1>3. q \in Injection(1..N, D)
  <2>1. \A i, j \in 1..N : i # j => q[i] # q[j]
    <3> SUFFICES ASSUME NEW i \in 1..N, NEW j \in 1..N, i # j
                 PROVE  q[i] # q[j]
      OBVIOUS
    <3>1. i < j \/ j < i
      OBVIOUS
    <3> QED BY <1>2, <3>1
  <2> QED BY <1>2, <2>1 DEF Injection, IsInjective
<1>4. Cardinality(1..N) = N
  BY <1>1, FS_Interval
<1>5. q \in Surjection(1..N, D)
  BY <1>1, <1>3, <1>4, FS_Injection DEF N
<1>6. \A r \in D : \E i \in 1..N : q[i] = r
  BY <1>5 DEF Surjection
<1>7. q \in Seq(SpoolRuns)
  <2>1. q \in [1..N -> SpoolRuns]
    BY <1>2
  <2> QED BY <1>1, <2>1
<1>8. {q[i] : i \in DOMAIN q} = D
  BY <1>2, <1>6
<1> QED BY <1>2, <1>7, <1>8 DEF N

\* Whatever the agent left in its directory, the reopened spool is in order.
LEMMA AdoptedGood ==
  ASSUME NEW s \in SpoolType, \A r \in SpoolRuns : s.mtime[r] <= clock, clock \in Nat,
         NEW D \in SUBSET Tier(s, "disk"), NEW q \in AdoptionOrders(s, D), NEW t,
         Adopted(s, D, q, t)
  PROVE  Good(t) /\ t.mem = 0 /\ t.gone = {}
<1>f. /\ s.recs \in [SpoolRuns -> Seq(RecordKinds)] /\ s.mtime \in [SpoolRuns -> Nat]
      /\ s.log \in [SpoolRuns -> {"whole", "torn", "bad"}]
  BY Fields
<1>1. D \in SUBSET SpoolRuns
  BY DEF Tier
<1>2. /\ q \in Seq(SpoolRuns) /\ {q[i] : i \in DOMAIN q} = D
      /\ \A i, j \in DOMAIN q : i < j => q[i] # q[j] /\ s.mtime[q[i]] <= s.mtime[q[j]]
  BY <1>1, AdoptionOrderIs
<1>3. /\ Tier(t, "disk") = D /\ Tier(t, "ram") = {} /\ SpoolRuns \ Tier(t, "none") = D
      /\ t.mem = 0 /\ t.gone = {}
  BY <1>1 DEF Adopted, Tier
<1>4. \A r \in SpoolRuns : Len(s.recs[r]) \in Nat
  BY <1>f
<1>5. t.bytes \in [SpoolRuns -> Nat]
  BY <1>4 DEF Adopted
<1>6. SumBytes(t, D) \in Nat /\ t.disk = SumBytes(t, D)
  <2>1. SumBytes(t, D) \in Nat
    BY <1>1, <1>5, SumType
  <2> QED BY <2>1 DEF Adopted
<1>7. Totals(t)
  <2>1. t.mem = SumBytes(t, Tier(t, "ram"))
    <3>1. SumBytes(t, {}) = 0
      BY SumEmpty
    <3> QED BY <1>3, <3>1
  <2>2. ASSUME NEW r \in SpoolRuns
        PROVE  Len(t.recs[r]) <= t.bytes[r] /\ (t.tier[r] = "none" => t.bytes[r] = 0)
    <3>1. CASE r \in D
      BY <1>4, <3>1 DEF Adopted
    <3>2. CASE r \notin D
      BY <3>2 DEF Adopted
    <3> QED BY <3>1, <3>2
  <2> QED BY <1>3, <1>6, <2>1, <2>2 DEF Totals
<1>8. InOrder(t)
  <2>1. t.order = q /\ \A r \in D : t.since[r] = s.mtime[r]
    BY <1>1 DEF Adopted
  <2>2. \A i \in DOMAIN q : q[i] \in D
    BY <1>2
  <2> QED BY <1>2, <1>3, <2>1, <2>2 DEF InOrder
<1>9. Dated(t)
  <2> SUFFICES ASSUME NEW r \in SpoolRuns
               PROVE  t.since[r] <= clock /\ t.mtime[r] <= clock
    BY DEF Dated
  <2>1. t.since[r] \in {s.mtime[r], 0} /\ t.mtime[r] \in {s.mtime[r], 0}
    BY DEF Adopted
  <2> QED BY <2>1
<1>10. Replayable(t)
  <2> SUFFICES ASSUME NEW r \in SpoolRuns, t.hasResult[r]
               PROVE  HasResult(t, r)
    BY DEF Replayable
  <2>1. r \in D /\ EndsWithResult(s.recs[r])
    BY DEF Adopted
  <2>2. t.recs[r] = s.recs[r] /\ s.recs[r] \in Seq(RecordKinds)
    BY <1>f, <2>1 DEF Adopted
  <2>3. Len(s.recs[r]) \in DOMAIN s.recs[r] /\ s.recs[r][Len(s.recs[r])] = "result"
    BY <2>1, <2>2 DEF EndsWithResult
  <2> QED BY <2>2, <2>3 DEF HasResult
<1>11. t \in SpoolType
  <2>1. t.order \in Seq(SpoolRuns) /\ t.tier \in [SpoolRuns -> {"none", "ram", "disk"}]
    BY <1>2 DEF Adopted
  <2>2. t.recs \in [SpoolRuns -> Seq(RecordKinds)]
    <3>1. <<>> \in Seq(RecordKinds)
      OBVIOUS
    <3> QED BY <1>f, <3>1 DEF Adopted
  <2>3. t.since \in [SpoolRuns -> Nat] /\ t.mtime \in [SpoolRuns -> Nat]
    BY <1>f DEF Adopted
  <2>4. t.log \in [SpoolRuns -> {"whole", "torn", "bad"}]
    BY <1>f DEF Adopted
  <2>5. t.hasResult \in [SpoolRuns -> BOOLEAN]
    <3>1. \A r : (r \in D /\ EndsWithResult(s.recs[r])) \in BOOLEAN
      OBVIOUS
    <3> QED BY <3>1 DEF Adopted
  <2>6. t.mem \in Nat /\ t.disk \in Nat /\ t.gone \in SUBSET SpoolRuns
    BY <1>3, <1>6
  <2>7. t = [order |-> t.order, tier |-> t.tier, recs |-> t.recs, bytes |-> t.bytes,
             since |-> t.since, mtime |-> t.mtime, hasResult |-> t.hasResult, log |-> t.log,
             mem |-> t.mem, disk |-> t.disk, gone |-> t.gone]
    BY DEF Adopted
  <2> QED BY <1>5, <2>1, <2>2, <2>3, <2>4, <2>5, <2>6, <2>7 DEF SpoolType
<1> QED BY <1>3, <1>7, <1>8, <1>9, <1>10, <1>11 DEF Good

\* Whatever Open adopts, the spool it opens with is in order.
LEMMA ReopenGood ==
  ASSUME NEW s \in SpoolType, \A r \in SpoolRuns : s.mtime[r] <= clock, clock \in Nat, Reopen(s)
  PROVE  Good(sp') /\ sp'.mem = 0 /\ sp'.gone = {}
<1>1. PICK D \in SUBSET Tier(s, "disk") : \E q \in AdoptionOrders(s, D) : Adopted(s, D, q, sp')
  BY ReopenFields
<1>2. PICK q \in AdoptionOrders(s, D) : Adopted(s, D, q, sp')
  BY <1>1
<1> QED BY <1>2, AdoptedGood

-----------------------------------------------------------------------------
(* The specification *)

\* One run is drained at a time, and what was copied of it is not empty.
DrainOK ==
  /\ \A q, r \in drain.id : q = r
  /\ drain.id # {} => drain.snap # <<>>

\* The spool is in order after every step.
SpoolSafe ==
  /\ Good(sp)
  /\ clock \in Nat /\ spoolCrashes \in Nat /\ reopened \in BOOLEAN
  /\ drain \in [id : SUBSET SpoolRuns, snap : Seq(RecordKinds), sent : Nat]
  /\ SpoolBounded /\ SnapKept(sp) /\ DrainOK

\* The next spool is in order at the next clock.
LEMMA GoodNext ==
  ASSUME Good(sp'), clock' = clock
  PROVE  Good(sp)'
<1>1. (sp \in SpoolType)'
  BY DEF Good
<1>2. InOrder(sp)'
  BY DEF Good
<1>3. Totals(sp)'
  BY DEF Good
<1>4. Dated(sp)'
  BY DEF Good, Dated
<1>5. Replayable(sp)'
  BY DEF Good
<1> QED BY <1>1, <1>2, <1>3, <1>4, <1>5 DEF Good

\* With the mark of a dropped run cleared a spool is what it was.
LEMMA UnmarkGood ==
  ASSUME NEW s, Good(s)
  PROVE  /\ Good([s EXCEPT !.gone = {}])
         /\ [s EXCEPT !.gone = {}].mem = s.mem /\ [s EXCEPT !.gone = {}].disk = s.disk
         /\ [s EXCEPT !.gone = {}].tier = s.tier /\ [s EXCEPT !.gone = {}].recs = s.recs
<1>1. ASSUME NEW t, t = [s EXCEPT !.gone = {}]
      PROVE  Good(t) /\ t.mem = s.mem /\ t.disk = s.disk /\ t.tier = s.tier /\ t.recs = s.recs
  <2>1. s \in SpoolType
    BY DEF Good
  <2>2. /\ t \in SpoolType /\ t.order = s.order /\ t.tier = s.tier /\ t.recs = s.recs
        /\ t.bytes = s.bytes /\ t.since = s.since /\ t.mtime = s.mtime
        /\ t.hasResult = s.hasResult /\ t.log = s.log /\ t.mem = s.mem /\ t.disk = s.disk
    BY <1>1, <2>1 DEF SpoolType
  <2>3. InOrder(t)
    BY <2>2 DEF Good, InOrder, Tier
  <2>4. Totals(t)
    BY <2>2 DEF Good, Totals, Tier, SumBytes
  <2>5. Dated(t)
    BY <2>2 DEF Good, Dated
  <2>6. Replayable(t)
    BY <2>2 DEF Good, Replayable, HasResult
  <2> QED BY <2>2, <2>3, <2>4, <2>5, <2>6 DEF Good
<1> QED BY <1>1

\* The run Drain takes is held.
LEMMA CompleteHeld ==
  ASSUME NEW s, Good(s), Complete(s) # <<>>
  PROVE  Head(Complete(s)) \in SpoolRuns /\ s.tier[Head(Complete(s))] # "none"
<1> DEFINE I == {i \in DOMAIN s.order : s.hasResult[s.order[i]]}
           N == Cardinality(I)
           q == Complete(s)
<1>1. s \in SpoolType /\ InOrder(s)
  BY DEF Good
<1>2. s.order \in Seq(SpoolRuns)
  BY <1>1, Fields
<1>3. q = At(s.order, I) /\ I \in SUBSET DOMAIN s.order
  BY DEF Complete
<1>4. q \in Seq(SpoolRuns) /\ Len(q) = N
  <2> HIDE DEF I, q
  <2> QED BY <1>2, <1>3, AtIs
<1>5. PICK f \in [1..N -> I] : \A n \in 1..N : q[n] = s.order[f[n]]
  <2> HIDE DEF I, q
  <2> QED BY <1>2, <1>3, AtIs
<1>6. 1 \in 1..N /\ Head(q) = q[1]
  <2> HIDE DEF I, N, q
  <2>1. q # <<>>
    BY DEF q
  <2> QED BY <1>4, <2>1
<1>7. f[1] \in DOMAIN s.order
  <2> HIDE DEF I, N
  <2> QED BY <1>3, <1>5, <1>6
<1>8. Head(q) = s.order[f[1]]
  <2> HIDE DEF I, N, q
  <2> QED BY <1>5, <1>6
<1>9. Head(q) \in SpoolRuns \ Tier(s, "none")
  <2> HIDE DEF I, N, q
  <2> QED BY <1>1, <1>7, <1>8 DEF InOrder
<1> QED BY <1>9 DEF Tier

\* While the copy of a drain stands, only the spool can disturb it.
LEMMA SnapNext ==
  ASSUME SnapKept(sp'), drain' = drain
  PROVE  SnapKept(sp)'
  BY DEF SnapKept

\* When nothing is being drained there is nothing to keep.
LEMMA NoDrainNext ==
  ASSUME drain' = NoDrain
  PROVE  /\ SnapKept(sp)' /\ DrainOK'
         /\ (drain \in [id : SUBSET SpoolRuns, snap : Seq(RecordKinds), sent : Nat])'
<1>1. drain'.id = {} /\ drain'.snap = <<>> /\ drain'.sent = 0
  BY DEF NoDrain
<1>2. drain' \in [id : SUBSET SpoolRuns, snap : Seq(RecordKinds), sent : Nat]
  <2>1. <<>> \in Seq(RecordKinds)
    OBVIOUS
  <2> QED BY <2>1 DEF NoDrain
<1>3. SnapKept(sp)'
  BY <1>1 DEF SnapKept
<1> QED BY <1>1, <1>2, <1>3 DEF DrainOK

\* An empty spool.
LEMMA SpoolStarts ==
  ASSUME SpoolInit
  PROVE  SpoolSafe
<1> USE DEF SpoolInit
<1>f. /\ sp.order = <<>> /\ sp.tier = [r \in SpoolRuns |-> "none"]
      /\ sp.recs = [r \in SpoolRuns |-> <<>>] /\ sp.bytes = [r \in SpoolRuns |-> 0]
      /\ sp.since = [r \in SpoolRuns |-> 0] /\ sp.mtime = [r \in SpoolRuns |-> 0]
      /\ sp.hasResult = [r \in SpoolRuns |-> FALSE]
      /\ sp.log = [r \in SpoolRuns |-> "whole"] /\ sp.mem = 0 /\ sp.disk = 0 /\ sp.gone = {}
      /\ clock = 0
  BY DEF EmptySpool
<1>1. sp \in SpoolType
  <2>1. <<>> \in Seq(SpoolRuns) /\ <<>> \in Seq(RecordKinds)
    OBVIOUS
  <2> QED BY <2>1 DEF EmptySpool, SpoolType
<1>2. Tier(sp, "ram") = {} /\ Tier(sp, "disk") = {} /\ SpoolRuns \ Tier(sp, "none") = {}
  BY <1>f DEF Tier
<1>3. InOrder(sp)
  BY <1>f, <1>2 DEF InOrder
<1>4. Totals(sp)
  <2>1. SumBytes(sp, {}) = 0
    BY SumEmpty
  <2>2. Len(<<>>) = 0
    OBVIOUS
  <2>3. \A r \in SpoolRuns : sp.recs[r] = <<>> /\ sp.bytes[r] = 0
    BY <1>f
  <2>4. \A r \in SpoolRuns : Len(sp.recs[r]) <= sp.bytes[r] /\ (sp.tier[r] = "none" => sp.bytes[r] = 0)
    BY <2>2, <2>3
  <2>5. sp.mem = SumBytes(sp, Tier(sp, "ram")) /\ sp.disk = SumBytes(sp, Tier(sp, "disk"))
    <3>1. sp.mem = 0 /\ sp.disk = 0
      BY <1>f
    <3> QED BY <1>2, <2>1, <3>1
  <2> QED BY <2>4, <2>5 DEF Totals
<1>5. Dated(sp) /\ Replayable(sp)
  BY <1>f DEF Dated, Replayable
<1>6. SpoolBounded
  <2>1. MemCap \in Nat /\ DiskCap \in Nat
    BY SpoolAssumption
  <2> QED BY <1>f, <2>1 DEF SpoolBounded
<1>7. SnapKept(sp) /\ DrainOK
      /\ drain \in [id : SUBSET SpoolRuns, snap : Seq(RecordKinds), sent : Nat]
  <2>1. <<>> \in Seq(RecordKinds)
    OBVIOUS
  <2> QED BY <2>1 DEF SnapKept, DrainOK, NoDrain
<1> QED BY <1>1, <1>3, <1>4, <1>5, <1>6, <1>7 DEF SpoolSafe, Good

\* The parts of SpoolSafe a step starts from.
LEMMA SafeParts ==
  ASSUME SpoolSafe
  PROVE  /\ Good(sp) /\ clock \in Nat /\ spoolCrashes \in Nat /\ reopened \in BOOLEAN
         /\ drain \in [id : SUBSET SpoolRuns, snap : Seq(RecordKinds), sent : Nat]
         /\ drain.id \in SUBSET SpoolRuns /\ Len(drain.snap) \in Nat
         /\ SnapKept(sp) /\ DrainOK
         /\ sp.mem <= MemCap /\ (sp.disk <= DiskCap \/ reopened)
         /\ MemCap \in Nat /\ DiskCap \in Nat
<1>1. drain.id \in SUBSET SpoolRuns /\ drain.snap \in Seq(RecordKinds)
  BY DEF SpoolSafe
<1> QED BY <1>1, SpoolAssumption DEF SpoolSafe, SpoolBounded

\* An operation that leaves the drain and the clock alone.
LEMMA QuietStep ==
  ASSUME SpoolSafe, Good(sp'), SnapKept(sp'), UNCHANGED <<clock, drain>>, spoolCrashes' \in Nat,
         reopened' \in BOOLEAN, sp'.mem <= MemCap, sp'.disk <= DiskCap \/ reopened'
  PROVE  SpoolSafe'
<1>1. Good(sp)' /\ SnapKept(sp)'
  BY GoodNext, SnapNext
<1>2. SpoolBounded' /\ DrainOK'
  BY DEF SpoolSafe, SpoolBounded, DrainOK
<1>3. /\ clock' \in Nat
      /\ drain' \in [id : SUBSET SpoolRuns, snap : Seq(RecordKinds), sent : Nat]
  BY DEF SpoolSafe
<1> QED BY <1>1, <1>2, <1>3 DEF SpoolSafe

\* Append: prune, add, spill to the RAM cap, drop to the disk cap.
LEMMA AppendStep ==
  ASSUME SpoolSafe, NEW r \in SpoolRuns, NEW k \in RecordKinds, AppendRecord(r, k)
  PROVE  SpoolSafe'
<1>0. /\ Good(sp) /\ clock \in Nat /\ spoolCrashes \in Nat /\ SnapKept(sp)
      /\ drain.id \in SUBSET SpoolRuns /\ Len(drain.snap) \in Nat /\ MemCap \in Nat
  BY SafeParts
<1> DEFINE a == Prune(sp)
           b == AddRecord(a, r, k)
           c == SpillToCap(b)
           d == DropToCap(c)
<1>1. Good(a) /\ SnapKept(a)
  BY <1>0, PruneGood
<1> HIDE DEF a
<1>2. Good(b) /\ SnapKept(b)
  BY <1>0, <1>1, AddsGood
<1> HIDE DEF b
<1>3. Good(c) /\ SnapKept(c) /\ c.mem <= MemCap
  BY <1>0, <1>2, SpillToCapGood
<1> HIDE DEF c
<1>4. Good(d) /\ SnapKept(d) /\ d.disk <= DiskCap /\ d.mem <= c.mem
  BY <1>0, <1>3, DropToCapGood
<1>5. c.mem \in Nat /\ d.mem \in Nat
  <2> HIDE DEF d
  <2>1. c \in SpoolType /\ d \in SpoolType
    BY <1>3, <1>4 DEF Good
  <2> QED BY <2>1 DEF SpoolType
<1>6. sp' = d /\ reopened' = FALSE /\ UNCHANGED <<clock, drain, spoolCrashes>>
  BY DEF AppendRecord, a, b, c
<1> HIDE DEF d
<1>7. /\ Good(sp') /\ SnapKept(sp') /\ spoolCrashes' \in Nat /\ reopened' \in BOOLEAN
      /\ sp'.mem <= MemCap /\ (sp'.disk <= DiskCap \/ reopened')
  <2>1. Good(sp') /\ SnapKept(sp') /\ spoolCrashes' \in Nat /\ reopened' \in BOOLEAN
    BY <1>0, <1>4, <1>6
  <2>2. d.mem <= MemCap
    BY <1>0, <1>3, <1>4, <1>5
  <2>3. sp'.mem <= MemCap /\ sp'.disk <= DiskCap
    BY <1>4, <1>6, <2>2
  <2> QED BY <2>1, <2>3
<1> QED BY <1>6, <1>7, QuietStep

\* Drain copies the oldest complete run, or drops one whose log reads as empty.
LEMMA DrainTakeStep ==
  ASSUME SpoolSafe, DrainTake
  PROVE  SpoolSafe'
<1>0. /\ Good(sp) /\ clock \in Nat /\ spoolCrashes \in Nat /\ SnapKept(sp)
      /\ reopened \in BOOLEAN /\ drain.id \in SUBSET SpoolRuns /\ MemCap \in Nat /\ DiskCap \in Nat
      /\ sp.mem <= MemCap /\ (sp.disk <= DiskCap \/ reopened)
  BY SafeParts
<1> DEFINE s == Prune(sp)
           r == Head(Complete(s))
<1>1. /\ drain.id = {} /\ Complete(s) # <<>> /\ UNCHANGED <<clock, reopened, spoolCrashes>>
      /\ \/ s.recs[r] = <<>> /\ sp' = DropRuns(s, {r}) /\ UNCHANGED drain
         \/ /\ s.recs[r] # <<>>
            /\ sp' = [s EXCEPT !.gone = {}]
            /\ drain' = [id |-> {r}, snap |-> s.recs[r], sent |-> 0]
  <2>1. /\ drain.id = {}
        /\ Complete(s) # <<>>
        /\ IF s.recs[r] = <<>>
           THEN sp' = DropRuns(s, {r}) /\ UNCHANGED drain
           ELSE /\ sp' = [s EXCEPT !.gone = {}]
                /\ drain' = [id |-> {r}, snap |-> s.recs[r], sent |-> 0]
        /\ UNCHANGED <<clock, reopened, spoolCrashes>>
    BY DEF DrainTake
  <2> HIDE DEF s, r
  <2> QED BY <2>1
<1>2. Good(s) /\ s.mem <= sp.mem /\ s.disk <= sp.disk
  BY <1>0, PruneGood
<1> HIDE DEF s
<1>3. r \in SpoolRuns /\ s.tier[r] # "none"
  BY <1>1, <1>2, CompleteHeld
<1> HIDE DEF r
<1>4. /\ sp.mem \in Nat /\ sp.disk \in Nat /\ s.mem \in Nat /\ s.disk \in Nat
      /\ s.recs \in [SpoolRuns -> Seq(RecordKinds)]
  <2>1. sp \in SpoolType /\ s \in SpoolType
    BY <1>0, <1>2 DEF Good
  <2> QED BY <2>1 DEF SpoolType
<1>5. CASE s.recs[r] = <<>> /\ sp' = DropRuns(s, {r}) /\ UNCHANGED drain
  <2>1. /\ Good(DropRuns(s, {r})) /\ DropRuns(s, {r}).mem <= s.mem /\ DropRuns(s, {r}).disk <= s.disk
    BY <1>0, <1>2, DropsGood
  <2>2. DropRuns(s, {r}).mem \in Nat /\ DropRuns(s, {r}).disk \in Nat
    BY <2>1 DEF Good, SpoolType
  <2>3. SnapKept(sp')
    BY <1>1 DEF SnapKept
  <2>4. sp'.mem <= MemCap /\ (sp'.disk <= DiskCap \/ reopened')
    BY <1>0, <1>1, <1>2, <1>4, <1>5, <2>1, <2>2
  <2>5. Good(sp') /\ UNCHANGED <<clock, drain>> /\ spoolCrashes' \in Nat /\ reopened' \in BOOLEAN
    BY <1>0, <1>1, <1>5, <2>1
  <2> QED BY <2>3, <2>4, <2>5, QuietStep
<1>6. CASE /\ s.recs[r] # <<>> /\ sp' = [s EXCEPT !.gone = {}]
           /\ drain' = [id |-> {r}, snap |-> s.recs[r], sent |-> 0]
  <2>1. /\ Good(sp') /\ sp'.mem = s.mem /\ sp'.disk = s.disk
        /\ sp'.tier = s.tier /\ sp'.recs = s.recs
    BY <1>2, <1>6, UnmarkGood
  <2>2. Good(sp)'
    BY <1>1, <2>1, GoodNext
  <2>3. drain'.id = {r} /\ drain'.snap = s.recs[r]
    BY <1>6
  <2>4. SnapKept(sp)'
    <3>1. s.recs[r] \in Seq(RecordKinds)
      BY <1>3, <1>4
    <3>2. Len(s.recs[r]) \in Nat
      BY <3>1
    <3> QED BY <1>3, <2>1, <2>3, <3>2 DEF SnapKept
  <2>5. DrainOK'
    BY <1>6, <2>3 DEF DrainOK
  <2>6. drain' \in [id : SUBSET SpoolRuns, snap : Seq(RecordKinds), sent : Nat]
    BY <1>3, <1>4, <1>6
  <2>7. SpoolBounded'
    BY <1>0, <1>1, <1>2, <1>4, <2>1 DEF SpoolBounded
  <2> QED BY <1>0, <1>1, <2>2, <2>4, <2>5, <2>6, <2>7 DEF SpoolSafe
<1> QED BY <1>1, <1>5, <1>6

\* One more record of the copy is sent; the spool is not touched.
LEMMA DrainSendStep ==
  ASSUME SpoolSafe, DrainSend
  PROVE  SpoolSafe'
<1>0. /\ Good(sp) /\ clock \in Nat /\ spoolCrashes \in Nat /\ SnapKept(sp) /\ DrainOK
      /\ drain \in [id : SUBSET SpoolRuns, snap : Seq(RecordKinds), sent : Nat]
  BY SafeParts
<1>1. drain' = [drain EXCEPT !.sent = @ + 1] /\ UNCHANGED <<sp, clock, reopened, spoolCrashes>>
  BY DEF DrainSend
<1>2. /\ drain'.id = drain.id /\ drain'.snap = drain.snap
      /\ drain' \in [id : SUBSET SpoolRuns, snap : Seq(RecordKinds), sent : Nat]
  BY <1>0, <1>1
<1>3. SnapKept(sp)' /\ DrainOK'
  BY <1>0, <1>1, <1>2 DEF SnapKept, DrainOK
<1>4. Good(sp)'
  BY <1>0, <1>1, GoodNext
<1> QED BY <1>1, <1>2, <1>3, <1>4 DEF SpoolSafe, SpoolBounded

\* An operation that ends the drain.
LEMMA IdleStep ==
  ASSUME SpoolSafe, Good(sp'), drain' = NoDrain, clock' = clock, spoolCrashes' \in Nat,
         reopened' \in BOOLEAN, sp'.mem <= MemCap, sp'.disk <= DiskCap \/ reopened'
  PROVE  SpoolSafe'
<1>1. Good(sp)'
  BY GoodNext
<1>2. /\ SnapKept(sp)' /\ DrainOK'
      /\ (drain \in [id : SUBSET SpoolRuns, snap : Seq(RecordKinds), sent : Nat])'
  BY NoDrainNext
<1> QED BY <1>1, <1>2 DEF SpoolSafe, SpoolBounded

\* A failed send ends the drain of the run, which keeps all it held.
LEMMA DrainFailStep ==
  ASSUME SpoolSafe, DrainFail
  PROVE  SpoolSafe'
<1>0. /\ Good(sp) /\ spoolCrashes \in Nat /\ reopened \in BOOLEAN
      /\ sp.mem <= MemCap /\ (sp.disk <= DiskCap \/ reopened)
  BY SafeParts
<1>1. /\ drain' = NoDrain /\ sp' = [sp EXCEPT !.gone = {}]
      /\ UNCHANGED <<clock, reopened, spoolCrashes>>
  BY DEF DrainFail
<1>2. Good(sp') /\ sp'.mem = sp.mem /\ sp'.disk = sp.disk
  BY <1>0, <1>1, UnmarkGood
<1> QED BY <1>0, <1>1, <1>2, IdleStep

\* After the last send the copied prefix is removed, or the whole run.
LEMMA DrainRemoveStep ==
  ASSUME SpoolSafe, DrainRemove
  PROVE  SpoolSafe'
<1>0. /\ Good(sp) /\ clock \in Nat /\ spoolCrashes \in Nat /\ reopened \in BOOLEAN /\ DrainOK
      /\ drain \in [id : SUBSET SpoolRuns, snap : Seq(RecordKinds), sent : Nat]
      /\ drain.id \in SUBSET SpoolRuns /\ MemCap \in Nat /\ DiskCap \in Nat
      /\ sp.mem <= MemCap /\ (sp.disk <= DiskCap \/ reopened)
  BY SafeParts
<1> DEFINE n == Len(drain.snap)
<1>1. /\ drain.id # {} /\ drain' = NoDrain /\ UNCHANGED <<clock, reopened, spoolCrashes>>
      /\ \E r \in drain.id : sp' = [DropPrefix(sp, r, n) EXCEPT !.gone = {}]
  BY DEF DrainRemove
<1>2. n \in Nat \ {0}
  BY <1>0, <1>1 DEF DrainOK
<1>3. PICK r \in drain.id : sp' = [DropPrefix(sp, r, n) EXCEPT !.gone = {}]
  BY <1>1
<1> HIDE DEF n
<1>4. r \in SpoolRuns
  BY <1>0
<1> DEFINE t == DropPrefix(sp, r, n)
<1>5. Good(t) /\ t.mem <= sp.mem /\ t.disk <= sp.disk
  BY <1>0, <1>2, <1>4, PrefixGood
<1>6. sp.mem \in Nat /\ sp.disk \in Nat /\ t.mem \in Nat /\ t.disk \in Nat
  <2> HIDE DEF t
  <2> QED BY <1>0, <1>5 DEF Good, SpoolType
<1> HIDE DEF t
<1>7. Good(sp') /\ sp'.mem = t.mem /\ sp'.disk = t.disk
  BY <1>3, <1>5, UnmarkGood DEF t
<1>8. sp'.mem <= MemCap /\ (sp'.disk <= DiskCap \/ reopened')
  BY <1>0, <1>1, <1>5, <1>6, <1>7
<1> QED BY <1>0, <1>1, <1>7, <1>8, IdleStep

\* Drain ends with nothing complete, or on an unreadable log.
LEMMA DrainStopStep ==
  ASSUME SpoolSafe, DrainStop
  PROVE  SpoolSafe'
<1>0. /\ Good(sp) /\ clock \in Nat /\ spoolCrashes \in Nat /\ SnapKept(sp)
      /\ reopened \in BOOLEAN /\ drain.id \in SUBSET SpoolRuns /\ MemCap \in Nat /\ DiskCap \in Nat
      /\ sp.mem <= MemCap /\ (sp.disk <= DiskCap \/ reopened)
  BY SafeParts
<1>1. sp' = Prune(sp) /\ UNCHANGED <<clock, drain, reopened, spoolCrashes>>
  BY DEF DrainStop
<1>2. Good(sp') /\ SnapKept(sp') /\ sp'.mem <= sp.mem /\ sp'.disk <= sp.disk
  BY <1>0, <1>1, PruneGood
<1>3. sp.mem \in Nat /\ sp.disk \in Nat /\ sp'.mem \in Nat /\ sp'.disk \in Nat
  BY <1>0, <1>2 DEF Good, SpoolType
<1>4. sp'.mem <= MemCap /\ (sp'.disk <= DiskCap \/ reopened')
  BY <1>0, <1>1, <1>2, <1>3
<1> QED BY <1>0, <1>1, <1>2, <1>4, QuietStep

\* Time passes: what is dated stays dated.
LEMMA TickStep ==
  ASSUME SpoolSafe, Tick
  PROVE  SpoolSafe'
<1>0. Good(sp) /\ clock \in Nat
  BY SafeParts
<1>1. clock' = clock + 1 /\ UNCHANGED <<sp, drain, reopened, spoolCrashes>>
  BY DEF Tick
<1>2. /\ (sp \in SpoolType)' /\ InOrder(sp)' /\ Totals(sp)' /\ Replayable(sp)'
  BY <1>0, <1>1 DEF Good
<1>3. Dated(sp)'
  <2> SUFFICES ASSUME NEW r \in SpoolRuns
               PROVE  sp.since[r] <= clock + 1 /\ sp.mtime[r] <= clock + 1
    BY <1>1 DEF Dated
  <2>1. sp.since[r] <= clock /\ sp.mtime[r] <= clock /\ sp.since[r] \in Nat /\ sp.mtime[r] \in Nat
    BY <1>0 DEF Good, Dated, SpoolType
  <2> QED BY <1>0, <2>1
<1>4. Good(sp)'
  BY <1>2, <1>3 DEF Good
<1>5. SnapKept(sp)' /\ DrainOK' /\ SpoolBounded'
  BY <1>1 DEF SpoolSafe, SnapKept, DrainOK, SpoolBounded
<1> QED BY <1>0, <1>1, <1>4, <1>5 DEF SpoolSafe

\* The agent may die with any spool on its way to its directory.
LEMMA CrashStep ==
  ASSUME SpoolSafe, NEW s \in SpoolType, \A r \in SpoolRuns : s.mtime[r] <= clock, Crash(s)
  PROVE  SpoolSafe'
<1>0. clock \in Nat /\ spoolCrashes \in Nat /\ MemCap \in Nat
  BY SafeParts
<1>1. /\ spoolCrashes' = spoolCrashes + 1 /\ Reopen(s) /\ drain' = NoDrain /\ reopened' = TRUE
      /\ clock' = clock
  BY DEF Crash
<1>2. Good(sp') /\ sp'.mem = 0
  BY <1>0, <1>1, ReopenGood
<1>3. spoolCrashes' \in Nat /\ reopened' \in BOOLEAN /\ sp'.mem <= MemCap
  BY <1>0, <1>1, <1>2
<1> QED BY <1>1, <1>2, <1>3, IdleStep

\* The process ends and reopens its spool.
LEMMA RestartStep ==
  ASSUME SpoolSafe, Restart
  PROVE  SpoolSafe'
<1>1. sp \in SpoolType /\ \A r \in SpoolRuns : sp.mtime[r] <= clock
  BY SafeParts DEF Good, Dated
<1> QED BY <1>1, CrashStep DEF Restart

\* The process dies while a record is written to a log.
LEMMA CrashInAppendStep ==
  ASSUME SpoolSafe, NEW r \in SpoolRuns, NEW k \in RecordKinds, CrashInAppend(r, k)
  PROVE  SpoolSafe'
<1>0. /\ Good(sp) /\ clock \in Nat /\ drain.id \in SUBSET SpoolRuns /\ Len(drain.snap) \in Nat
  BY SafeParts
<1> DEFINE old == Prune(sp)
           s == AddRecord(old, r, k)
           torn == [s EXCEPT !.log[r] = IF @ = "whole" THEN "torn" ELSE "bad",
                             !.recs[r] = old.recs[r]]
<1>1. Crash(s) \/ Crash(torn)
  BY DEF CrashInAppend
<1>2. Good(old)
  BY <1>0, PruneGood
<1> HIDE DEF old
<1>3. Good(s)
  BY <1>0, <1>2, AddsGood
<1> HIDE DEF s
<1>4. s \in SpoolType /\ \A q \in SpoolRuns : s.mtime[q] <= clock
  BY <1>3 DEF Good, Dated
<1>5. torn \in SpoolType /\ torn.mtime = s.mtime
  <2>1. old.recs[r] \in Seq(RecordKinds)
    BY <1>2 DEF Good, SpoolType
  <2> QED BY <1>4, <2>1 DEF SpoolType
<1>6. \A q \in SpoolRuns : torn.mtime[q] <= clock
  BY <1>4, <1>5
<1>7. CASE Crash(s)
  BY <1>4, <1>7, CrashStep
<1>8. CASE Crash(torn)
  <2> HIDE DEF torn
  <2> QED BY <1>5, <1>6, <1>8, CrashStep
<1> QED BY <1>1, <1>7, <1>8

\* The process dies while runs are spilled.
LEMMA CrashInSpillStep ==
  ASSUME SpoolSafe, NEW r \in SpoolRuns, NEW k \in RecordKinds, CrashInSpill(r, k)
  PROVE  SpoolSafe'
<1>0. /\ Good(sp) /\ clock \in Nat /\ drain.id \in SUBSET SpoolRuns /\ Len(drain.snap) \in Nat
      /\ MemCap \in Nat
  BY SafeParts
<1> DEFINE s == AddRecord(Prune(sp), r, k)
           old == Head(InTier(s, "ram"))
           cut(n, end) == [s EXCEPT !.tier[old] = "disk", !.recs[old] = SubSeq(@, 1, n),
                                    !.log[old] = end, !.mtime[old] = clock]
<1>1. /\ s.mem > MemCap
      /\ \E n \in 0..Len(s.recs[old]), end \in {"whole", "torn"} : Crash(cut(n, end))
  BY DEF CrashInSpill
<1>2. Good(Prune(sp))
  BY <1>0, PruneGood
<1>3. Good(s)
  BY <1>0, <1>2, AddsGood
<1> HIDE DEF s
<1>4. s \in SpoolType /\ InOrder(s) /\ Totals(s) /\ \A q \in SpoolRuns : s.mtime[q] <= clock
  BY <1>3 DEF Good, Dated
<1>5. old \in SpoolRuns
  <2> DEFINE ram == InTier(s, "ram")
  <2>1. ram \in Seq(SpoolRuns) /\ Oldest(ram, Len(ram)) = Tier(s, "ram")
    BY <1>4, TierRuns
  <2>2. CASE ram # <<>>
    BY <2>1, <2>2
  <2>3. CASE ram = <<>>
    <3>1. Tier(s, "ram") = {}
      BY <2>1, <2>3 DEF Oldest
    <3>2. s.mem = 0
      BY <1>4, <3>1, SumEmpty DEF Totals
    <3> QED BY <1>0, <1>1, <3>2
  <2> QED BY <2>2, <2>3
<1> HIDE DEF old
<1>6. PICK n \in 0..Len(s.recs[old]), end \in {"whole", "torn"} : Crash(cut(n, end))
  BY <1>1
<1>7. cut(n, end) \in SpoolType /\ \A q \in SpoolRuns : cut(n, end).mtime[q] <= clock
  <2>1. s.recs[old] \in Seq(RecordKinds)
    BY <1>4, <1>5 DEF SpoolType
  <2>2. SubSeq(s.recs[old], 1, n) \in Seq(RecordKinds)
    BY <1>6, <2>1
  <2>3. cut(n, end) \in SpoolType
    BY <1>0, <1>4, <2>2 DEF SpoolType
  <2>4. cut(n, end).mtime = [s.mtime EXCEPT ![old] = clock] /\ s.mtime \in [SpoolRuns -> Nat]
    BY <1>4 DEF SpoolType
  <2> QED BY <1>0, <1>4, <2>3, <2>4
<1> HIDE DEF cut
<1> QED BY <1>6, <1>7, CrashStep

\* Every step keeps the spool in order.
LEMMA SpoolStep ==
  ASSUME SpoolSafe, [SpoolNext]_spoolVars
  PROVE  SpoolSafe'
<1>1. ASSUME NEW r \in SpoolRuns, NEW k \in RecordKinds, AppendRecord(r, k)
      PROVE  SpoolSafe'
  BY <1>1, AppendStep
<1>2. ASSUME NEW r \in SpoolRuns, NEW k \in RecordKinds, CrashInAppend(r, k)
      PROVE  SpoolSafe'
  BY <1>2, CrashInAppendStep
<1>3. ASSUME NEW r \in SpoolRuns, NEW k \in RecordKinds, CrashInSpill(r, k)
      PROVE  SpoolSafe'
  BY <1>3, CrashInSpillStep
<1>4. CASE DrainTake
  BY <1>4, DrainTakeStep
<1>5. CASE DrainSend
  BY <1>5, DrainSendStep
<1>6. CASE DrainFail
  BY <1>6, DrainFailStep
<1>7. CASE DrainRemove
  BY <1>7, DrainRemoveStep
<1>8. CASE DrainStop
  BY <1>8, DrainStopStep
<1>9. CASE Tick
  BY <1>9, TickStep
<1>10. CASE Restart
  BY <1>10, RestartStep
<1>11. CASE UNCHANGED spoolVars
  BY <1>11 DEF spoolVars, SpoolSafe, Good, InOrder, Totals, Dated, Replayable, SpoolBounded,
       SnapKept, DrainOK
<1> QED BY <1>1, <1>2, <1>3, <1>4, <1>5, <1>6, <1>7, <1>8, <1>9, <1>10, <1>11 DEF SpoolNext

\* A spool in order is what SpoolInv says: each held run once in the order.
LEMMA SafeGivesInv ==
  ASSUME SpoolSafe
  PROVE  SpoolInv
<1>1. sp \in SpoolType /\ InOrder(sp) /\ Totals(sp) /\ Replayable(sp)
  BY DEF SpoolSafe, Good
<1> DEFINE Held == SpoolRuns \ Tier(sp, "none")
           N == Len(sp.order)
<1>2. sp.order \in Seq(SpoolRuns) /\ N \in Nat /\ DOMAIN sp.order = 1..N
  <2>1. sp.order \in Seq(SpoolRuns)
    BY <1>1 DEF SpoolType
  <2> QED BY <2>1
<1>3. {sp.order[i] : i \in DOMAIN sp.order} = Held
  BY <1>1 DEF InOrder
<1>4. N = Cardinality(Held)
  <2> HIDE DEF Held, N
  <2>1. \A i, j \in 1..N : sp.order[i] = sp.order[j] => i = j
    BY <1>1, <1>2 DEF InOrder
  <2>2. sp.order \in [1..N -> Held]
    BY <1>2, <1>3
  <2>3. sp.order \in Injection(1..N, Held)
    BY <2>1, <2>2 DEF Injection, IsInjective
  <2>4. sp.order \in Surjection(1..N, Held)
    BY <1>2, <1>3, <2>2 DEF Surjection
  <2>5. ExistsBijection(1..N, Held)
    BY <2>3, <2>4 DEF ExistsBijection, Bijection
  <2>6. IsFiniteSet(1..N) /\ Cardinality(1..N) = N
    BY <1>2, FS_Interval
  <2> QED BY <2>5, <2>6, FS_Bijection
<1>5. SpoolAccounting
  BY <1>1, <1>3, <1>4 DEF SpoolAccounting, Totals
<1>6. OldestFirst /\ ReplayIsComplete
  BY <1>1 DEF InOrder, OldestFirst, Replayable, HasResult, ReplayIsComplete
<1> QED BY <1>1, <1>5, <1>6 DEF SpoolSafe, SpoolInv, SpoolTypeOK

\* The spool keeps what SpoolInv states, through appends, spills, drops, drains,
\* crashes within a write and reopening, for all runs, caps and times.
THEOREM SpoolHolds == SpoolSpec => []SpoolInv
<1>1. SpoolInit => SpoolSafe
  BY SpoolStarts
<1>2. SpoolSafe /\ [SpoolNext]_spoolVars => SpoolSafe'
  BY SpoolStep
<1>3. SpoolSafe => SpoolInv
  BY SafeGivesInv
<1> QED BY <1>1, <1>2, <1>3, PTL DEF SpoolSpec

\* Records with the first of them in front and the rest behind.
LEMMA FrontAndRest ==
  ASSUME NEW q \in Seq(RecordKinds), NEW p \in Seq(RecordKinds), Len(p) # 0, Len(p) <= Len(q),
         \A i \in 1..Len(p) : q[i] = p[i]
  PROVE  q = p \o SubSeq(q, Len(p) + 1, Len(q))
<1> DEFINE rest == SubSeq(q, Len(p) + 1, Len(q))
<1>1. Len(p) \in Nat \ {0} /\ Len(q) \in Nat
  OBVIOUS
<1>2. /\ rest \in Seq(RecordKinds) /\ Len(rest) = Len(q) - Len(p)
      /\ \A i \in 1..Len(rest) : rest[i] = q[Len(p) + i]
  BY <1>1, RestIs
<1> HIDE DEF rest
<1>3. p \o rest \in Seq(RecordKinds) /\ Len(p \o rest) = Len(q)
  BY <1>1, <1>2
<1>4. ASSUME NEW i \in 1..Len(q)
      PROVE  q[i] = (p \o rest)[i]
  <2>1. CASE i <= Len(p)
    BY <1>1, <1>2, <2>1
  <2>2. CASE i > Len(p)
    <3>1. i - Len(p) \in 1..Len(rest) /\ Len(p) + (i - Len(p)) = i
      BY <1>1, <1>2, <2>2
    <3>2. (p \o rest)[i] = rest[i - Len(p)]
      BY <1>1, <1>2, <1>3, <2>2
    <3> QED BY <1>2, <3>1, <3>2
  <2>3. i <= Len(p) \/ i > Len(p)
    BY <1>1
  <2> QED BY <2>1, <2>2, <2>3
<1>5. q = p \o rest
  BY <1>3, <1>4, SeqEqual
<1> QED BY <1>5 DEF rest

\* A drain that ends with everything sent removes just that: records appended
\* while it was sent are kept.
LEMMA RemoveStep ==
  ASSUME SpoolSafe, DrainRemove, NEW r \in drain.id, sp.gone = {}, sp.log[r] = "whole"
  PROVE  sp.recs[r] = drain.snap \o sp'.recs[r]
<1>0. /\ Good(sp) /\ clock \in Nat /\ SnapKept(sp) /\ DrainOK
      /\ drain \in [id : SUBSET SpoolRuns, snap : Seq(RecordKinds), sent : Nat]
      /\ drain.id \in SUBSET SpoolRuns
  BY SafeParts
<1> DEFINE n == Len(drain.snap)
           t == DropPrefix(sp, r, n)
<1>1. PICK q \in drain.id : sp' = [DropPrefix(sp, q, n) EXCEPT !.gone = {}]
  BY DEF DrainRemove
<1>2. q = r
  BY <1>0 DEF DrainOK
<1>3. r \in SpoolRuns /\ sp.recs[r] \in Seq(RecordKinds)
  BY <1>0 DEF Good, SpoolType
<1>4. drain.snap \in Seq(RecordKinds) /\ n \in Nat \ {0}
  BY <1>0 DEF DrainOK
<1>5. /\ sp.tier[r] # "none" /\ n <= Len(sp.recs[r])
      /\ \A i \in 1..n : sp.recs[r][i] = drain.snap[i]
  BY <1>0 DEF SnapKept
<1> HIDE DEF n
<1>6. Good(t) /\ t.recs[r] = SubSeq(sp.recs[r], n + 1, Len(sp.recs[r]))
  BY <1>0, <1>3, <1>4, <1>5, PrefixGood
<1> HIDE DEF t
<1>7. sp'.recs = t.recs
  BY <1>1, <1>2, <1>6, UnmarkGood DEF t
<1>8. sp.recs[r] = drain.snap \o SubSeq(sp.recs[r], n + 1, Len(sp.recs[r]))
  <2>1. /\ Len(drain.snap) # 0 /\ Len(drain.snap) <= Len(sp.recs[r])
        /\ \A i \in 1..Len(drain.snap) : sp.recs[r][i] = drain.snap[i]
    BY <1>4, <1>5 DEF n
  <2>2. sp.recs[r] = drain.snap \o SubSeq(sp.recs[r], Len(drain.snap) + 1, Len(sp.recs[r]))
    BY <1>3, <1>4, <2>1, FrontAndRest
  <2> QED BY <2>2 DEF n
<1> QED BY <1>6, <1>7, <1>8

\* Exactly the records that were sent leave the spool, whatever was appended,
\* spilled or dropped of other runs while they were sent.
THEOREM DrainRemovesWhatItSent == SpoolSpec => DrainRemovesSent
<1>1. SpoolInit => SpoolSafe
  BY SpoolStarts
<1>2. SpoolSafe /\ [SpoolNext]_spoolVars => SpoolSafe'
  BY SpoolStep
<1> DEFINE Exact ==
             \A r \in drain.id :
               drain'.id = {} /\ drain.sent = Len(drain.snap) /\ sp.gone = {}
                 /\ sp.log[r] = "whole" /\ spoolCrashes' = spoolCrashes
               => sp.recs[r] = drain.snap \o sp'.recs[r]
<1>3. ASSUME SpoolSafe, [SpoolNext]_spoolVars
      PROVE  [Exact]_spoolVars
  <2> SUFFICES ASSUME SpoolNext, NEW r \in drain.id, drain'.id = {},
                      drain.sent = Len(drain.snap), sp.gone = {}, sp.log[r] = "whole",
                      spoolCrashes' = spoolCrashes
               PROVE  sp.recs[r] = drain.snap \o sp'.recs[r]
    BY <1>3
  <2>1. spoolCrashes \in Nat /\ drain.id # {} /\ Len(drain.snap) \in Nat
        /\ drain \in [id : SUBSET SpoolRuns, snap : Seq(RecordKinds), sent : Nat]
    BY <1>3, SafeParts
  <2>2. \/ DrainRemove
        \/ DrainTake \/ DrainFail
        \/ drain' = drain \/ drain' = [drain EXCEPT !.sent = @ + 1]
        \/ spoolCrashes' = spoolCrashes + 1
    <3>1. ASSUME NEW q \in SpoolRuns, NEW k \in RecordKinds, AppendRecord(q, k)
          PROVE  drain' = drain
      BY <3>1 DEF AppendRecord
    <3>2. ASSUME NEW q \in SpoolRuns, NEW k \in RecordKinds, CrashInAppend(q, k)
          PROVE  spoolCrashes' = spoolCrashes + 1
      BY <3>2 DEF CrashInAppend, Crash
    <3>3. ASSUME NEW q \in SpoolRuns, NEW k \in RecordKinds, CrashInSpill(q, k)
          PROVE  spoolCrashes' = spoolCrashes + 1
      BY <3>3 DEF CrashInSpill, Crash
    <3>4. /\ DrainStop \/ Tick => drain' = drain
          /\ DrainSend => drain' = [drain EXCEPT !.sent = @ + 1]
          /\ Restart => spoolCrashes' = spoolCrashes + 1
      BY DEF DrainStop, Tick, DrainSend, Restart, Crash
    <3> QED BY <3>1, <3>2, <3>3, <3>4 DEF SpoolNext
  <2>3. ~DrainTake /\ ~DrainFail
    BY <2>1 DEF DrainTake, DrainFail
  <2>4. drain' # drain /\ drain' # [drain EXCEPT !.sent = @ + 1]
    BY <2>1
  <2>5. spoolCrashes' # spoolCrashes + 1
    BY <2>1
  <2>6. DrainRemove
    BY <2>2, <2>3, <2>4, <2>5
  <2> QED BY <1>3, <2>6, RemoveStep
<1>4. SpoolSpec => [][Exact]_spoolVars
  BY <1>1, <1>2, <1>3, PTL DEF SpoolSpec
<1> QED BY <1>4 DEF DrainRemovesSent
=============================================================================
