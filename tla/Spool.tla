------------------------------- MODULE Spool -------------------------------
(***************************************************************************)
(* The agent's bounded spool (internal/spool/spool.go): one entry per run, *)
(* in a RAM tier that spills whole runs to log files and a disk tier that  *)
(* drops whole runs, a TTL, and a drain that replays complete runs and     *)
(* removes what it sent.  Every method but Drain's sends runs under the    *)
(* spool's mutex and is one step; the agent may crash at any point, within *)
(* a write too, and reopens the directory.  A record counts one byte.      *)
(***************************************************************************)
EXTENDS Integers, Sequences, FiniteSets

CONSTANTS SpoolRuns,      \* runs that may be spooled
          MemCap,         \* Config.MemCap
          DiskCap,        \* Config.DiskCap
          SpoolTTL,       \* Config.TTL
          MaxClock,       \* bound on the clock
          MaxRecs,        \* bound on the records of a run
          MaxSpoolCrashes \* bound on crashes

ASSUME SpoolAssumption ==
  /\ IsFiniteSet(SpoolRuns)
  /\ MemCap \in Nat \ {0} /\ DiskCap \in Nat \ {0} /\ SpoolTTL \in Nat
  /\ MaxClock \in Nat /\ MaxRecs \in Nat /\ MaxSpoolCrashes \in Nat

RecordKinds == {"output", "result"}

VARIABLES
  sp,          \* the Spool and its directory, a record of SpoolType
  clock,
  drain,       \* Drain's locals: [id, snap, sent]
  reopened,    \* no Append since Open
  spoolCrashes

spoolVars == <<sp, clock, drain, reopened, spoolCrashes>>

NoDrain == [id |-> {}, snap |-> <<>>, sent |-> 0]

\* order, and per run: tier, recs (the records that can be read back), bytes
\* (memBytes or diskBytes), since, mtime of the log, hasResult, and log:
\* "whole", "torn" (it ends in a partial record) or "bad" (records were
\* written after a partial one).  gone: the run being drained was dropped.
EmptySpool ==
  [order |-> <<>>, tier |-> [r \in SpoolRuns |-> "none"],
   recs |-> [r \in SpoolRuns |-> <<>>], bytes |-> [r \in SpoolRuns |-> 0],
   since |-> [r \in SpoolRuns |-> 0], mtime |-> [r \in SpoolRuns |-> 0],
   hasResult |-> [r \in SpoolRuns |-> FALSE],
   log |-> [r \in SpoolRuns |-> "whole"], mem |-> 0, disk |-> 0, gone |-> {}]

SpoolInit ==
  /\ sp = EmptySpool
  /\ clock = 0
  /\ drain = NoDrain
  /\ reopened = TRUE
  /\ spoolCrashes = 0

-----------------------------------------------------------------------------
(* Operators on the spool; s is a value of sp, R a set of runs. *)

Tier(s, t) == {r \in SpoolRuns : s.tier[r] = t}

\* The bytes of the runs R, one by one: byte n of run r is the pair <<r, n>>.
SumBytes(s, R) == Cardinality(UNION {{r} \X (1..s.bytes[r]) : r \in R})

\* The elements of a sequence at the positions I, in order.
At(q, I) ==
  [n \in 1..Cardinality(I) |->
     q[CHOOSE i \in I : Cardinality({j \in I : j <= i}) = n]]

InTier(s, t) == At(s.order, {i \in DOMAIN s.order : s.tier[s.order[i]] = t})

\* dropLocked: the entry, its place in the order, its bytes and its log go.
DropRuns(s, R) ==
  [s EXCEPT !.order = At(@, {i \in DOMAIN @ : @[i] \notin R}),
            !.tier  = [r \in SpoolRuns |-> IF r \in R THEN "none" ELSE @[r]],
            !.recs  = [r \in SpoolRuns |-> IF r \in R THEN <<>> ELSE @[r]],
            !.bytes = [r \in SpoolRuns |-> IF r \in R THEN 0 ELSE @[r]],
            !.since = [r \in SpoolRuns |-> IF r \in R THEN 0 ELSE @[r]],
            !.mtime = [r \in SpoolRuns |-> IF r \in R THEN 0 ELSE @[r]],
            !.hasResult = [r \in SpoolRuns |-> @[r] /\ r \notin R],
            !.log   = [r \in SpoolRuns |-> IF r \in R THEN "whole" ELSE @[r]],
            !.gone  = @ \cup (R \cap drain.id),
            !.mem   = @ - SumBytes(s, R \cap Tier(s, "ram")),
            !.disk  = @ - SumBytes(s, R \cap Tier(s, "disk"))]

\* spillLocked: whole runs move from RAM to their logs.
SpillRuns(s, R) ==
  [s EXCEPT !.tier  = [r \in SpoolRuns |-> IF r \in R THEN "disk" ELSE @[r]],
            !.mtime = [r \in SpoolRuns |-> IF r \in R THEN clock ELSE @[r]],
            !.mem   = @ - SumBytes(s, R),
            !.disk  = @ + SumBytes(s, R)]

Oldest(q, n) == {q[i] : i \in 1..n}

\* The fewest elements at the front of q, of the numbers that are enough, or all.
Fewest(q, enough) ==
  IF enough = {} THEN Oldest(q, Len(q))
  ELSE Oldest(q, CHOOSE n \in enough : \A i \in enough : n <= i)

\* pruneLocked: expired runs at the front of the order.
Prune(s) ==
  LET Fresh(r) == clock - s.since[r] <= SpoolTTL
      n == CHOOSE n \in 0..Len(s.order) :
             /\ \A i \in 1..n : ~Fresh(s.order[i])
             /\ n < Len(s.order) => Fresh(s.order[n + 1])
  IN  DropRuns(s, Oldest(s.order, n))

\* The two loops at the end of Append: spill the oldest RAM runs until RAM is
\* under its cap, then drop the oldest runs until the disk is.
SpillToCap(s) ==
  LET ram == InTier(s, "ram")
  IN  SpillRuns(s, Fewest(ram, {n \in 0..Len(ram) :
                                  s.mem - SumBytes(s, Oldest(ram, n)) <= MemCap}))

DropToCap(s) ==
  LET onDisk(n) == Oldest(s.order, n) \cap Tier(s, "disk")
  IN  DropRuns(s, Fewest(s.order, {n \in 0..Len(s.order) :
                                     s.disk - SumBytes(s, onDisk(n)) <= DiskCap}))

\* Append proper: a new run starts in RAM; a record of a torn log is written
\* after the partial one and cannot be read back.
AddRecord(s, r, k) ==
  LET new  == s.tier[r] = "none"
      ram  == new \/ s.tier[r] = "ram"
  IN  [s EXCEPT !.order = IF new THEN Append(@, r) ELSE @,
                !.tier[r]  = IF new THEN "ram" ELSE @,
                !.since[r] = IF new THEN clock ELSE @,
                !.recs[r]  = IF s.log[r] = "whole" THEN Append(@, k) ELSE @,
                !.log[r]   = IF @ = "whole" THEN @ ELSE "bad",
                !.bytes[r] = @ + 1,
                !.mtime[r] = IF ram THEN @ ELSE clock,
                !.mem      = IF ram THEN @ + 1 ELSE @,
                !.disk     = IF ram THEN @ ELSE @ + 1,
                !.hasResult[r] = @ \/ k = "result"]

\* hasResultRecord: is the last record a result?
EndsWithResult(q) == q # <<>> /\ q[Len(q)] = "result"

\* Bugs: dropRun instead of dropPrefixLocked; hasResult not recomputed.
DropPrefix_WholeRun(s, r, n) == DropRuns(s, {r})
DropPrefix_KeepsFlag(s, r, n) ==
  LET rest == SubSeq(s.recs[r], n + 1, Len(s.recs[r]))
      k    == Len(s.recs[r]) - Len(rest)
  IN  IF s.tier[r] = "none" THEN s
      ELSE IF rest = <<>> THEN DropRuns(s, {r})
      ELSE [s EXCEPT !.recs[r] = rest, !.bytes[r] = @ - k,
                     !.mem  = IF s.tier[r] = "ram" THEN @ - k ELSE @,
                     !.disk = IF s.tier[r] = "disk" THEN @ - k ELSE @]

\* dropPrefixLocked: the first n records go (a log is rewritten without them
\* and is whole again); a run with nothing left is dropped.
DropPrefix(s, r, n) ==
  LET rest == SubSeq(s.recs[r], n + 1, Len(s.recs[r]))
      k    == Len(s.recs[r]) - Len(rest)
  IN  IF s.tier[r] = "none" THEN s
      ELSE IF rest = <<>> THEN DropRuns(s, {r})
      ELSE [s EXCEPT !.recs[r] = rest, !.bytes[r] = @ - k,
                     !.mem  = IF s.tier[r] = "ram" THEN @ - k ELSE @,
                     !.disk = IF s.tier[r] = "disk" THEN @ - k ELSE @,
                     !.mtime[r] = IF s.tier[r] = "disk" THEN clock ELSE @,
                     !.log[r] = "whole",
                     !.hasResult[r] = @ /\ (n > 0 => EndsWithResult(rest))]

-----------------------------------------------------------------------------
AppendRecord(r, k) ==
  /\ sp.bytes[r] < MaxRecs
  /\ sp' = DropToCap(SpillToCap(AddRecord(Prune(sp), r, k)))
  /\ reopened' = FALSE
  /\ UNCHANGED <<clock, drain, spoolCrashes>>

\* The complete runs, oldest first.
Complete(s) == At(s.order, {i \in DOMAIN s.order : s.hasResult[s.order[i]]})

\* Drain copies the oldest complete run.  A bad log is read up to its partial
\* record or, as its bytes fall, not at all, which ends the drain (DrainStop).
DrainTake ==
  /\ drain.id = {}
  /\ LET s == Prune(sp) IN
       /\ Complete(s) # <<>>
       /\ LET r == Head(Complete(s)) IN
            IF s.recs[r] = <<>>
            THEN sp' = DropRuns(s, {r}) /\ UNCHANGED drain
            ELSE /\ sp' = [s EXCEPT !.gone = {}]
                 /\ drain' = [id |-> {r}, snap |-> s.recs[r], sent |-> 0]
  /\ UNCHANGED <<clock, reopened, spoolCrashes>>

DrainSend ==
  /\ drain.sent < Len(drain.snap)
  /\ drain' = [drain EXCEPT !.sent = @ + 1]
  /\ UNCHANGED <<sp, clock, reopened, spoolCrashes>>

\* A send fails, or the context ends: everything is kept.
DrainFail ==
  /\ drain.sent < Len(drain.snap)
  /\ drain' = NoDrain
  /\ sp' = [sp EXCEPT !.gone = {}]
  /\ UNCHANGED <<clock, reopened, spoolCrashes>>

\* Everything copied was sent.  A log that is bad by now is unreadable, or ends
\* where the copy did: either way the run is dropped.
DrainRemove ==
  /\ drain.id # {} /\ drain.sent = Len(drain.snap)
  /\ \E r \in drain.id : sp' = [DropPrefix(sp, r, Len(drain.snap)) EXCEPT !.gone = {}]
  /\ drain' = NoDrain
  /\ UNCHANGED <<clock, reopened, spoolCrashes>>

\* Nothing is complete, or the log of the oldest complete run is unreadable: a
\* torn one is too when it ends right behind the length of a record.
DrainStop ==
  /\ drain.id = {}
  /\ LET s == Prune(sp) IN
       /\ Complete(s) # <<>> => s.log[Head(Complete(s))] # "whole"
       /\ sp' = s
  /\ UNCHANGED <<clock, drain, reopened, spoolCrashes>>

Tick ==
  /\ clock < MaxClock
  /\ clock' = clock + 1
  /\ UNCHANGED <<sp, drain, reopened, spoolCrashes>>

-----------------------------------------------------------------------------

\* The orders of the runs in D by the modification times of their logs.
AdoptionOrders(s, D) ==
  {q \in [1..Cardinality(D) -> D] :
     \A i, j \in DOMAIN q : i < j => q[i] # q[j] /\ s.mtime[q[i]] <= s.mtime[q[j]]}

\* Open, on the directory a spool s leaves behind: the logs become disk-tier
\* runs as old as their last write, complete when their last whole record is a
\* result; a log that cannot be parsed is removed.
Reopen(s) ==
  \E X \in SUBSET {r \in Tier(s, "disk") : s.log[r] = "bad"} :
    LET D == Tier(s, "disk") \ X
        Kept(f, zero) == [r \in SpoolRuns |-> IF r \in D THEN f[r] ELSE zero]
        size == [r \in SpoolRuns |-> Len(s.recs[r])]
        left == [EmptySpool EXCEPT
                   !.tier = Kept([r \in SpoolRuns |-> "disk"], "none"),
                   !.recs = Kept(s.recs, <<>>), !.bytes = Kept(size, 0),
                   !.since = Kept(s.mtime, 0), !.mtime = Kept(s.mtime, 0),
                   !.log = Kept(s.log, "whole"),
                   !.hasResult = [r \in SpoolRuns |-> r \in D /\ EndsWithResult(s.recs[r])]]
    IN  \E q \in AdoptionOrders(s, D) :
          sp' = [left EXCEPT !.order = q, !.disk = SumBytes(left, D)]

Crash(s) ==
  /\ spoolCrashes < MaxSpoolCrashes
  /\ spoolCrashes' = spoolCrashes + 1
  /\ Reopen(s)
  /\ drain' = NoDrain
  /\ reopened' = TRUE
  /\ UNCHANGED clock

\* The agent stops or dies between two operations.
Restart == Crash(sp)

\* It dies in Append once a record is written to the log of r, whole or in part.
CrashInAppend(r, k) ==
  /\ sp.bytes[r] < MaxRecs /\ spoolCrashes < MaxSpoolCrashes
  /\ LET old == Prune(sp)
         s   == AddRecord(old, r, k)
     IN  /\ s.tier[r] = "disk"
         /\ \/ Crash(s)
            \/ Crash([s EXCEPT !.log[r] = IF @ = "whole" THEN "torn" ELSE "bad",
                               !.recs[r] = old.recs[r]])

\* It dies in Append while the oldest RAM run is spilled: n records are in its
\* log, and part of the next one or nothing more.
CrashInSpill(r, k) ==
  /\ sp.bytes[r] < MaxRecs /\ spoolCrashes < MaxSpoolCrashes
  /\ LET s   == AddRecord(Prune(sp), r, k)
         old == Head(InTier(s, "ram"))
     IN  /\ s.mem > MemCap
         /\ \E n \in 0..Len(s.recs[old]), end \in {"whole", "torn"} :
              /\ n = Len(s.recs[old]) => end = "whole"
              /\ Crash([s EXCEPT !.tier[old] = "disk", !.recs[old] = SubSeq(@, 1, n),
                                 !.log[old] = end, !.mtime[old] = clock])

SpoolNext ==
  \/ \E r \in SpoolRuns, k \in RecordKinds : AppendRecord(r, k)
  \/ DrainTake \/ DrainSend \/ DrainFail \/ DrainRemove \/ DrainStop
  \/ Tick \/ Restart
  \/ \E r \in SpoolRuns, k \in RecordKinds : CrashInAppend(r, k) \/ CrashInSpill(r, k)

SpoolSpec == SpoolInit /\ [][SpoolNext]_spoolVars

-----------------------------------------------------------------------------
SpoolType ==
  [order : Seq(SpoolRuns), tier : [SpoolRuns -> {"none", "ram", "disk"}],
   recs : [SpoolRuns -> Seq(RecordKinds)], bytes : [SpoolRuns -> Nat],
   since : [SpoolRuns -> Nat], mtime : [SpoolRuns -> Nat],
   hasResult : [SpoolRuns -> BOOLEAN],
   log : [SpoolRuns -> {"whole", "torn", "bad"}],
   mem : Nat, disk : Nat, gone : SUBSET SpoolRuns]

SpoolTypeOK ==
  /\ sp \in SpoolType
  /\ clock \in Nat /\ spoolCrashes \in Nat /\ reopened \in BOOLEAN
  /\ drain \in [id : SUBSET SpoolRuns, snap : Seq(RecordKinds), sent : Nat]

\* The two totals Usage reports are the bytes the runs hold, through spills,
\* drops, partial drains and reopening; no run is held outside the order or
\* twice in it.
SpoolAccounting ==
  /\ sp.mem = SumBytes(sp, Tier(sp, "ram")) /\ sp.disk = SumBytes(sp, Tier(sp, "disk"))
  /\ Len(sp.order) = Cardinality(SpoolRuns \ Tier(sp, "none"))
  /\ {sp.order[i] : i \in DOMAIN sp.order} = SpoolRuns \ Tier(sp, "none")
  /\ \A r \in SpoolRuns : Len(sp.recs[r]) <= sp.bytes[r]

\* Both caps hold between operations; only a crash between a spill and the
\* drop that follows it leaves more on disk, until the next Append.
SpoolBounded ==
  sp.mem <= MemCap /\ (sp.disk <= DiskCap \/ reopened)

\* The order is by age, so that pruneLocked, which stops at the first fresh
\* run, leaves no expired run behind it: neither spills, partial drains nor
\* the adoption of logs by modification time break it.
OldestFirst ==
  \A i, j \in DOMAIN sp.order : i < j => sp.since[sp.order[i]] <= sp.since[sp.order[j]]

\* A run is replayed with its result: what Drain copies holds a result unless
\* the log was damaged.
ReplayIsComplete ==
  \A r \in SpoolRuns :
    sp.hasResult[r] /\ sp.log[r] = "whole" => \E i \in DOMAIN sp.recs[r] : sp.recs[r][i] = "result"

\* What the spool keeps through appends, spills, drops, drains, crashes and
\* reopening: the five parts above.
SpoolInv == SpoolTypeOK /\ SpoolAccounting /\ SpoolBounded /\ OldestFirst /\ ReplayIsComplete

\* "Exactly the records that were sent are removed": records appended while
\* the send was in flight stay, unless the run was dropped meanwhile by a cap
\* or the TTL, or its log was damaged by a crash.
DrainRemovesSent ==
  [][\A r \in drain.id :
       drain'.id = {} /\ drain.sent = Len(drain.snap) /\ sp.gone = {} /\ sp.log[r] = "whole"
         /\ spoolCrashes' = spoolCrashes
       => sp.recs[r] = drain.snap \o sp'.recs[r]]_spoolVars
=============================================================================
