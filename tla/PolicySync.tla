----------------------------- MODULE PolicySync -----------------------------
(***************************************************************************)
(* How the rules reach an agent: administrators edit the policies table    *)
(* and its version counter (internal/store/policy.go), each edit and each  *)
(* connect builds a bundle and sends it on the agent's stream, and the     *)
(* guardrail replaces its copy and writes it to disk, file by file.  The   *)
(* agents do not interact, so one stands for all; a rule is its id.        *)
(***************************************************************************)
EXTENDS Naturals, Sequences, FiniteSets

CONSTANTS PolicyIds,   \* rules that may be created
          PolicyAdmins,\* goroutines of handleCreatePolicy, handleDeletePolicy
          MaxEdits,    \* bound on edits
          MaxStreams,  \* bound on the streams the agent opens
          MaxGuardCrashes \* bound on crashes of the agent

ASSUME SyncAssumption ==
  /\ IsFiniteSet(PolicyIds) /\ IsFiniteSet(PolicyAdmins)
  /\ MaxEdits \in Nat /\ MaxStreams \in Nat /\ MaxGuardCrashes \in Nat

VARIABLES
  table,    \* [rows, version]: table policies and meta policy_bundle_version
  pushers,  \* the goroutines that build a bundle: the admins and the connect
  stream,   \* [up, chan]: the agent's session and its bundles in flight
  guard,    \* the Guard: loaded, rules, version
  disk,     \* policy.json and policy.meta; todo: the files still to write
  stored,   \* history: the rule sets the table has held
  counts    \* [edits, streams, crashes]

syncVars == <<table, pushers, stream, guard, disk, stored, counts>>

\* The connect handler of a stream builds a bundle as an admin does.
Connecting == "connect"
Pushers == PolicyAdmins \cup {Connecting}
AtRest  == [pc |-> "idle", seen |-> 0, rows |-> {}, version |-> 0, to |-> 0]
NoFile  == [rules |-> {}, version |-> 0, exists |-> FALSE, todo |-> <<>>]
NoGuard == [loaded |-> FALSE, rules |-> {}, version |-> 0]

SyncInit ==
  /\ table = [rows |-> {}, version |-> 0]
  /\ pushers = [p \in Pushers |-> AtRest]
  /\ stream = [up |-> FALSE, chan |-> <<>>]
  /\ guard = NoGuard
  /\ disk = NoFile
  /\ stored = {{}}
  /\ counts = [edits |-> 0, streams |-> 0, crashes |-> 0]

Step(p, from, to) == pushers[p].pc = from /\ pushers' = [pushers EXCEPT ![p].pc = to]

-----------------------------------------------------------------------------
(* An edit: the row, then the counter by a read and a write, then the push. *)

EditRow(p) ==
  /\ p # Connecting /\ counts.edits < MaxEdits
  /\ Step(p, "idle", "read")
  /\ \E r \in PolicyIds :
       table' = [table EXCEPT !.rows = IF r \in @ THEN @ \ {r} ELSE @ \cup {r}]
  /\ stored' = stored \cup {table'.rows}
  /\ counts' = [counts EXCEPT !.edits = @ + 1]
  /\ UNCHANGED <<stream, guard, disk>>

BumpRead(p) ==
  /\ pushers[p].pc = "read"
  /\ pushers' = [pushers EXCEPT ![p].pc = "bump", ![p].seen = table.version]
  /\ UNCHANGED <<table, stream, guard, disk, stored, counts>>

BumpWrite(p) ==
  /\ Step(p, "bump", "sessions")
  /\ table' = [table EXCEPT !.version = pushers[p].seen + 1]
  /\ UNCHANGED <<stream, guard, disk, stored, counts>>

\* BroadcastPolicyBundle copies the sessions under the handler's lock.
ListSessions(p) ==
  /\ pushers[p].pc = "sessions"
  /\ pushers' = [pushers EXCEPT ![p] =
       IF stream.up THEN [@ EXCEPT !.pc = "rules", !.to = counts.streams] ELSE AtRest]
  /\ UNCHANGED <<table, stream, guard, disk, stored, counts>>

\* BuildPolicyBundle reads the rules, then the version, the number of rules
\* when the counter was never written.
BuildRules(p) ==
  /\ pushers[p].pc = "rules"
  /\ pushers' = [pushers EXCEPT ![p].pc = "version", ![p].rows = table.rows]
  /\ UNCHANGED <<table, stream, guard, disk, stored, counts>>

BuildVersion(p) ==
  /\ pushers[p].pc = "version"
  /\ pushers' = [pushers EXCEPT ![p].pc = "send",
       ![p].version = IF table.version > 0 THEN table.version ELSE Cardinality(pushers[p].rows)]
  /\ UNCHANGED <<table, stream, guard, disk, stored, counts>>

\* A bundle for a session that is gone is lost.
SendBundle(p) ==
  /\ pushers[p].pc = "send"
  /\ pushers' = [pushers EXCEPT ![p] = AtRest]
  /\ stream' = IF stream.up /\ pushers[p].to = counts.streams
               THEN [stream EXCEPT !.chan =
                       Append(@, [rules |-> pushers[p].rows, version |-> pushers[p].version])]
               ELSE stream
  /\ UNCHANGED <<table, guard, disk, stored, counts>>

-----------------------------------------------------------------------------
(* The stream and the agent. *)

\* The session is registered before the connect handler pushes a bundle.
OpenStream ==
  /\ ~stream.up /\ counts.streams < MaxStreams /\ pushers[Connecting].pc = "idle"
  /\ stream' = [up |-> TRUE, chan |-> <<>>]
  /\ counts' = [counts EXCEPT !.streams = @ + 1]
  /\ pushers' = [pushers EXCEPT ![Connecting] =
                   [AtRest EXCEPT !.pc = "rules", !.to = counts.streams + 1]]
  /\ UNCHANGED <<table, guard, disk, stored>>

DropStream ==
  /\ stream.up
  /\ stream' = [up |-> FALSE, chan |-> <<>>]
  /\ UNCHANGED <<table, pushers, guard, disk, stored, counts>>

\* Bug: the rules of the bundle are added to the cached ones.
OnBundle_Merges ==
  /\ stream.chan # <<>> /\ disk.todo = <<>>
  /\ LET b == Head(stream.chan) IN
       /\ guard' = [loaded |-> TRUE, rules |-> guard.rules \cup b.rules, version |-> b.version]
       /\ disk' = [disk EXCEPT !.todo = <<"policy.json", "policy.meta">>]
  /\ stream' = [stream EXCEPT !.chan = Tail(@)]
  /\ UNCHANGED <<table, pushers, stored, counts>>

\* OnBundle: the copy in memory is replaced; the two files follow.
OnBundle ==
  /\ stream.chan # <<>> /\ disk.todo = <<>>
  /\ LET b == Head(stream.chan) IN
       /\ guard' = [loaded |-> TRUE, rules |-> b.rules, version |-> b.version]
       /\ disk' = [disk EXCEPT !.todo = <<"policy.json", "policy.meta">>]
  /\ stream' = [stream EXCEPT !.chan = Tail(@)]
  /\ UNCHANGED <<table, pushers, stored, counts>>

PersistFile ==
  /\ disk.todo # <<>>
  /\ disk' = IF Head(disk.todo) = "policy.json"
             THEN [disk EXCEPT !.rules = guard.rules, !.exists = TRUE, !.todo = Tail(@)]
             ELSE [disk EXCEPT !.version = guard.version, !.todo = Tail(@)]
  /\ UNCHANGED <<table, pushers, stream, guard, stored, counts>>

\* The agent dies and Load reads what is on disk, without a bundle nothing.
CrashGuard ==
  /\ counts.crashes < MaxGuardCrashes
  /\ counts' = [counts EXCEPT !.crashes = @ + 1]
  /\ stream' = [up |-> FALSE, chan |-> <<>>]
  /\ disk' = [disk EXCEPT !.todo = <<>>]
  /\ guard' = IF disk.exists
              THEN [loaded |-> TRUE, rules |-> disk.rules, version |-> disk.version]
              ELSE NoGuard
  /\ UNCHANGED <<table, pushers, stored>>

SyncNext ==
  \/ \E p \in Pushers :
       EditRow(p) \/ BumpRead(p) \/ BumpWrite(p) \/ ListSessions(p)
         \/ BuildRules(p) \/ BuildVersion(p) \/ SendBundle(p)
  \/ OpenStream \/ DropStream \/ OnBundle \/ PersistFile \/ CrashGuard

SyncSpec == SyncInit /\ [][SyncNext]_syncVars

-----------------------------------------------------------------------------
\* The agent enforces a rule set that was in force at some time, whatever edits
\* ran while its bundle was built and wherever it crashed while storing it.
EnforcesAStoredSet == guard.loaded => guard.rules \in stored

\* Agents "re-check against the new rule set immediately": when every push has
\* arrived, a connected agent holds the rules of the table.
Settled ==
  /\ \A p \in Pushers : pushers[p].pc = "idle"
  /\ stream.up /\ stream.chan = <<>> /\ disk.todo = <<>>

SettledGuardIsCurrent == Settled => guard.rules = table.rows
=============================================================================
