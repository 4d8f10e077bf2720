------------------------------- MODULE Policy -------------------------------
(***************************************************************************)
(* The rule evaluator (internal/policy), the gates that evaluate an action *)
(* on the server before it is dispatched and the re-checks of the agent's  *)
(* guardrail (internal/agent/guardrail).  A behaviour picks a rule set, a  *)
(* host, an actor and an action, has the server decide and the agent check *)
(* again against the bundle of the same rules.                             *)
(*                                                                         *)
(* A selector is the set of its predicates, "group" and "malformed" among  *)
(* them; a regex is the set of the command lines it matches.               *)
(***************************************************************************)
EXTENDS Naturals, FiniteSets

CONSTANTS RulePool,      \* rules an administrator may have created
          MaxRules,      \* bound on the rules in force
          ActorRoles,    \* RBAC roles that may dispatch
          CommandLines,  \* command lines, "" and "reboot" among them
          TaskSteps      \* step kinds of a task: "package" or a command line

FileClasses   == {"file.read", "file.write", "file.perm"}
ActionClasses == FileClasses \cup {"exec", "pkg.list", "pkg.apply", "task.run"}
HostFacts     == {"tag", "role"}
Selectors     == SUBSET (HostFacts \cup {"group", "malformed"})
EOLStates     == {"", "supported", "ended"}
Effects       == {"allow", "require_approval", "deny"}

RuleType == [hosts : Selectors, actions : SUBSET (ActionClasses \cup {"file"}),
             roles : SUBSET ActorRoles, lines : SUBSET CommandLines,
             eol : EOLStates, effect : Effects]

ASSUME PolicyAssumption ==
  /\ RulePool \subseteq RuleType
  /\ MaxRules \in Nat
  /\ {"", "reboot"} \subseteq CommandLines
  /\ TaskSteps \subseteq {"package"} \cup CommandLines

-----------------------------------------------------------------------------
(* internal/policy *)

\* A group, or a selector that does not parse, matches no single host.
matchHosts(r, a) == r.hosts \subseteq a.facts

matchActions(r, a) ==
  \/ r.actions = {}
  \/ a.class \in r.actions
  \/ a.class \in FileClasses /\ "file" \in r.actions

matchActorRoles(r, a) == r.roles = {} \/ a.role \in r.roles

matchEOL(r, a) == r.eol \in {"", a.eol}

matchesRule(r, a) ==
  /\ matchHosts(r, a)
  /\ matchActions(r, a)
  /\ matchActorRoles(r, a)
  /\ a.line \in r.lines
  /\ matchEOL(r, a)

Evaluate(rules, a) ==
  LET E == {r.effect : r \in {s \in rules : matchesRule(s, a)}}
  IN  IF "deny" \in E THEN "deny"
      ELSE IF "require_approval" \in E THEN "require_approval"
      ELSE "allow"

-----------------------------------------------------------------------------
(* The actions of a surface: on a host h = [facts, eol], for an actor. *)

Act(h, role, class, line) ==
  [facts |-> h.facts, role |-> role, class |-> class, line |-> line, eol |-> h.eol]

WithoutEOL(h) == [h EXCEPT !.eol = ""]

\* StepActions and the loop of RecheckTask: a package step is a pkg.apply, a
\* command step an exec.
StepActions(h, role, steps) ==
  {IF s = "package" THEN Act(h, role, "pkg.apply", "") ELSE Act(h, role, "exec", s) : s \in steps}

\* The worst effect of a set of actions: deny, require_approval, allow.
Worst(rules, acts) ==
  LET E == {Evaluate(rules, a) : a \in acts}
  IN  IF "deny" \in E THEN "deny"
      ELSE IF "require_approval" \in E THEN "require_approval" ELSE "allow"

\* A request is [surface, h, role, line, steps]; a file's path is its line.
Surfaces == {"exec", "session", "file", "pkg", "task"}

\* Bug: only the task.run class of a task is evaluated.
GateActions_TaskOnly(q) ==
  CASE q.surface = "exec"    -> {Act(q.h, q.role, "exec", q.line)}
    [] q.surface = "session" -> {Act(WithoutEOL(q.h), q.role, "exec", q.line)}
    [] q.surface = "file"    -> {Act(WithoutEOL(q.h), q.role, "file.write", q.line)}
    [] q.surface = "pkg"     -> {Act(q.h, q.role, "pkg.apply", "")}
    [] q.surface = "task"    -> {Act(q.h, q.role, "task.run", "")}

\* What the server evaluates.  Neither the file gate nor the session gate
\* fills HostEOL in.
GateActions(q) ==
  CASE q.surface = "exec"    -> {Act(q.h, q.role, "exec", q.line)}
    [] q.surface = "session" -> {Act(WithoutEOL(q.h), q.role, "exec", q.line)}
    [] q.surface = "file"    -> {Act(WithoutEOL(q.h), q.role, "file.write", q.line)}
    [] q.surface = "pkg"     -> {Act(q.h, q.role, "pkg.apply", "")}
    [] q.surface = "task"    -> {Act(q.h, q.role, "task.run", "")}
                                  \cup StepActions(q.h, q.role, q.steps)

Gate(rules, q) == Worst(rules, GateActions(q))

\* The state a decision carries to the agent: the gates of exec, pkg and task
\* sign it, an approval does not.
EolState(q, approved) ==
  IF approved \/ q.surface \in {"session", "file"} THEN "" ELSE q.h.eol

\* What the agent evaluates: its bundle's snapshot of the state stands in
\* where the decision carries none.
GuardHost(q, approved, bundleEol) ==
  LET e == EolState(q, approved)
  IN  [q.h EXCEPT !.eol = IF e # "" THEN e ELSE bundleEol]

GuardActions(q, h) ==
  CASE q.surface \in {"exec", "session"} -> {Act(h, q.role, "exec", q.line)}
    [] q.surface = "file" -> {Act(h, q.role, "file.write", q.line)}
    [] q.surface = "pkg"  -> {Act(h, q.role, "pkg.apply", "")}
    [] q.surface = "task" -> {Act(h, q.role, "task.run", "")}
                               \cup StepActions(h, q.role, q.steps)

\* approvalCheck looks at the first action only: a task's steps are not.
ApprovalActions(q, h) ==
  IF q.surface = "task" THEN {Act(h, q.role, "task.run", "")} ELSE GuardActions(q, h)

\* Recheck, RecheckFile, RecheckPkg, RecheckTask of a decision to allow, once
\* a bundle of its version is loaded and its signature is the server's.
Recheck(rules, q, approved, bundleEol) ==
  LET h == GuardHost(q, approved, bundleEol)
  IN  IF approved THEN Worst(rules, ApprovalActions(q, h)) # "deny"
      ELSE Worst(rules, GuardActions(q, h)) = "allow"

-----------------------------------------------------------------------------
VARIABLE gate   \* one action on its way: phase, rules in force, request, verdicts

Phases == {"none", "denied", "held", "sent", "admitted", "refused"}
NoCase == [phase |-> "none", rules |-> {}, req |-> <<>>, approved |-> FALSE]

PolicyInit == gate = NoCase

\* The server evaluates: deny ends it, require_approval holds it, allow sends it.
Decide ==
  /\ gate.phase = "none"
  /\ \E R \in {R \in SUBSET RulePool : Cardinality(R) <= MaxRules},
        s \in Surfaces, f \in SUBSET HostFacts, e \in EOLStates, o \in ActorRoles,
        l \in CommandLines, steps \in SUBSET TaskSteps :
       /\ s \in {"pkg", "task"} => l = ""
       /\ s # "task" => steps = {}
       /\ LET q == [surface |-> s, h |-> [facts |-> f, eol |-> e], role |-> o,
                    line |-> l, steps |-> steps]
              v == Gate(R, q)
          IN  gate' = [phase |-> CASE v = "deny" -> "denied" [] v = "allow" -> "sent"
                                   [] OTHER -> "held",
                       rules |-> R, req |-> q, approved |-> FALSE]

\* A rule is created while the action is held; agents receive the new bundle.
EditRules ==
  /\ gate.phase = "held" /\ Cardinality(gate.rules) <= MaxRules
  /\ \E r \in RulePool \ gate.rules : gate' = [gate EXCEPT !.rules = @ \cup {r}]

\* Controller.Approve signs an allow under the current version; it evaluates
\* nothing.
ApproveHeld ==
  /\ gate.phase = "held"
  /\ gate' = [gate EXCEPT !.phase = "sent", !.approved = TRUE]

\* The guardrail of the agent, whose bundle holds the rules in force and the
\* state of the host.
GuardCheck ==
  /\ gate.phase = "sent"
  /\ gate' = [gate EXCEPT !.phase =
                IF Recheck(gate.rules, gate.req, gate.approved, gate.req.h.eol)
                THEN "admitted" ELSE "refused"]

PolicyNext == Decide \/ EditRules \/ ApproveHeld \/ GuardCheck

PolicySpec == PolicyInit /\ [][PolicyNext]_gate

-----------------------------------------------------------------------------
GateRequests ==
  [surface : Surfaces, h : [facts : SUBSET HostFacts, eol : EOLStates],
   role : ActorRoles, line : CommandLines, steps : SUBSET TaskSteps]

PolicyTypeOK ==
  /\ gate.phase \in Phases /\ gate.rules \subseteq RulePool /\ gate.approved \in BOOLEAN
  /\ gate.phase # "none" => gate.req \in GateRequests

\* The agent never refuses what the server allowed under the same rules, for
\* the surfaces whose gates fill the host's state in; for files and sessions
\* only when no EOL-scoped rule is in force.
GuardAgreesWithGate ==
  gate.phase = "refused" /\ ~gate.approved =>
    /\ gate.req.surface \in {"file", "session"}
    /\ \E r \in gate.rules : r.eol # ""

\* "A local hard DENY still wins": an approval given after a deny rule was
\* created does not carry the action past the agent.  The steps of an approved
\* task are the exception: the guardrail does not look at them.
DenyBeatsApproval ==
  gate.phase = "admitted" /\ gate.req.surface # "task" => Gate(gate.rules, gate.req) # "deny"

\* Creating a rule never turns a verdict into a weaker one, whatever its effect
\* and priority: allow rules are no exceptions to the others.
NoRuleLoosens ==
  gate.phase \in {"denied", "held"} =>
    \A r \in RulePool :
      LET v == Gate(gate.rules \cup {r}, gate.req)
      IN  v = "deny" \/ (gate.phase = "held" /\ v = "require_approval")

\* Gate, approval and guardrail reach one verdict: the parts above, for every
\* surface, host, role and pair of rules.
PolicyInv == PolicyTypeOK /\ GuardAgreesWithGate /\ DenyBeatsApproval /\ NoRuleLoosens
=============================================================================
