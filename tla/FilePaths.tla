----------------------------- MODULE FilePaths -----------------------------
(***************************************************************************)
(* Which file of the host a file operation reaches: a root-relative path   *)
(* is cleaned and walked below the file root.  A tree gives the kind of    *)
(* every node below the root; "link" stands for a symlink out of it.       *)
(***************************************************************************)
EXTENDS Integers, Sequences

CONSTANTS Names,       \* names of nodes
          MaxPathLen   \* components of a requested path

ASSUME PathAssumption == MaxPathLen \in Nat /\ {".", ".."} \cap Names = {}

VARIABLES rootIs,     \* what is at the file root: "dir", "none", "file" or "link"
          tree,       \* kind of each node
          request,    \* the path asked for
          pathState,  \* "start", "ready", "disabled", "resolved", "begun", "committed", "refused"
          reached     \* the path below the root the operation opens

pathVars == <<rootIs, tree, request, pathState, reached>>

Kinds == {"dir", "file", "link", "none"}
Nodes == UNION {[1 .. k -> Names] : k \in 1 .. 2}

KindAt(t, p) == IF p = <<>> THEN "dir" ELSE IF p \in DOMAIN t THEN t[p] ELSE "none"

\* What is below a node is there only when the node is a directory.
Trees == {t \in [Nodes -> Kinds] : \A p \in Nodes : Len(p) = 2 /\ t[<<p[1]>>] # "dir" => t[p] = "none"}

Paths == UNION {[1 .. k -> Names \cup {".", ".."}] : k \in 0 .. MaxPathLen}

PathsInit ==
  /\ rootIs \in {"dir", "none", "file", "link"} /\ tree \in Trees
  /\ (rootIs # "dir" => \A p \in Nodes : tree[p] = "none")
  /\ request \in Paths /\ pathState = "start" /\ reached = <<>>

\* filepath.Clean of a relative path.
CleanStep(acc, e) ==
  IF e = "." THEN acc
  ELSE IF e = ".." /\ acc # <<>> /\ acc[Len(acc)] # ".." THEN SubSeq(acc, 1, Len(acc) - 1)
  ELSE Append(acc, e)

\* What is left of the first i components.
Cleaned(p) ==
  LET cl[i \in 0 .. Len(p)] == IF i = 0 THEN <<>> ELSE CleanStep(cl[i - 1], p[i])
  IN  cl

Clean(p) == Cleaned(p)[Len(p)]

Escapes(rel) == rel # <<>> /\ rel[1] = ".."

\* Every component but the last is a real directory, and the last is no link.
ResolvePath(t, rel) ==
  /\ ~ Escapes(rel)
  /\ \A i \in 1 .. Len(rel) - 1 : KindAt(t, SubSeq(rel, 1, i)) = "dir"
  /\ KindAt(t, rel) # "link"

\* Bug: a missing intermediate directory is passed over and not created.
uploadTreeUnchanged(t, rel) == t

\* For an upload, missing directories on the way are created.
uploadTree(t, rel) ==
  [p \in Nodes |-> IF t[p] = "none" /\ Len(p) < Len(rel) /\ p = SubSeq(rel, 1, Len(p)) THEN "dir" ELSE t[p]]

resolvePathForUpload(t, rel) ==
  /\ ~ Escapes(rel)
  /\ \A i \in 1 .. Len(rel) - 1 : KindAt(t, SubSeq(rel, 1, i)) \in {"dir", "none"}
  /\ KindAt(t, rel) # "link"

-----------------------------------------------------------------------------

\* A missing root is created; a link or a file disables the file surface.
PrepareFileRoot ==
  /\ pathState = "start"
  /\ pathState' = IF rootIs \in {"dir", "none"} THEN "ready" ELSE "disabled"
  /\ rootIs' = IF rootIs = "none" THEN "dir" ELSE rootIs
  /\ UNCHANGED <<tree, request, reached>>

\* stat, list, download, edit and perm.
Resolve ==
  /\ pathState = "ready"
  /\ IF ResolvePath(tree, Clean(request))
     THEN pathState' = "resolved" /\ reached' = Clean(request)
     ELSE pathState' = "refused" /\ UNCHANGED reached
  /\ UNCHANGED <<rootIs, tree, request>>

\* An upload to the root itself cannot be renamed and is left out, and so is
\* what would lie deeper than the tree.
BeginUpload ==
  /\ pathState = "ready" /\ Clean(request) # <<>> /\ Len(Clean(request)) <= 2
  /\ IF resolvePathForUpload(tree, Clean(request))
     THEN pathState' = "begun" /\ reached' = Clean(request) /\ tree' = uploadTree(tree, Clean(request))
     ELSE pathState' = "refused" /\ UNCHANGED <<reached, tree>>
  /\ UNCHANGED <<rootIs, request>>

CommitUpload ==
  /\ pathState = "begun"
  /\ pathState' = IF ResolvePath(tree, Clean(request)) THEN "committed" ELSE "refused"
  /\ UNCHANGED <<rootIs, tree, request, reached>>

PathsNext == PrepareFileRoot \/ Resolve \/ BeginUpload \/ CommitUpload

PathsSpec == PathsInit /\ [][PathsNext]_pathVars

-----------------------------------------------------------------------------
(* Properties. *)

\* The kernel that opens a path below the root, component by component, stays
\* below it.
OpensInside(t, path) ==
  \A i \in 1 .. Len(path) : path[i] # ".." /\ KindAt(t, SubSeq(path, 1, i)) # "link"

(* An operation that is let through opens a node below the file root and   *)
(* follows no symlink on its way, whatever the tree and the dots in the    *)
(* request (docs/spec-file-root.md, ResolvePath).                          *)
StaysInside == pathState \in {"resolved", "begun", "committed"} => OpensInside(tree, reached)

(* A path that an upload's begin lets through its commit lets through as   *)
(* well: the two walks, one that creates what is missing and one that      *)
(* refuses it, agree on every tree (resolvePathForUpload, ResolvePath).    *)
CommitFollowsBegin == [][pathState = "begun" => pathState' = "committed"]_pathVars

(* The file root confines every operation, and both walks of an upload     *)
(* agree on it: the two parts above.                                       *)
RootConfines == []StaysInside /\ CommitFollowsBegin
=============================================================================
