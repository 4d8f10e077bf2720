---------------------------- MODULE ApprovalsMC ----------------------------
(* Instances of Approvals for TLC. *)
EXTENDS Approvals, TLC

CONSTANTS q1, q2, a1, a2, l1

\* Requests, and the handlers of one kind, are interchangeable.
Perms == Permutations(Requests) \cup Permutations(Admins)
=============================================================================
