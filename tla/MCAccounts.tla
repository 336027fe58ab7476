----------------------------- MODULE MCAccounts -----------------------------
(***************************************************************************)
(* Instances of Accounts for TLC: at first every session is open, and an   *)
(* invitation that waits is one to become a viewer.                        *)
(***************************************************************************)
EXTENDS Accounts, TLC

MCInit ==
  /\ Init
  /\ \A s \in Sessions :
       /\ sessions[s].who # None
       /\ sessions[s].active = None => Memberships(sessions[s].who) = {}
  /\ \A i \in Invites : invites[i].role = "viewer"

MCSpec == MCInit /\ [][Next]_vars

Symmetry == Permutations(Requests) \cup Permutations(Subjects)
              \cup Permutations(Sessions)
=============================================================================
