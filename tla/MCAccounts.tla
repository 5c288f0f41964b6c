----------------------------- MODULE MCAccounts -----------------------------
(***************************************************************************)
(* Instances of Accounts for TLC: webadmin, who is also the person that    *)
(* requests are about, one service account, two teams, a group an operator *)
(* may make as tak_tak_ROLE_ADMIN, and one gate group (ADMIN_GROUP and     *)
(* BACKUP_ADMIN_GROUP default to the same name).                           *)
(***************************************************************************)
EXTENDS Accounts, TLC

CONSTANTS r1, r2, g1, g2, twin

\* The listed name of the twin is taken for the role's group.
MCMeant == [g \in Tak |-> IF g = twin THEN RoleAdmin ELSE g]

\* Handlers are interchangeable, and so are the teams.
Symmetry == Permutations({r1, r2}) \cup Permutations({g1, g2})
=============================================================================
