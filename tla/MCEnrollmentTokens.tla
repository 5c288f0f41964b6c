-------------------------- MODULE MCEnrollmentTokens --------------------------
(***************************************************************************)
(* Instances of EnrollmentTokens for TLC.                                  *)
(***************************************************************************)
EXTENDS EnrollmentTokens, TLC

\* Users, tokens, handlers and requests are interchangeable.
Symmetry == Permutations(User) \cup Permutations(Token)
              \cup Permutations(Conn) \cup Permutations(Admin)
=============================================================================
