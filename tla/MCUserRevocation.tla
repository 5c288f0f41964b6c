-------------------------- MODULE MCUserRevocation --------------------------
(***************************************************************************)
(* Instances of UserRevocation for TLC: one user with two certificates     *)
(* on disk and one from QR enrolment, or two users with one certificate    *)
(* each.                                                                   *)
(***************************************************************************)
EXTENDS UserRevocation, TLC

CONSTANTS u1, u2, d1, d2, e1, r1, r2

\* One user: certificates d1, d2 on disk, e1 enrolled.
OneOwner == d1 :> u1 @@ d2 :> u1 @@ e1 :> u1
OneGlob  == u1 :> {d1, d2}

\* Two users with unrelated names, u1 with a certificate on disk and u2 with
\* one from QR enrolment.
TwoOwners == d1 :> u1 @@ e1 :> u2
TwoGlobs  == u1 :> {d1} @@ u2 :> {}

\* Two users with a certificate on disk each.
DiskOwners == d1 :> u1 @@ d2 :> u2
DiskGlobs  == u1 :> {d1} @@ u2 :> {d2}

\* A service account: its certificate is `{u1}.pem`, which `{u1}-*.pem` does
\* not match.
ServiceGlob == u1 :> {}

\* PATCH bodies.
Reactivate  == [is_active |-> "true", ttl |-> Keep]
DeactivateB == [is_active |-> "false", ttl |-> Keep]
ExtendTTL   == [is_active |-> Keep, ttl |-> 1]
ClearTTL    == [is_active |-> Keep, ttl |-> Unset]

NoPatches    == {}
SweepPatches == {Reactivate, ExtendTTL}
AdminPatches == {DeactivateB, ExtendTTL, ClearTTL}

\* What create_user writes, without and with ttl_hours; and a user who was
\* deactivated and reactivated before, for whom LLDAP holds is_active "true".
NoTTLUser    == [is_active |-> Unset, expires |-> Unset, certs_revoked |-> "false"]
TTLUser      == [is_active |-> Unset, expires |-> 1, certs_revoked |-> "false"]
ReturnedUser == [is_active |-> "true", expires |-> 1, certs_revoked |-> "false"]
PlainUsers   == {NoTTLUser}
FreshUsers   == {TTLUser}
TTLUsers     == {TTLUser, ReturnedUser}
MixedUsers   == {NoTTLUser, ReturnedUser}
=============================================================================
