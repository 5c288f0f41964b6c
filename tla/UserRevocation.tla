--------------------------- MODULE UserRevocation ---------------------------
(***************************************************************************)
(* A user's life in the monitor: the three LLDAP attributes that decide    *)
(* whether the user may act (is_active, fastak_expires,                    *)
(* fastak_certs_revoked), the client certificates issued to the user, and  *)
(* the two files openssl keeps about revocation (crl_index.txt, ca.crl).   *)
(*                                                                         *)
(* Two kinds of process work on that state without a common lock: request  *)
(* handlers (FastAPI runs the synchronous ones on a thread pool) and the   *)
(* expiry job of the APScheduler thread.  Every GraphQL call, docker exec  *)
(* and certadmin query is a step of its own, so handlers and the job       *)
(* interleave between any two of them.                                     *)
(***************************************************************************)
EXTENDS Integers

CONSTANTS
    User,        \* LLDAP users the monitor manages
    Cert,        \* client certificates, present or future
    Owner,       \* the user in the CN of each certificate
    Enrolled,    \* certificates obtained by QR enrolment: only certadmin has them
    Glob,        \* the on-disk certificates `find -name {username}-*.pem` returns
    Request,     \* request handlers that may run at the same time
    Sched,       \* the expiry job (APScheduler runs one instance at a time)
    Unset,       \* an attribute LLDAP does not hold; ttl_hours: null in a PATCH
    Keep,        \* a field absent from a PATCH or from insertAttributes
    Patches,     \* PATCH bodies the administrators send
    Kinds,       \* requests the administrators send
    FaultKinds,  \* failures the environment produces
    MaxFaults,   \* bound on the number of failures
    MaxTime,     \* bound on the clock
    TakStates,   \* states the TAK client singleton can be built in
    InitAttrs,   \* attributes a user may start with
    InitIssued   \* certificates that exist at the start

Flag  == {"true", "false", Unset}
Attrs == [is_active : Flag, expires : Nat \cup {Unset}, certs_revoked : Flag]
Body  == [is_active : {"true", "false", Keep}, ttl : Nat \cup {Unset, Keep}]
Proc  == Request \cup {Sched}

ConstantsAssumption ==
    /\ Owner \in [Cert -> User]
    /\ Enrolled \subseteq Cert
    /\ Glob \in [User -> SUBSET (Cert \ Enrolled)]
    /\ Sched \notin Request
    /\ Unset # Keep
    /\ Unset \notin Nat /\ Keep \notin Nat
    /\ Unset \notin {"true", "false"} /\ Keep \notin {"true", "false"}
    /\ Patches \subseteq Body
    /\ MaxFaults \in Nat /\ MaxTime \in Nat
    /\ TakStates \subseteq {"none", "broken", "ready"} /\ TakStates # {}
    /\ InitAttrs \subseteq Attrs
    /\ InitIssued \subseteq Cert

ASSUME ConstantsAssumption

VARIABLES
    now,        \* the clock of the monitor's host
    attrs,      \* per user, the attributes LLDAP holds
    issued,     \* certificates signed by the CA
    flagged,    \* certificates with a revocation date in certadmin
    index,      \* serials marked R in crl_index.txt
    crl,        \* serials in ca.crl, the file TAK Server consults
    tokens,     \* users with a live enrolment token in ldap-proxy
    tak,        \* the TakServerClient singleton of the process
    queue,      \* <<user, is_active>> pairs left of the expiry job's snapshot
    op,         \* per process, the operation in progress
    faults,     \* failures so far
    condemned,  \* history: certificates somebody decided to revoke
    revived     \* history: users a PATCH left active behind their deactivation

vars == <<now, attrs, issued, flagged, index, crl, tokens, tak, queue, op,
          faults, condemned, revived>>

CertsOf(u) == {c \in Cert : Owner[c] = u}

NoBody == [is_active |-> Keep, ttl |-> Keep]
NoRead == [is_active |-> Unset, expires |-> Unset, certs_revoked |-> Unset]

Idle == [pc |-> "idle", kind |-> "none", user |-> Unset, target |-> Unset,
         body |-> NoBody, read |-> NoRead, ttlEnd |-> Unset,
         phase |-> "disk", todo |-> {}, listed |-> {}, idx |-> {},
         ok |-> TRUE]

Start(kind, u, pc) == [Idle EXCEPT !.kind = kind, !.user = u, !.pc = pc]

Init ==
    /\ now = 0
    /\ attrs \in [User -> InitAttrs]
    /\ issued = InitIssued
    /\ flagged = {}
    /\ index = {}
    /\ crl = {}
    /\ tokens = {}
    /\ tak \in TakStates
    /\ queue = {}
    /\ op = [p \in Proc |-> Idle]
    /\ faults = 0
    /\ condemned = {}
    /\ revived = {}

(***************************************************************************)
(* Building blocks.                                                        *)
(***************************************************************************)
Fault(kind) ==
    /\ kind \in FaultKinds
    /\ faults < MaxFaults
    /\ faults' = faults + 1

Become(p, o) == op' = [op EXCEPT ![p] = o]

\* One attribute of the dict update_user and mark_certs_revoked send: the
\* requested change, else the value read before, else nothing.
Sent(change, seen) ==
    IF change # Keep THEN change ELSE IF seen # Unset THEN seen ELSE Keep

\* mutant: an attribute that is not sent is stored as such
MergedRaw(old, sent) == sent

\* insertAttributes merges: what is not sent stays, an empty value clears.
Merged(old, sent) == IF sent = Keep THEN old ELSE sent

ApplyAttrs(a, s) ==
    [is_active     |-> Merged(a.is_active, s.is_active),
     expires       |-> Merged(a.expires, s.expires),
     certs_revoked |-> Merged(a.certs_revoked, s.certs_revoked)]

\* One updateUser mutation through _graphql: it succeeds; or it is applied
\* and the reply is lost, so _graphql sends it again; or it raises.
Mutate(p, sent, next) ==
    LET u == op[p].user
        applied == attrs' = [attrs EXCEPT ![u] = ApplyAttrs(@, sent)]
    IN  \/ applied /\ Become(p, next) /\ UNCHANGED faults
        \/ applied /\ Fault("lldap") /\ UNCHANGED op
        \/ Fault("lldap") /\ Become(p, Idle) /\ UNCHANGED attrs

\* Where an operation goes when the certificate at hand is done with:
\* the next one of the list, the second source, or the end, where only a
\* clean sweep may go on to set fastak_certs_revoked.
Advance(o) ==
    IF o.todo # {} THEN [o EXCEPT !.pc = "revoke"]
    ELSE IF o.kind = "revoke"
         THEN IF o.ok
              THEN [o EXCEPT !.pc = IF o.target \in Enrolled THEN "flag"
                                                             ELSE "tokens"]
              ELSE Idle
    ELSE IF o.phase = "disk" THEN [o EXCEPT !.pc = "list_admin"]
    ELSE IF o.ok THEN [o EXCEPT !.pc = "mark_read"]
    ELSE Idle

\* mutant: a failed certificate does not spoil the sweep
FailedIgnored(o) == Advance([o EXCEPT !.todo = @ \ {o.target}])

Done(o)   == Advance([o EXCEPT !.todo = @ \ {o.target}])
Failed(o) == Advance([o EXCEPT !.todo = @ \ {o.target}, !.ok = FALSE])

\* The user's TTL is over.
Expired(u) == attrs[u].expires # Unset /\ attrs[u].expires <= now

\* mutant: the expiry time is not looked at
PendingUnexpired(u) == attrs[u].certs_revoked # "true"

\* mutant: a user without the is_active attribute counts as inactive
PendingExplicit(u) ==
    /\ Expired(u)
    /\ attrs[u].certs_revoked # "true"
    /\ attrs[u].is_active = "true"

\* get_users_pending_expiry's filter.
Pending(u) == Expired(u) /\ attrs[u].certs_revoked # "true"

(***************************************************************************)
(* The clock, and the world outside the monitor.                           *)
(***************************************************************************)
Tick ==
    /\ now < MaxTime
    /\ now' = now + 1
    /\ UNCHANGED <<attrs, issued, flagged, index, crl, tokens, tak, queue, op,
                   faults, condemned, revived>>

\* A device trades an enrolment token for a certificate: TAK Server asks
\* ldap-proxy, which looks at the token and not at is_active.
DeviceEnroll(c) ==
    /\ c \in Enrolled \ issued
    /\ Owner[c] \in tokens
    /\ issued' = issued \cup {c}
    /\ UNCHANGED <<now, attrs, flagged, index, crl, tokens, tak, queue, op,
                   faults, condemned, revived>>

\* The token's fifteen minutes are over.
TokenExpires(u) ==
    /\ u \in tokens
    /\ tokens' = tokens \ {u}
    /\ UNCHANGED <<now, attrs, issued, flagged, index, crl, tak, queue, op,
                   faults, condemned, revived>>

\* The monitor container restarts: what was in flight is gone, what LLDAP and
\* the certificate directory hold stays, the client singletons are rebuilt.
Crash ==
    /\ Fault("crash")
    /\ op' = [p \in Proc |-> Idle]
    /\ queue' = {}
    /\ tak' \in TakStates
    /\ UNCHANGED <<now, attrs, issued, flagged, index, crl, tokens, condemned,
                   revived>>

(***************************************************************************)
(* PATCH /api/users/{id}                                                   *)
(***************************************************************************)
\* update_user: compute the change, then read the attributes to merge with.
PatchRead(r, u) ==
    /\ op[r] = Idle
    /\ \E b \in Patches \ {NoBody} :
         Become(r, [Start("patch", u, "patch_write") EXCEPT
                      !.body = b, !.read = attrs[u],
                      !.ttlEnd = IF b.ttl \in {Unset, Keep} THEN b.ttl
                                                            ELSE now + b.ttl])
    /\ UNCHANGED <<now, attrs, issued, flagged, index, crl, tokens, tak, queue,
                   faults, condemned, revived>>

\* The change a PATCH body asks for, attribute by attribute.
Change(o) ==
    [is_active |-> o.body.is_active,
     expires   |-> o.ttlEnd,
     certs_revoked |-> IF o.body.ttl = Unset THEN Unset
                       ELSE IF o.body.ttl # Keep \/ o.body.is_active = "true"
                            THEN "false" ELSE Keep]

\* Every managed attribute is sent, the ones read before included.
PatchSends(o) ==
    [is_active     |-> Sent(Change(o).is_active, o.read.is_active),
     expires       |-> Sent(Change(o).expires, o.read.expires),
     certs_revoked |-> Sent(Change(o).certs_revoked, o.read.certs_revoked)]

\* The user was deactivated, or the job's snapshot says so, and what remains
\* of the delete or of the sweep does not look at is_active again.
Leaving(u) ==
    \/ <<u, FALSE>> \in queue
    \/ \E p \in Proc : /\ op[p].kind \in {"delete", "sweep"}
                        /\ op[p].user = u
                        /\ op[p].pc # "deactivate"

PatchWrite(r) ==
    /\ op[r].pc = "patch_write"
    /\ Mutate(r, PatchSends(op[r]), Idle)
    /\ LET u == op[r].user
       IN  revived' = IF Leaving(u) /\ attrs'[u].is_active # "false"
                      THEN revived \cup {u} ELSE revived
    /\ UNCHANGED <<now, issued, flagged, index, crl, tokens, tak, queue,
                   condemned>>

(***************************************************************************)
(* DELETE /api/users/{id}, and the expiry job: deactivate, revoke, mark.   *)
(***************************************************************************)
DeleteStart(r, u) ==
    /\ op[r] = Idle
    /\ "delete" \in Kinds
    /\ Become(r, Start("delete", u, "deactivate"))
    /\ condemned' = condemned \cup CertsOf(u)
    /\ UNCHANGED <<now, attrs, issued, flagged, index, crl, tokens, tak, queue,
                   faults, revived>>

\* get_users_pending_expiry: one query, one clock reading, for all users.
SchedPoll ==
    /\ op[Sched] = Idle
    /\ queue = {}
    /\ queue' = {<<u, attrs[u].is_active # "false">> :
                    u \in {v \in User : Pending(v)}}
    /\ queue' # {}
    /\ condemned' = condemned \cup {c \in Cert : Expired(Owner[c])}
    /\ UNCHANGED <<now, attrs, issued, flagged, index, crl, tokens, tak, op,
                   faults, revived>>

\* The loop over the snapshot: skip the deactivation of a user the snapshot
\* says is inactive, and defer the revocation when there is no TAK client.
SchedNext(u, active) ==
    /\ op[Sched] = Idle
    /\ <<u, active>> \in queue
    /\ queue' = queue \ {<<u, active>>}
    /\ Become(Sched, IF active THEN Start("sweep", u, "deactivate")
                     ELSE IF tak = "none" THEN Idle
                     ELSE Start("sweep", u, "list_disk"))
    /\ UNCHANGED <<now, attrs, issued, flagged, index, crl, tokens, tak,
                   faults, condemned, revived>>

Deactivate(p) ==
    /\ op[p].pc = "deactivate"
    /\ Mutate(p, [is_active |-> "false", expires |-> Keep,
                  certs_revoked |-> Keep],
              IF tak = "none" THEN Idle
              ELSE [op[p] EXCEPT !.pc = "list_disk"])
    /\ UNCHANGED <<now, issued, flagged, index, crl, tokens, tak, queue,
                   condemned, revived>>

\* revoke_certs_on_disk_for_user: find the .pem files, or fail to.
ListDisk(p) ==
    /\ op[p].pc = "list_disk"
    /\ LET found == Glob[op[p].user] \cap issued
       IN  \/ /\ Become(p, Advance([op[p] EXCEPT !.todo = found,
                                                 !.listed = found]))
              /\ UNCHANGED faults
           \/ /\ Fault("docker")
              /\ Become(p, Advance([op[p] EXCEPT !.ok = FALSE]))
    /\ UNCHANGED <<now, attrs, issued, flagged, index, crl, tokens, tak, queue,
                   condemned, revived>>

\* list_user_certs, then the loop over the certificates certadmin does not
\* show as revoked.  An HTTP failure reads as an empty list; a client that
\* was never initialised raises.
ListAdmin(p) ==
    /\ op[p].pc = "list_admin"
    /\ LET found == {c \in (Enrolled \cap issued) \ flagged :
                        Owner[c] = op[p].user}
           o == [op[p] EXCEPT !.phase = "admin"]
       IN  \/ /\ tak = "ready"
              /\ Become(p, Advance([o EXCEPT !.todo = found,
                                             !.listed = @ \cup found]))
              /\ UNCHANGED faults
           \/ /\ tak = "ready"
              /\ Fault("certadmin")
              /\ Become(p, Advance(o))
           \/ /\ tak # "ready"
              /\ Become(p, Idle)
              /\ UNCHANGED faults
    /\ UNCHANGED <<now, attrs, issued, flagged, index, crl, tokens, tak, queue,
                   condemned, revived>>

(***************************************************************************)
(* _revoke_via_crl: `openssl ca -revoke` loads crl_index.txt, adds the     *)
(* serial and renames a new file over it, with no lock; then               *)
(* `openssl ca -gencrl` writes ca.crl from the index.                      *)
(***************************************************************************)
\* Load the index.  A serial already marked R is an error, and the `&&` keeps
\* -gencrl from running.
RevokeLoad(p, c) ==
    /\ op[p].pc = "revoke"
    /\ c \in op[p].todo
    /\ LET o == [op[p] EXCEPT !.target = c]
       IN  \/ /\ c \notin index
              /\ Become(p, [o EXCEPT !.pc = "save", !.idx = index])
              /\ UNCHANGED faults
           \/ /\ c \in index
              /\ Become(p, Failed(o))
              /\ UNCHANGED faults
           \/ /\ Fault("docker")
              /\ Become(p, Failed(o))
    /\ UNCHANGED <<now, attrs, issued, flagged, index, crl, tokens, tak, queue,
                   condemned, revived>>

\* mutant: the index is started afresh
RevokeSaveAfresh(p) ==
    /\ op[p].pc = "save"
    /\ index' = {op[p].target}
    /\ Become(p, [op[p] EXCEPT !.pc = "gencrl", !.idx = {}])
    /\ UNCHANGED <<now, attrs, issued, flagged, crl, tokens, tak, queue, faults,
                   condemned, revived>>

RevokeSave(p) ==
    /\ op[p].pc = "save"
    /\ index' = op[p].idx \cup {op[p].target}
    /\ Become(p, [op[p] EXCEPT !.pc = "gencrl", !.idx = {}])
    /\ UNCHANGED <<now, attrs, issued, flagged, crl, tokens, tak, queue, faults,
                   condemned, revived>>

\* mutant: a failure of -gencrl is not looked at
RevokeGencrlUnchecked(p) ==
    /\ op[p].pc = "gencrl"
    /\ \/ crl' = index /\ UNCHANGED faults
       \/ Fault("gencrl") /\ UNCHANGED crl
    /\ Become(p, Done(op[p]))
    /\ UNCHANGED <<now, attrs, issued, flagged, index, tokens, tak, queue,
                   condemned, revived>>

RevokeGencrl(p) ==
    /\ op[p].pc = "gencrl"
    /\ \/ crl' = index /\ Become(p, Done(op[p])) /\ UNCHANGED faults
       \/ Fault("gencrl") /\ Become(p, Failed(op[p])) /\ UNCHANGED crl
    /\ UNCHANGED <<now, attrs, issued, flagged, index, tokens, tak, queue,
                   condemned, revived>>

\* mark_certs_revoked: read the attributes, send them all back with the flag.
MarkRead(p) ==
    /\ op[p].pc = "mark_read"
    /\ \/ /\ Become(p, [op[p] EXCEPT !.pc = "mark_write",
                                     !.read = attrs[op[p].user]])
          /\ UNCHANGED faults
       \/ Fault("lldap") /\ Become(p, Idle)
    /\ UNCHANGED <<now, attrs, issued, flagged, index, crl, tokens, tak, queue,
                   condemned, revived>>

\* mutant: an unread is_active is filled in with its default
MarkSendsDefault(o) ==
    [is_active     |-> "true",
     expires       |-> Sent(Keep, o.read.expires),
     certs_revoked |-> "true"]

MarkSends(o) ==
    [is_active     |-> Sent(Keep, o.read.is_active),
     expires       |-> Sent(Keep, o.read.expires),
     certs_revoked |-> "true"]

MarkWrite(p) ==
    /\ op[p].pc = "mark_write"
    /\ Mutate(p, MarkSends(op[p]), Idle)
    /\ UNCHANGED <<now, issued, flagged, index, crl, tokens, tak, queue,
                   condemned, revived>>

(***************************************************************************)
(* POST /api/users/{id}/certs/revoke: one certificate, by id or by name.   *)
(***************************************************************************)
RevokeStart(r, c) ==
    /\ op[r] = Idle
    /\ "revoke" \in Kinds
    /\ c \in issued
    /\ c \in Enrolled => tak = "ready"
    /\ Become(r, [Start("revoke", Owner[c], "revoke") EXCEPT !.todo = {c}])
    /\ condemned' = condemned \cup {c}
    /\ UNCHANGED <<now, attrs, issued, flagged, index, crl, tokens, tak, queue,
                   faults, revived>>

\* tak.revoke_cert: its result is ignored.
FlagAdmin(p) ==
    /\ op[p].pc = "flag"
    /\ \/ flagged' = flagged \cup {op[p].target} /\ UNCHANGED faults
       \/ Fault("certadmin") /\ UNCHANGED flagged
    /\ Become(p, [op[p] EXCEPT !.pc = "tokens"])
    /\ UNCHANGED <<now, attrs, issued, index, crl, tokens, tak, queue,
                   condemned, revived>>

DropTokens(p) ==
    /\ op[p].pc = "tokens"
    /\ tokens' = tokens \ {op[p].user}
    /\ Become(p, Idle)
    /\ UNCHANGED <<now, attrs, issued, flagged, index, crl, tak, queue, faults,
                   condemned, revived>>

(***************************************************************************)
(* POST /api/users/{id}/certs/generate and POST /api/users/{id}/enroll:    *)
(* the user is looked at first, the certificate or the token comes later.  *)
(* Two requests for one certificate name are not sent at the same time.    *)
(***************************************************************************)
GenerateCheck(r, c) ==
    /\ op[r] = Idle
    /\ "generate" \in Kinds
    /\ c \notin Enrolled \cup issued
    /\ \A p \in Proc : ~(op[p].kind = "generate" /\ op[p].target = c)
    /\ attrs[Owner[c]].is_active # "false"
    /\ ~Expired(Owner[c])
    /\ Become(r, [Start("generate", Owner[c], "sign") EXCEPT !.target = c])
    /\ UNCHANGED <<now, attrs, issued, flagged, index, crl, tokens, tak, queue,
                   faults, condemned, revived>>

GenerateSign(r) ==
    /\ op[r].pc = "sign"
    /\ \/ issued' = issued \cup {op[r].target} /\ UNCHANGED faults
       \/ Fault("docker") /\ UNCHANGED issued
    /\ Become(r, Idle)
    /\ UNCHANGED <<now, attrs, flagged, index, crl, tokens, tak, queue,
                   condemned, revived>>

EnrollCheck(r, u) ==
    /\ op[r] = Idle
    /\ "enroll" \in Kinds
    /\ attrs[u].is_active # "false"
    /\ Become(r, Start("enroll", u, "mint"))
    /\ UNCHANGED <<now, attrs, issued, flagged, index, crl, tokens, tak, queue,
                   faults, condemned, revived>>

EnrollMint(r) ==
    /\ op[r].pc = "mint"
    /\ tokens' = tokens \cup {op[r].user}
    /\ Become(r, Idle)
    /\ UNCHANGED <<now, attrs, issued, flagged, index, crl, tak, queue, faults,
                   condemned, revived>>

(***************************************************************************)
(* The system.                                                             *)
(***************************************************************************)
\* The steps that finish what a process has begun.
Step(p) ==
    \/ PatchWrite(p)
    \/ Deactivate(p)
    \/ ListDisk(p)
    \/ ListAdmin(p)
    \/ \E c \in Cert : RevokeLoad(p, c)
    \/ RevokeSave(p)
    \/ RevokeGencrl(p)
    \/ MarkRead(p)
    \/ MarkWrite(p)
    \/ FlagAdmin(p)
    \/ DropTokens(p)
    \/ GenerateSign(p)
    \/ EnrollMint(p)

Arrive(r) ==
    \/ \E u \in User : PatchRead(r, u) \/ DeleteStart(r, u) \/ EnrollCheck(r, u)
    \/ \E c \in Cert : RevokeStart(r, c) \/ GenerateCheck(r, c)

SchedStep ==
    \/ SchedPoll
    \/ \E u \in User, active \in BOOLEAN : SchedNext(u, active)
    \/ Step(Sched)

Outside ==
    \/ Tick
    \/ Crash
    \/ \E c \in Cert : DeviceEnroll(c)
    \/ \E u \in User : TokenExpires(u)

Next ==
    \/ Outside
    \/ SchedStep
    \/ \E r \in Request : Arrive(r) \/ Step(r)

Spec == Init /\ [][Next]_vars

\* The clock runs, APScheduler starts the job again every interval, and a
\* thread that is running a request or the job is not suspended for ever.
\* Nothing obliges an administrator or a device to act.
Fairness ==
    /\ WF_vars(Tick)
    /\ WF_vars(SchedStep)
    /\ \A r \in Request : WF_vars(Step(r))

FairSpec == Spec /\ Fairness

(***************************************************************************)
(* Properties.                                                             *)
(***************************************************************************)
\* What a process keeps between two steps.
OpRecord ==
    [pc : {"idle", "patch_write", "deactivate", "list_disk", "list_admin",
           "revoke", "save", "gencrl", "mark_read", "mark_write", "flag",
           "tokens", "sign", "mint"},
     kind : {"none", "patch", "delete", "sweep", "revoke", "generate",
             "enroll"},
     user : User \cup {Unset},
     target : Cert \cup {Unset},
     body : Body,
     read : Attrs,
     ttlEnd : Nat \cup {Unset, Keep},
     phase : {"disk", "admin"},
     todo : SUBSET Cert,
     listed : SUBSET Cert,
     idx : SUBSET Cert,
     ok : BOOLEAN]

\* The type invariant: attributes hold one of the values LLDAP can store, and
\* never the marker of a field that was not sent.
TypeOK ==
    /\ now \in 0..MaxTime
    /\ attrs \in [User -> Attrs]
    /\ issued \subseteq Cert
    /\ flagged \subseteq Cert
    /\ index \subseteq Cert
    /\ crl \subseteq Cert
    /\ tokens \subseteq User
    /\ tak \in TakStates
    /\ queue \subseteq User \X BOOLEAN
    /\ op \in [Proc -> OpRecord]
    /\ faults \in 0..MaxFaults
    /\ condemned \subseteq Cert
    /\ revived \subseteq User

\* revoke_all_user_certs (tak_server.py): "Returns True only if every cert was
\* successfully revoked".  A user on the way to fastak_certs_revoked = true has
\* no certificate, of those that existed all along, outside the CRL.
SweepComplete ==
    \A p \in Proc : op[p].pc \in {"mark_read", "mark_write"} =>
        CertsOf(op[p].user) \cap InitIssued \subseteq crl

\* What that answer always covers, whatever the two sources left out: every
\* certificate they listed, one signed a moment ago included, is in the CRL
\* when the user is about to be marked.
ListedRevoked ==
    \A p \in Proc : op[p].pc \in {"mark_read", "mark_write"} =>
        op[p].listed \subseteq crl

\* A certificate is revoked only when its own user was deleted or had expired,
\* or when a request named it: nobody else's sweep takes it along.
OnlyCondemned == index \cup crl \subseteq condemned

\* A user LLDAP shows as done with (fastak_certs_revoked = true, which hides
\* the user from the expiry job for ever) is not active, unless a PATCH wrote
\* is_active true, asked for or read before, between the deactivation of the
\* user and the end of the sweep.
RevokedUserInactive ==
    \A u \in User \ revived : attrs[u].certs_revoked = "true" =>
                                  attrs[u].is_active = "false"

\* revoke_cert_by_name: "Revocation is immediate - TAK Server rejects revoked
\* certs on next connection attempt".  No later revocation takes a serial out
\* of the CRL again.
RevokedStaysRevoked == [][crl \subseteq crl']_vars

\* DD-017: the job "checks for expired users and enforces expiry by
\* deactivating the account".  Every expired user becomes inactive, unless an
\* administrator extends the TTL first, or a PATCH wrote is_active true behind
\* the deactivation: such a user may be marked as revoked and stay active.
ExpiryEnforced ==
    \A u \in User :
        Expired(u) ~> \/ attrs[u].is_active = "false"
                      \/ ~Expired(u)
                      \/ u \in revived

\* scheduler.py: "cert revocation incomplete for %s, will retry".  The retries
\* get somewhere: every expired user's certificates are at some point all
\* revoked and the user marked so.
RevocationConverges ==
    \A u \in User :
        Expired(u) ~> attrs[u].certs_revoked = "true" \/ ~Expired(u)

=============================================================================
