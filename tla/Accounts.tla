------------------------------ MODULE Accounts ------------------------------
(***************************************************************************)
(* Who has an account, in which groups, and with which certificate file:   *)
(* the monitor's requests that create users and service accounts, set      *)
(* their groups and hand out their certificates, and init-identity, the    *)
(* one-shot container that fills LLDAP and is run again on every start.    *)
(*                                                                         *)
(* LLDAP, the certificate directory and the CRL are shared without a lock. *)
(* Every GraphQL mutation and every docker exec is a step of its own; a    *)
(* handler that fails stops where it is and leaves what it has done.       *)
(* Deactivation, expiry and the mechanics of the CRL are UserRevocation's. *)
(***************************************************************************)
EXTENDS Naturals

CONSTANTS
    Person,      \* accounts of people, Webadmin among them
    Service,     \* svc_ accounts the operators create
    Webadmin,    \* the administrator init-identity creates
    Builtin,     \* svc_fasttakapi, which init-identity creates
    Team,        \* groups with the tak_ prefix that list_groups shows
    Made,        \* those of them that operators had made before
    Meant,       \* per tak_ group, the group its listed name is taken for
    RoleAdmin,   \* tak_ROLE_ADMIN
    Gate,        \* ADMIN_GROUP and BACKUP_ADMIN_GROUP: no tak_ prefix
    WebPass,     \* TAK_WEBADMIN_PASSWORD is set
    Request,     \* request handlers that may run at the same time
    Boot,        \* the init-identity container
    None,        \* no account
    FaultKinds,  \* failures the environment produces
    MaxStarts,   \* bound on requests, and bootstraps beside a running monitor
    MaxBoots,    \* bound on the number of bootstraps
    MaxFaults    \* bound on the number of failures

Account == Person \cup Service \cup {Builtin}
Tak     == Team \cup {RoleAdmin}
Group   == Tak \cup Gate
Proc    == Request \cup {Boot}

AccountsAssumption ==
    /\ Webadmin \in Person
    /\ Person \cap Service = {} /\ Builtin \notin Person \cup Service
    /\ RoleAdmin \notin Team /\ Gate \cap Tak = {} /\ Made \subseteq Team
    /\ Meant \in [Tak -> Tak] /\ Meant[RoleAdmin] = RoleAdmin
    /\ WebPass \in BOOLEAN
    /\ Boot \notin Request
    /\ None \notin Account
    /\ MaxStarts \in Nat /\ MaxBoots \in Nat /\ MaxFaults \in Nat

ASSUME AccountsAssumption

VARIABLES
    groups,     \* LLDAP: the groups there are
    users,      \* LLDAP: the accounts there are
    member,     \* LLDAP: per account, its groups
    utype,      \* LLDAP: per account, fastak_user_type
    active,     \* LLDAP: per account, is_active
    schema,     \* LLDAP knows the custom attributes
    files,      \* per account, the certificate files of that name
    crl,        \* serials in ca.crl
    admins,     \* serials registered with certmod -A
    fresh,      \* number of the last key or serial
    booted,     \* init-identity has completed once: the monitor may start
    op,         \* per process, the operation in progress
    starts,     \* requests, and bootstraps beside a running monitor, so far
    boots,      \* bootstraps so far
    faults,     \* failures so far
    wanted,     \* history: per account, the group sets asked for of late, none
                \* when something else has had a hand in its groups
    before,     \* history: per account, its teams when the first was asked for
    cut,        \* history: accounts one of those requests failed for
    misled,     \* history: accounts a request named a group for that is shown
                \* under a name taken for tak_ROLE_ADMIN
    raced,      \* history: accounts two requests created or signed for at
                \* once, or whose type a deletion wrote back from before
    fate,       \* history: how the last creation of an account ended
    served,     \* history: <<account, serial>> pairs that were downloaded
    disturbed   \* history: something interfered with the last bootstrap

ldap    == <<groups, users, member, utype, active, schema>>
ca      == <<files, crl, admins, fresh>>
bounds  == <<booted, starts, boots>>
history == <<raced, served, misled>>
asked   == <<wanted, before, cut>>
vars    == <<ldap, ca, bounds, history, op, faults, asked, fate, disturbed>>

DefaultGroups == {RoleAdmin} \cup Gate

NoFiles == [key |-> 0, pem |-> [serial |-> 0, key |-> 0], p12 |-> 0,
            nodered |-> 0]

Idle == [pc |-> "idle", kind |-> "none", acct |-> None, mode |-> "user",
         ask |-> {}, drop |-> {}, todo |-> {}, missing |-> {}, gone |-> {},
         certs |-> {}, left |-> FALSE, seen |-> 0, crl0 |-> {}, blind |-> FALSE]

\* A new stack, whose LLDAP knows adm_ldapservice only, or one that is started
\* again, with the groups operators had made.  The certificate directory is new.
Init ==
    /\ \/ /\ groups = {} /\ users = {}
          /\ member = [a \in Account |-> {}]
          /\ utype = [a \in Account |-> "none"]
          /\ schema = FALSE
       \/ /\ groups = DefaultGroups \cup Made /\ users = {Webadmin, Builtin}
          /\ member = [a \in Account |-> IF a = Webadmin THEN DefaultGroups ELSE {}]
          /\ utype = [a \in Account |-> IF a = Webadmin THEN "user"
                                       ELSE IF a = Builtin THEN "svc_admin" ELSE "none"]
          /\ schema = TRUE
    /\ active = [a \in Account |-> TRUE]
    /\ files = [a \in Account |-> NoFiles]
    /\ crl = {} /\ admins = {} /\ fresh = 0
    /\ booted = FALSE
    /\ op = [p \in Proc |-> Idle]
    /\ starts = 0 /\ boots = 0 /\ faults = 0
    /\ wanted = [a \in Account |-> {}] /\ before = [a \in Account |-> {}]
    /\ cut = {} /\ misled = {} /\ raced = {} /\ served = {}
    /\ fate = [a \in Account |-> "none"]
    /\ disturbed = FALSE

(***************************************************************************)
(* Building blocks.                                                        *)
(***************************************************************************)
Fault(kind) ==
    /\ kind \in FaultKinds
    /\ faults < MaxFaults
    /\ faults' = faults + 1

Become(p, o) == op' = [op EXCEPT ![p] = o]

\* A handler that raises ends, with what it has done so far in place.
Raise(p) ==
    LET o == op[p]
    IN  /\ Become(p, IF p = Boot THEN [o EXCEPT !.pc = "failed"] ELSE Idle)
        /\ cut' = IF o.kind = "set" THEN cut \cup {o.acct} ELSE cut
        /\ UNCHANGED <<wanted, before, fate>>

\* A request has a hand in what the bootstrap is to establish.
Touches(p) == p # Boot /\ (op[p].acct = Webadmin \/ op[p].missing # {})

\* One GraphQL mutation: it succeeds, or _graphql gives up, whether or not
\* LLDAP has applied it.
Mutation(p, effect, next) ==
    \/ /\ effect
       /\ Become(p, next)
       /\ disturbed' = (disturbed \/ Touches(p))
       /\ UNCHANGED <<faults, asked, fate>>
    \/ /\ Fault("lldap")
       /\ effect \/ UNCHANGED ldap
       /\ Raise(p)
       /\ disturbed' = (disturbed \/ p = Boot \/ Touches(p))

\* A mutation LLDAP answers with an error.
Refused(p) == Raise(p) /\ UNCHANGED <<ldap, faults, disturbed>>

\* A request arrives.  The monitor runs once init-identity has completed.
Arrive(r) ==
    /\ op[r] = Idle
    /\ booted
    /\ starts < MaxStarts
    /\ starts' = starts + 1
    /\ UNCHANGED <<booted, boots, faults, disturbed>>

Working(a, kinds) == \E p \in Proc : op[p].acct = a /\ op[p].kind \in kinds

\* mutant: the role group is listed with the others
ListedAll == groups \cap Tak

\* list_groups: the groups operators may assign.  It takes tak_ off each name,
\* and a request names groups as they are listed: a name stands here for the
\* group that is listed under it.
Listed == groups \cap Team

\* set_user_groups and _ensure_user_groups put tak_ before a name that does not
\* begin with it: tak_tak_X, listed as tak_X, is taken for the group tak_X.
Taken(names) == {Meant[g] : g \in names}

\* The listed name of a group other than the role's that is taken for it.
NamesRole(names) == \E g \in names \ {RoleAdmin} : Meant[g] = RoleAdmin

(***************************************************************************)
(* Groups.  A group that is deleted takes its id along: whoever has looked *)
(* the id up before can do nothing with it any more.                       *)
(***************************************************************************)
CreateGroup(g) ==
    /\ booted
    /\ starts < MaxStarts
    /\ starts' = starts + 1
    /\ g \in Tak \ groups
    /\ groups' = groups \cup {g}
    /\ disturbed' = TRUE
    /\ UNCHANGED <<users, member, utype, active, schema, ca, booted, boots,
                   history, op, faults, asked, fate>>

\* delete_group: get_group shows every tak_ group, the role group included.
DeleteGroup(g) ==
    /\ booted
    /\ starts < MaxStarts
    /\ starts' = starts + 1
    /\ g \in groups \cap Tak
    /\ groups' = groups \ {g}
    /\ member' = [a \in Account |-> member[a] \ {g}]
    /\ op' = [p \in Proc |-> IF op[p].kind = "none" THEN op[p]
                             ELSE [op[p] EXCEPT !.gone = @ \cup {g}]]
    /\ wanted' = [a \in Account |-> {}] /\ before' = [a \in Account |-> {}]
    /\ cut' = {}
    /\ disturbed' = TRUE
    /\ UNCHANGED <<users, utype, active, schema, ca, booted, boots, history,
                   faults, fate>>

\* Where a process goes when the groups it had to deal with are dealt with.
Grouped(o) ==
    IF o.drop # {} THEN [o EXCEPT !.pc = "drop"]
    ELSE IF o.todo # {} THEN [o EXCEPT !.pc = "join"]
    ELSE IF o.kind = "boot" THEN [o EXCEPT !.pc = "type"]
    ELSE IF o.kind = "create" /\ o.mode # "user" THEN [o EXCEPT !.pc = "csr"]
    ELSE Idle

\* _ensure_user_groups creates the groups that were missing when it looked.
\* If somebody else has by now, the reply to the duplicate holds no group id.
MakeGroup(p, g) ==
    /\ op[p].pc = "join"
    /\ g \in op[p].missing
    /\ \/ /\ g \notin groups
          /\ Mutation(p, /\ groups' = groups \cup {g}
                         /\ UNCHANGED <<users, member, utype, active, schema>>,
                      [op[p] EXCEPT !.missing = @ \ {g}, !.gone = @ \ {g}])
       \/ g \in groups /\ Refused(p)
    /\ UNCHANGED <<ca, bounds, history>>

\* addUserToGroup.  An existing membership counts as success.
Join(p, g) ==
    /\ op[p].pc = "join"
    /\ g \in op[p].todo \ op[p].missing
    /\ \/ /\ g \notin op[p].gone
          /\ Mutation(p, /\ member' = [member EXCEPT ![op[p].acct] = @ \cup {g}]
                         /\ UNCHANGED <<groups, users, utype, active, schema>>,
                      Grouped([op[p] EXCEPT !.todo = @ \ {g}]))
       \/ g \in op[p].gone /\ Refused(p)
    /\ UNCHANGED <<ca, bounds, history>>

\* removeUserFromGroup.  A membership that is not there may be an error.
Drop(p, g) ==
    /\ op[p].pc = "drop"
    /\ g \in op[p].drop
    /\ LET next  == Grouped([op[p] EXCEPT !.drop = @ \ {g}])
           there == g \in member[op[p].acct] \ op[p].gone
       IN  \/ /\ there
              /\ Mutation(p,
                    /\ member' = [member EXCEPT ![op[p].acct] = @ \ {g}]
                    /\ UNCHANGED <<groups, users, utype, active, schema>>,
                    next)
           \/ ~there /\ Mutation(p, UNCHANGED ldap, next)
           \/ ~there /\ Refused(p)
    /\ UNCHANGED <<ca, bounds, history>>

(***************************************************************************)
(* PUT /api/users/{id}/groups and PATCH /api/service-accounts/{id}.        *)
(***************************************************************************)
\* The rules for the kind of account, as recorded in fastak_user_type.
GroupsAllowed(a, gs) ==
    /\ utype[a] # "svc_admin"
    /\ gs = {} => a \in Service /\ utype[a] # "svc_data"
    /\ gs \subseteq Listed

SetCheck(r, a, gs) ==
    /\ Arrive(r)
    /\ a \in users \ {Builtin}
    /\ GroupsAllowed(a, gs)
    /\ Become(r, [Idle EXCEPT !.pc = "plan", !.kind = "set", !.acct = a,
                              !.ask = gs])
    /\ LET alone == ~Working(a, {"set", "create"})
       IN  /\ wanted' = [wanted EXCEPT ![a] = IF alone THEN {gs}
                                              ELSE IF @ = {} THEN {}
                                              ELSE @ \cup {gs}]
           /\ before' = IF alone THEN [before EXCEPT ![a] = member[a] \cap Team]
                        ELSE before
           /\ cut' = IF alone THEN cut \ {a} ELSE cut
    /\ misled' = IF NamesRole(gs) THEN misled \cup {a} ELSE misled
    /\ UNCHANGED <<ldap, ca, raced, served, fate>>

\* mutant: every group is removed first, then the desired ones are added
SetPlanAfresh(r) ==
    /\ op[r].pc = "plan"
    /\ LET has == member[op[r].acct] \cap Tak
       IN  Become(r, Grouped([op[r] EXCEPT !.drop = has,
                                           !.todo = Taken(op[r].ask)
                                                      \cap groups,
                                           !.gone = {}]))
    /\ UNCHANGED <<ldap, ca, bounds, history, faults, asked, fate, disturbed>>

\* set_user_groups: one look at the groups and at the user, and from then on
\* the difference between what was seen and what is desired.
SetPlan(r) ==
    /\ op[r].pc = "plan"
    /\ LET has     == member[op[r].acct] \cap Tak
           desired == Taken(op[r].ask)
       IN  Become(r, Grouped([op[r] EXCEPT
                                !.drop = has \ desired,
                                !.todo = (desired \cap groups) \ has,
                                !.gone = {}]))
    /\ UNCHANGED <<ldap, ca, bounds, history, faults, asked, fate, disturbed>>

(***************************************************************************)
(* POST /api/users and POST /api/service-accounts: the account, its type,  *)
(* its groups; for a service account the certificate as well.              *)
(***************************************************************************)
\* validate_groups_for_mode
ModeAllowed(a, mode, gs) ==
    \/ a \in Person /\ mode = "user" /\ gs # {}
    \/ a \in Service /\ mode = "svc_data" /\ gs # {}
    \/ a \in Service /\ mode = "svc_admin" /\ gs = {}

CreateCheck(r, a, mode, gs) ==
    /\ Arrive(r)
    /\ ModeAllowed(a, mode, gs)
    /\ gs \subseteq Listed
    /\ Become(r, [Idle EXCEPT !.pc = "create", !.kind = "create", !.acct = a,
                              !.mode = mode, !.ask = gs])
    /\ raced' = IF Working(a, {"create", "generate"})
                THEN raced \cup {a} ELSE raced
    /\ fate' = [fate EXCEPT ![a] = "none"]
    /\ wanted' = [wanted EXCEPT ![a] = {}]
    /\ before' = [before EXCEPT ![a] = {}]
    /\ cut' = cut \ {a}
    /\ misled' = IF NamesRole(gs) THEN misled \cup {a} ELSE misled
    /\ UNCHANGED <<ldap, ca, served>>

\* createUser.  An account of that name counts as success.
CreateUser(r) ==
    /\ op[r].pc = "create"
    /\ Mutation(r, /\ users' = users \cup {op[r].acct}
                   /\ UNCHANGED <<groups, member, utype, active, schema>>,
                [op[r] EXCEPT !.pc = "attrs"])
    /\ UNCHANGED <<ca, bounds, history>>

\* updateUser with fastak_certs_revoked and fastak_user_type.
CreateAttrs(r) ==
    /\ op[r].pc = "attrs"
    /\ Mutation(r, /\ utype' = [utype EXCEPT ![op[r].acct] = op[r].mode]
                   /\ UNCHANGED <<groups, users, member, active, schema>>,
                [op[r] EXCEPT !.pc = IF op[r].ask = {} THEN "csr" ELSE "ensure"])
    /\ UNCHANGED <<ca, bounds, history>>

\* _ensure_user_groups looks the groups up.
EnsureGroups(r) ==
    /\ op[r].pc = "ensure"
    /\ Become(r, [op[r] EXCEPT !.pc = "join", !.todo = Taken(op[r].ask),
                               !.missing = Taken(op[r].ask) \ groups,
                               !.gone = {}])
    /\ UNCHANGED <<ldap, ca, bounds, history, faults, asked, fate, disturbed>>

(***************************************************************************)
(* Certificate files: generate_client_cert runs three openssl commands,    *)
(* each of which overwrites its file.  A certificate is a serial and the   *)
(* key it was signed for.                                                  *)
(***************************************************************************)
\* A creation that fails at its certificate deactivates the account.
Failed(o) == IF o.kind = "create" THEN [o EXCEPT !.pc = "rollback"] ELSE Idle

\* After the bundle: unencrypted PEMs for Node-RED, or the admin role.
Bundled(o) ==
    IF o.kind = "generate" THEN Idle
    ELSE [o EXCEPT !.pc = IF o.mode = "svc_data" THEN "pems" ELSE "certmod"]

\* One docker exec: it succeeds, or it fails and changes nothing.
Exec(p, effect, next) ==
    /\ \/ effect /\ Become(p, next) /\ UNCHANGED faults
       \/ Fault("docker") /\ Become(p, Failed(op[p])) /\ UNCHANGED ca
    /\ UNCHANGED <<ldap, bounds, history, asked, fate, disturbed>>

Csr(r) ==
    /\ op[r].pc = "csr"
    /\ Exec(r, /\ fresh' = fresh + 1
               /\ files' = [files EXCEPT ![op[r].acct].key = fresh + 1]
               /\ UNCHANGED <<crl, admins>>,
            [op[r] EXCEPT !.pc = "sign"])

Sign(r) ==
    /\ op[r].pc = "sign"
    /\ Exec(r, /\ fresh' = fresh + 1
               /\ files' = [files EXCEPT ![op[r].acct].pem =
                               [serial |-> fresh + 1,
                                key |-> files[op[r].acct].key]]
               /\ UNCHANGED <<crl, admins>>,
            [op[r] EXCEPT !.pc = "p12"])

\* pkcs12 -export refuses a key that is not the certificate's.
Bundle(r) ==
    /\ op[r].pc = "p12"
    /\ LET f == files[op[r].acct]
       IN  IF f.pem.key = f.key
           THEN Exec(r, /\ files' = [files EXCEPT ![op[r].acct].p12 =
                                        f.pem.serial]
                        /\ UNCHANGED <<crl, admins, fresh>>,
                     Bundled(op[r]))
           ELSE Exec(r, UNCHANGED ca, Failed(op[r]))

\* The end of a creation.
End(r, how) ==
    /\ Become(r, Idle)
    /\ fate' = [fate EXCEPT ![op[r].acct] = how]

\* write_nodered_pems, best effort.
WritePems(r) ==
    /\ op[r].pc = "pems"
    /\ \/ /\ files' = [files EXCEPT ![op[r].acct].nodered =
                           files[op[r].acct].p12]
          /\ UNCHANGED faults
       \/ Fault("docker") /\ UNCHANGED files
    /\ End(r, "ready")
    /\ UNCHANGED <<ldap, crl, admins, fresh, bounds, history, asked,
                   disturbed>>

\* mutant: a certificate that could not be registered is let pass
RegisterAdminLenient(r) ==
    /\ op[r].pc = "certmod"
    /\ \/ admins' = admins \cup {files[op[r].acct].pem.serial}
          /\ UNCHANGED faults
       \/ Fault("docker") /\ UNCHANGED admins
    /\ End(r, "ready")
    /\ UNCHANGED <<ldap, files, crl, fresh, bounds, history, asked, disturbed>>

\* mutant: the PEM pair is written whatever the mode
RegisterAdminWithPems(r) ==
    /\ op[r].pc = "certmod"
    /\ admins' = admins \cup {files[op[r].acct].pem.serial}
    /\ files' = [files EXCEPT ![op[r].acct].nodered = files[op[r].acct].p12]
    /\ End(r, "ready")
    /\ UNCHANGED <<ldap, crl, fresh, bounds, history, faults, asked, disturbed>>

\* register_admin_cert: certmod -A on the .pem.
RegisterAdmin(r) ==
    /\ op[r].pc = "certmod"
    /\ \/ /\ admins' = admins \cup {files[op[r].acct].pem.serial}
          /\ End(r, "ready")
          /\ UNCHANGED faults
       \/ /\ Fault("docker")
          /\ Become(r, Failed(op[r]))
          /\ UNCHANGED <<admins, fate>>
    /\ UNCHANGED <<ldap, files, crl, fresh, bounds, history, asked, disturbed>>

\* deactivate_user; an error is logged and forgotten.
Rollback(r) ==
    /\ op[r].pc = "rollback"
    /\ \/ /\ active' = [active EXCEPT ![op[r].acct] = FALSE]
          /\ End(r, "failed")
          /\ UNCHANGED faults
       \/ Fault("lldap") /\ End(r, "none") /\ UNCHANGED active
    /\ UNCHANGED <<groups, users, member, utype, schema, ca, bounds, history,
                   asked, disturbed>>

\* mutant: a certificate of that name is replaced
GenerateCheckBlind(r, a) ==
    /\ Arrive(r)
    /\ a \in users \cap Person
    /\ Become(r, [Idle EXCEPT !.pc = "csr", !.kind = "generate", !.acct = a])
    /\ raced' = IF Working(a, {"create", "generate"})
                THEN raced \cup {a} ELSE raced
    /\ UNCHANGED <<ldap, ca, served, misled, asked, fate>>

\* POST /api/users/{id}/certs/generate: 409 when there is a .p12 of that name.
GenerateCheck(r, a) ==
    /\ Arrive(r)
    /\ a \in users \cap Person
    /\ files[a].p12 = 0
    /\ Become(r, [Idle EXCEPT !.pc = "csr", !.kind = "generate", !.acct = a])
    /\ raced' = IF Working(a, {"create", "generate"})
                THEN raced \cup {a} ELSE raced
    /\ UNCHANGED <<ldap, ca, served, misled, asked, fate>>

\* POST /api/users/{id}/certs/revoke with a name: the serial in the .pem.
RevokeByName(a) ==
    /\ booted
    /\ starts < MaxStarts
    /\ starts' = starts + 1
    /\ a \in users \cap Person
    /\ files[a].pem.serial \notin crl \cup {0}
    /\ crl' = crl \cup {files[a].pem.serial}
    /\ UNCHANGED <<ldap, files, admins, fresh, booted, boots, history, op,
                   faults, asked, fate, disturbed>>

\* DELETE /api/service-accounts/{id}.
DeleteService(r, a) ==
    /\ Arrive(r)
    /\ a \in users \cap Service
    /\ Become(r, [Idle EXCEPT !.pc = "deactivate", !.kind = "delete",
                              !.acct = a])
    /\ UNCHANGED <<ldap, ca, history, asked, fate>>

Deactivate(r) ==
    /\ op[r].pc = "deactivate"
    /\ Mutation(r, /\ active' = [active EXCEPT ![op[r].acct] = FALSE]
                   /\ UNCHANGED <<groups, users, member, utype, schema>>,
                [op[r] EXCEPT !.pc = "list"])
    /\ UNCHANGED <<ca, bounds, history>>

\* The certificates of an account that a file still holds.
Held(a) == {files[a].pem.serial, files[a].p12, files[a].nodered} \ {0}

\* revoke_all_user_certs.  The sweep of the directory looks for files named
\* after the account and a dash, and finds none; certadmin lists what TAK Server
\* happens to know.  Without a TAK client nothing is revoked; one that could not
\* load its certificate raises.
ListCerts(r) ==
    /\ op[r].pc = "list"
    /\ \/ \E listed \in SUBSET Held(op[r].acct), left \in BOOLEAN :
            /\ Become(r, [op[r] EXCEPT !.pc = "revoke", !.certs = listed,
                                       !.left = left])
            /\ IF left THEN Fault("docker") ELSE UNCHANGED faults
       \/ Become(r, [op[r] EXCEPT !.pc = "unpem"]) /\ UNCHANGED faults
       \/ Fault("client") /\ Become(r, Idle)
    /\ UNCHANGED <<ldap, ca, bounds, history, asked, fate, disturbed>>

\* revoke_cert_by_pem.  openssl refuses a serial that is revoked already.
RevokeListed(r, serial) ==
    /\ op[r].pc = "revoke"
    /\ serial \in op[r].certs
    /\ \/ /\ serial \notin crl
          /\ crl' = crl \cup {serial}
          /\ Become(r, [op[r] EXCEPT !.certs = @ \ {serial}])
          /\ UNCHANGED faults
       \/ /\ IF serial \in crl THEN UNCHANGED faults ELSE Fault("docker")
          /\ Become(r, [op[r] EXCEPT !.certs = @ \ {serial}, !.left = TRUE])
          /\ UNCHANGED crl
    /\ UNCHANGED <<ldap, files, admins, fresh, bounds, history, asked, fate,
                   disturbed>>

\* mark_certs_revoked, when all went well, reads the attributes ...
MarkRead(r) ==
    /\ op[r].pc = "revoke"
    /\ op[r].certs = {}
    /\ Become(r, IF op[r].left THEN [op[r] EXCEPT !.pc = "unpem"]
                 ELSE [op[r] EXCEPT !.pc = "mark",
                                    !.mode = utype[op[r].acct]])
    /\ UNCHANGED <<ldap, ca, bounds, history, faults, asked, fate, disturbed>>

\* ... and sends them back with the mark: is_active is false by now, the type
\* may have changed in between.  The mark itself is UserRevocation's.
MarkWrite(r) ==
    /\ op[r].pc = "mark"
    /\ LET a    == op[r].acct
           type == IF op[r].mode = "none" THEN utype[a] ELSE op[r].mode
       IN  /\ Mutation(r, /\ utype' = [utype EXCEPT ![a] = type]
                          /\ UNCHANGED <<groups, users, member, active, schema>>,
                       [op[r] EXCEPT !.pc = "unpem"])
           /\ raced' = IF type # utype[a] THEN raced \cup {a} ELSE raced
    /\ UNCHANGED <<ca, bounds, served, misled>>

\* remove_nodered_pems; its result is ignored.
RemovePems(r) ==
    /\ op[r].pc = "unpem"
    /\ Become(r, Idle)
    /\ \/ /\ files' = [files EXCEPT ![op[r].acct].nodered = 0]
          /\ UNCHANGED faults
       \/ Fault("docker") /\ UNCHANGED files
    /\ UNCHANGED <<ldap, crl, admins, fresh, bounds, history, asked, fate,
                   disturbed>>

(***************************************************************************)
(* Downloads of a .p12: by user, by service account, as a data package.    *)
(***************************************************************************)
Download(r, a) ==
    /\ Arrive(r)
    /\ a \in users \ {Builtin}
    /\ files[a].p12 # 0
    /\ Become(r, [Idle EXCEPT !.pc = "look", !.kind = "download", !.acct = a,
                              !.crl0 = crl])
    /\ UNCHANGED <<ldap, ca, history, asked, fate>>

\* The serial is read from the .pem beside the bundle.
LookSerial(r) ==
    /\ op[r].pc = "look"
    /\ Become(r, [op[r] EXCEPT !.pc = "check",
                               !.seen = files[op[r].acct].pem.serial])
    /\ UNCHANGED <<ldap, ca, bounds, history, faults, asked, fate, disturbed>>

\* mutant: the download goes on whatever the CRL holds
CheckCrlIgnored(r) ==
    /\ op[r].pc = "check"
    /\ Become(r, [op[r] EXCEPT !.pc = "send"])
    /\ UNCHANGED <<ldap, ca, bounds, history, faults, asked, fate, disturbed>>

\* get_revoked_serials: 403 for a serial in ca.crl.  A CRL that cannot be read
\* is an empty one (DD-028).
CheckCrl(r) ==
    /\ op[r].pc = "check"
    /\ \/ /\ op[r].seen \in crl
          /\ Become(r, Idle)
          /\ UNCHANGED faults
       \/ /\ op[r].seen \notin crl
          /\ Become(r, [op[r] EXCEPT !.pc = "send"])
          /\ UNCHANGED faults
       \/ /\ Fault("crl")
          /\ Become(r, [op[r] EXCEPT !.pc = "send", !.blind = TRUE])
    /\ UNCHANGED <<ldap, ca, bounds, history, asked, fate, disturbed>>

\* FileResponse reads the bundle when it is sent.
Send(r) ==
    /\ op[r].pc = "send"
    /\ served' = served \cup {<<op[r].acct, files[op[r].acct].p12>>}
    /\ Become(r, Idle)
    /\ UNCHANGED <<ldap, ca, bounds, raced, misled, faults, asked, fate,
                   disturbed>>

(***************************************************************************)
(* init-identity: custom attributes, groups, webadmin, svc_fasttakapi.     *)
(* Compose does not restart it; the next start.sh runs it again.           *)
(***************************************************************************)
BootStart ==
    /\ op[Boot].pc \in {"idle", "failed", "done"}
    /\ boots < MaxBoots
    /\ boots' = boots + 1
    /\ booted => starts < MaxStarts
    /\ starts' = IF booted THEN starts + 1 ELSE starts
    /\ Become(Boot, [Idle EXCEPT !.pc = "schema", !.kind = "boot",
                                 !.acct = Webadmin, !.todo = DefaultGroups])
    /\ disturbed' = FALSE
    /\ UNCHANGED <<ldap, ca, booted, history, faults, asked, fate>>

\* ensure_custom_attributes; a schema that exists counts as success.
BootSchema ==
    /\ op[Boot].pc = "schema"
    /\ Mutation(Boot, schema' = TRUE /\ UNCHANGED <<groups, users, member,
                                                     utype, active>>,
                [op[Boot] EXCEPT !.pc = "groups"])
    /\ UNCHANGED <<ca, bounds, history>>

\* After the last group: webadmin, if it has a password, else the services.
GroupsEnsured(o) ==
    IF o.todo # {} THEN [o EXCEPT !.pc = "groups"]
    ELSE IF WebPass THEN [o EXCEPT !.pc = "webadmin"]
    ELSE [o EXCEPT !.pc = "service"]

\* ensure_group looks the group up ...
BootLookGroup(g) ==
    /\ op[Boot].pc = "groups"
    /\ g \in op[Boot].todo
    /\ Become(Boot, IF g \in groups
                    THEN GroupsEnsured([op[Boot] EXCEPT !.todo = @ \ {g},
                                                        !.gone = @ \ {g}])
                    ELSE [op[Boot] EXCEPT !.pc = "make", !.missing = {g}])
    /\ UNCHANGED <<ldap, ca, bounds, history, faults, asked, fate, disturbed>>

\* ... and creates it.  The reply to a duplicate has no id: TypeError.
BootMakeGroup(g) ==
    /\ op[Boot].pc = "make"
    /\ g \in op[Boot].missing
    /\ \/ /\ g \notin groups
          /\ Mutation(Boot, /\ groups' = groups \cup {g}
                            /\ UNCHANGED <<users, member, utype, active, schema>>,
                      GroupsEnsured([op[Boot] EXCEPT !.todo = @ \ {g},
                                                     !.gone = @ \ {g},
                                                     !.missing = {}]))
       \/ g \in groups /\ Refused(Boot)
    /\ UNCHANGED <<ca, bounds, history>>

\* mutant: the user is created without looking, and a duplicate is an error
BootWebadminBlind ==
    /\ op[Boot].pc = "webadmin"
    /\ \/ /\ Webadmin \notin users
          /\ Mutation(Boot, /\ users' = users \cup {Webadmin}
                            /\ UNCHANGED <<groups, member, utype, active,
                                           schema>>,
                      [op[Boot] EXCEPT !.pc = "join", !.todo = DefaultGroups])
       \/ Webadmin \in users /\ Refused(Boot)
    /\ UNCHANGED <<ca, bounds, history>>

\* ensure_user (one that exists is left alone) and set_password.
BootWebadmin ==
    /\ op[Boot].pc = "webadmin"
    /\ Mutation(Boot, /\ users' = users \cup {Webadmin}
                      /\ UNCHANGED <<groups, member, utype, active, schema>>,
                [op[Boot] EXCEPT !.pc = "join", !.todo = DefaultGroups])
    /\ UNCHANGED <<ca, bounds, history>>

\* set_user_attribute; the schema is there by now.
SetType(a, type, next) ==
    /\ Mutation(Boot, /\ schema
                      /\ utype' = [utype EXCEPT ![a] = type]
                      /\ UNCHANGED <<groups, users, member, active, schema>>,
                [op[Boot] EXCEPT !.pc = next])
    /\ UNCHANGED <<ca, starts, boots, history>>

BootType ==
    op[Boot].pc = "type" /\ SetType(Webadmin, "user", "service") /\ UNCHANGED booted

BootService ==
    /\ op[Boot].pc = "service"
    /\ Mutation(Boot, /\ users' = users \cup {Builtin}
                      /\ UNCHANGED <<groups, member, utype, active, schema>>,
                [op[Boot] EXCEPT !.pc = "svctype"])
    /\ UNCHANGED <<ca, bounds, history>>

BootServiceType ==
    /\ op[Boot].pc = "svctype"
    /\ SetType(Builtin, "svc_admin", "done")
    /\ booted' = (booted \/ op'[Boot].pc = "done")

(***************************************************************************)
(* Restarts of the monitor and of init-identity.                           *)
(***************************************************************************)
Crash ==
    /\ booted
    /\ Fault("crash")
    /\ op' = [p \in Proc |-> IF p = Boot THEN op[p] ELSE Idle]
    /\ cut' = cut \cup {a \in Account : Working(a, {"set"})}
    /\ UNCHANGED <<ldap, ca, bounds, history, wanted, before, fate, disturbed>>

BootCrash ==
    /\ op[Boot].pc \notin {"idle", "failed", "done"}
    /\ Fault("crash")
    /\ Become(Boot, Idle)
    /\ UNCHANGED <<ldap, ca, bounds, history, asked, fate, disturbed>>

(***************************************************************************)
(* The system.                                                             *)
(***************************************************************************)
Groups(p) ==
    \E g \in Group : MakeGroup(p, g) \/ Join(p, g) \/ Drop(p, g)

BootNext ==
    \/ BootStart \/ BootCrash
    \/ BootSchema
    \/ \E g \in Group : BootLookGroup(g) \/ BootMakeGroup(g)
    \/ BootWebadmin \/ BootType \/ BootService \/ BootServiceType
    \/ Groups(Boot)

ArriveAny(r) ==
    \/ \E a \in Account, gs \in SUBSET Tak :
         \/ SetCheck(r, a, gs)
         \/ \E mode \in {"user", "svc_data", "svc_admin"} :
              CreateCheck(r, a, mode, gs)
    \/ \E a \in Account :
         GenerateCheck(r, a) \/ DeleteService(r, a) \/ Download(r, a)

Step(r) ==
    \/ SetPlan(r) \/ Groups(r)
    \/ CreateUser(r) \/ CreateAttrs(r) \/ EnsureGroups(r)
    \/ Csr(r) \/ Sign(r) \/ Bundle(r)
    \/ WritePems(r) \/ RegisterAdmin(r) \/ Rollback(r)
    \/ Deactivate(r) \/ ListCerts(r)
    \/ \E serial \in op[r].certs : RevokeListed(r, serial)
    \/ MarkRead(r) \/ MarkWrite(r) \/ RemovePems(r)
    \/ LookSerial(r) \/ CheckCrl(r) \/ Send(r)

Next ==
    \/ BootNext
    \/ Crash
    \/ \E g \in Tak : CreateGroup(g) \/ DeleteGroup(g)
    \/ \E a \in Account : RevokeByName(a)
    \/ \E r \in Request : ArriveAny(r) \/ Step(r)

Spec == Init /\ [][Next]_vars

(***************************************************************************)
(* Properties.                                                             *)
(***************************************************************************)
Files == [key : Nat, pem : [serial : Nat, key : Nat], p12 : Nat, nodered : Nat]

Types == {"none", "user", "svc_data", "svc_admin"}

OpRecord ==
    [pc : {"idle", "plan", "drop", "join", "create", "attrs", "ensure", "csr",
           "sign", "p12", "pems", "certmod", "rollback", "deactivate", "list",
           "revoke", "mark", "unpem", "look", "check", "send", "schema",
           "groups", "make", "webadmin", "type", "service", "svctype", "done",
           "failed"},
     kind : {"none", "set", "create", "generate", "delete", "download", "boot"},
     acct : Account \cup {None},
     mode : Types,
     ask : SUBSET Team,
     drop : SUBSET Tak,
     todo : SUBSET Group,
     missing : SUBSET Group,
     gone : SUBSET Tak,
     certs : SUBSET Nat,
     left : BOOLEAN,
     seen : Nat,
     crl0 : SUBSET Nat,
     blind : BOOLEAN]

\* The type invariant.  No request names tak_ROLE_ADMIN itself (list_groups
\* leaves it out), a membership is one of a group and an account that exist, and
\* people are never typed as service accounts.
TypeOK ==
    /\ groups \subseteq Group /\ users \subseteq Account
    /\ member \in [Account -> SUBSET groups]
    /\ \A a \in Account \ users : member[a] = {}
    /\ utype \in [Account -> Types]
    /\ \A a \in Person : utype[a] \in {"none", "user"}
    /\ active \in [Account -> BOOLEAN] /\ schema \in BOOLEAN
    /\ files \in [Account -> Files]
    /\ crl \subseteq Nat /\ admins \subseteq Nat /\ fresh \in Nat
    /\ booted \in BOOLEAN /\ disturbed \in BOOLEAN
    /\ op \in [Proc -> OpRecord]
    /\ starts \in Nat /\ boots \in Nat /\ faults \in Nat
    /\ wanted \in [Account -> SUBSET SUBSET Team]
    /\ before \in [Account -> SUBSET Team]
    /\ cut \subseteq Account /\ misled \subseteq Account
    /\ raced \subseteq Account
    /\ fate \in [Account -> {"none", "ready", "failed"}]
    /\ served \subseteq Account \X Nat

\* What every recent request for the groups of an account asks for.
Agreed(a) == {g \in Team : \A gs \in wanted[a] : g \in gs}

\* The account's recent requests named groups that are taken for themselves.
Plainly(a) == \A g \in UNION wanted[a] : Meant[g] = g

\* set_user_groups: "Replace user's tak_-prefixed groups."  Requests that set
\* one account's groups at the same time may mix, and one of them may fail
\* between its removals and its additions, but a group the account had and all
\* of them ask for is never taken away, which would cut its clients off from
\* it, and no group that nobody asks for is added; when they are through and
\* none has failed, the account is in every group that all of them asked for
\* and in none that nobody did.  (A group listed under a name that is taken for
\* another one is left to the README.)
GroupsAsAsked ==
    \A a \in {b \in Account : wanted[b] # {} /\ Plainly(b)} :
        /\ Agreed(a) \cap before[a] \subseteq member[a]
        /\ member[a] \cap Team \subseteq before[a] \cup UNION wanted[a]
        /\ ~Working(a, {"set", "create"}) /\ a \notin cut =>
              /\ Agreed(a) \subseteq member[a]
              /\ member[a] \cap Team \subseteq UNION wanted[a]

\* DD-026: tak_ROLE_ADMIN "does not appear in group lists, dropdowns, or
\* anywhere operators can assign it".  Whatever is created, assigned, deleted
\* and bootstrapped, only webadmin is ever in it - and accounts a request named
\* a group for that an operator had given a doubled prefix, tak_tak_ROLE_ADMIN:
\* it is listed as tak_ROLE_ADMIN, and that name is taken for the role's group.
RoleReserved ==
    \A a \in Account \ {Webadmin} : RoleAdmin \in member[a] => a \in misled

\* create_service_account: "If certificate generation fails after the LLDAP
\* user is created, the user is automatically rolled back", and a creation that
\* is reported as done has left a bundle of the certificate in the .pem, with
\* the admin role exactly when the account is of that type - also when the
\* account had been created before in the other mode.
ServiceSound ==
    \A a \in Service \ raced :
        /\ fate[a] = "failed" => ~active[a]
        /\ fate[a] = "ready" =>
              /\ files[a].p12 # 0 /\ files[a].p12 = files[a].pem.serial
              /\ utype[a] = "svc_admin" <=> files[a].p12 \in admins

\* write_nodered_pems: the directory mounted into Node-RED holds unencrypted
\* keys of data accounts, never one that carries the admin role.
AdminKeyNotShared ==
    \A a \in Account \ raced : files[a].nodered \notin admins

\* generate_user_cert answers 409 so that no .pem is written over: a
\* certificate a person has downloaded is still in a file that a revocation or
\* a deletion will find, or revoked already.
HandedOutRevocable ==
    \A pair \in served :
        pair[1] \in Person \ raced =>
            pair[2] \in crl \cup {files[pair[1]].pem.serial}

\* DD-028 and the download handlers: "Revoked certificates are blocked from
\* download".  A bundle on its way out was not revoked when the request came,
\* unless the CRL could not be read.  Of a service account this is said of the
\* bundle of the certificate in the .pem: a re-creation that fails between the
\* two leaves a new .pem beside the old bundle.
RevokedNotServed ==
    \A r \in Request :
        LET a == op[r].acct
        IN  /\ op[r].pc = "send" /\ ~op[r].blind /\ a \notin raced
            /\ a \in Service => files[a].p12 = files[a].pem.serial
            => files[a].p12 \notin op[r].crl0

\* What init-identity is there to establish.
Established ==
    /\ schema
    /\ DefaultGroups \subseteq groups
    /\ WebPass => /\ Webadmin \in users
                  /\ DefaultGroups \subseteq member[Webadmin]
                  /\ utype[Webadmin] = "user"
    /\ Builtin \in users /\ utype[Builtin] = "svc_admin"

\* bootstrap.py: "Idempotent - safe to run multiple times."  Whatever earlier
\* bootstraps, cut off anywhere, and requests have left behind, a bootstrap
\* that nothing interferes with completes and leaves everything established.
BootstrapIdempotent ==
    ~disturbed => /\ op[Boot].pc # "failed"
                  /\ op[Boot].pc = "done" => Established

=============================================================================
