-------------------------- MODULE AccountsLdapProofs --------------------------
(***************************************************************************)
(* Proofs about what Accounts writes into LLDAP: that an undisturbed       *)
(* bootstrap completes with everything in place, whatever it finds, and    *)
(* that the groups of an account become those its operators asked for.     *)
(***************************************************************************)
EXTENDS AccountsCertProofs

(***************************************************************************)
(* The bootstrap.                                                          *)
(***************************************************************************)
BootPlaces == {"idle", "schema", "groups", "make", "webadmin", "join", "type",
               "service", "svctype", "done"}

\* What an undisturbed bootstrap at o has established in LLDAP: the groups G,
\* the users U, their memberships M and types T, and the schema.
BootGood(o, G, U, M, T, known) ==
    /\ o.pc \in BootPlaces
    /\ o.gone = {} /\ o.drop = {}
    /\ o.pc # "idle" => o.kind = "boot" /\ o.acct = Webadmin
    /\ o.pc \notin {"idle", "schema"} => known
    /\ o.pc \in {"schema", "groups", "make"} => DefaultGroups \ o.todo \subseteq G
    /\ o.pc = "make" => o.missing \subseteq o.todo \ G
    /\ o.pc # "make" => o.missing = {}
    /\ o.pc \in {"webadmin", "join", "type", "service", "svctype", "done"} =>
           DefaultGroups \subseteq G
    /\ o.pc \in {"webadmin", "join", "type"} => WebPass
    /\ o.pc \in {"join", "type"} => Webadmin \in U
    /\ o.pc = "join" => DefaultGroups \ o.todo \subseteq M[Webadmin]
    /\ o.pc = "type" => DefaultGroups \subseteq M[Webadmin]
    /\ o.pc \in {"service", "svctype", "done"} /\ WebPass =>
           /\ Webadmin \in U /\ DefaultGroups \subseteq M[Webadmin]
           /\ T[Webadmin] = "user"
    /\ o.pc \in {"svctype", "done"} => Builtin \in U
    /\ o.pc = "done" => T[Builtin] = "svc_admin"

BootInv ==
    ~disturbed => BootGood(op[Boot], groups, users, member, utype, schema)

\* Whatever spares webadmin, svc_fasttakapi and the groups, or is recorded.
Spares ==
    \/ disturbed'
    \/ /\ disturbed' = disturbed /\ op'[Boot] = op[Boot]
       /\ groups' = groups /\ users \subseteq users' /\ schema' = schema
       /\ member'[Webadmin] = member[Webadmin]
       /\ \A a \in {Webadmin, Builtin} : utype'[a] = utype[a]

LEMMA SparesBoot == ASSUME BootInv, Spares PROVE BootInv'
<1> SUFFICES ASSUME ~disturbed'
             PROVE  BootGood(op'[Boot], groups', users', member', utype', schema')
  BY DEF BootInv
<1>1. BootGood(op[Boot], groups, users, member, utype, schema)
  BY DEF BootInv, Spares
<1>2. QED
  BY <1>1 DEF Spares, BootGood

LEMMA OthersMove ==
    ASSUME TypeInv, NEW r \in Request, NEW o, Become(r, o)
    PROVE  op'[Boot] = op[Boot]
  BY Sets, AccountsAssumption DEF Become, TypeInv, OpsTyped, AccountsAssumption

LEMMA RaiseMoves ==
    ASSUME TypeInv, NEW r \in Request, Raise(r)
    PROVE  op'[Boot] = op[Boot]
  BY OthersMove DEF Raise

\* A request's mutation of another account, or one that is recorded.
LEMMA MutationSpares ==
    ASSUME TypeInv, NEW r \in Request, NEW o, NEW ACTION effect,
           Mutation(r, effect, o),
           effect /\ ~Touches(r) =>
               /\ groups' = groups /\ users \subseteq users' /\ schema' = schema
               /\ member'[Webadmin] = member[Webadmin]
               /\ \A a \in {Webadmin, Builtin} : utype'[a] = utype[a]
    PROVE  Spares
<1>1. r # Boot
  BY AccountsAssumption DEF AccountsAssumption
<1>2. /\ effect \/ UNCHANGED ldap
      /\ disturbed' = (disturbed \/ Touches(r))
      /\ Become(r, o) \/ Raise(r)
  BY <1>1 DEF Mutation
<1>3. op'[Boot] = op[Boot]
  BY <1>2, OthersMove, RaiseMoves
<1>4. disturbed \in BOOLEAN
  BY DEF TypeInv, OthersTyped
<1>5. CASE Touches(r)
  BY <1>2, <1>5 DEF Spares
<1>6. CASE ~Touches(r)
  BY <1>2, <1>3, <1>4, <1>6 DEF Spares, ldap
<1>7. QED
  BY <1>5, <1>6

LEMMA RefusedSpares ==
    ASSUME TypeInv, NEW r \in Request, Refused(r) PROVE Spares
<1>1. op'[Boot] = op[Boot]
  BY RaiseMoves DEF Refused
<1>2. QED
  BY <1>1 DEF Refused, Spares, ldap

LEMMA GroupsSpare ==
    ASSUME TypeInv, NEW r \in Request, NEW g \in Group,
           MakeGroup(r, g) \/ Join(r, g) \/ Drop(r, g)
    PROVE  Spares
<1> DEFINE o == op[r]
<1>0. (r # Boot /\ o.acct # Webadmin) \/ Touches(r)
  BY AccountsAssumption DEF Touches, AccountsAssumption
<1>1. ASSUME NEW M, member' = [member EXCEPT ![o.acct] = M], ~Touches(r)
      PROVE  member'[Webadmin] = member[Webadmin]
  BY <1>0, <1>1, Sets DEF TypeInv, LdapTyped
<1>2. CASE MakeGroup(r, g)
  <2> DEFINE made == /\ groups' = groups \cup {g}
                     /\ UNCHANGED <<users, member, utype, active, schema>>
             next == [o EXCEPT !.missing = @ \ {g}, !.gone = @ \ {g}]
  <2>1. g \in o.missing /\ (Mutation(r, made, next) \/ Refused(r))
    BY <1>2 DEF MakeGroup
  <2>2. Touches(r)
    BY <2>1, AccountsAssumption DEF Touches, AccountsAssumption
  <2> HIDE DEF made, next
  <2>3. QED
    BY <2>1, <2>2, MutationSpares, RefusedSpares
<1>3. CASE Join(r, g)
  <2> DEFINE joins == /\ member' = [member EXCEPT ![o.acct] = @ \cup {g}]
                      /\ UNCHANGED <<groups, users, utype, active, schema>>
             next == Grouped([o EXCEPT !.todo = @ \ {g}])
  <2>1. Mutation(r, joins, next) \/ Refused(r)
    BY <1>3 DEF Join
  <2>2. joins /\ ~Touches(r) => member'[Webadmin] = member[Webadmin]
    BY <1>1
  <2>3. joins => UNCHANGED <<groups, users, utype, schema>>
    OBVIOUS
  <2> HIDE DEF joins, next
  <2>4. QED
    BY <2>1, <2>2, <2>3, MutationSpares, RefusedSpares
<1>4. CASE Drop(r, g)
  <2> DEFINE leaves == /\ member' = [member EXCEPT ![o.acct] = @ \ {g}]
                       /\ UNCHANGED <<groups, users, utype, active, schema>>
             next == Grouped([o EXCEPT !.drop = @ \ {g}])
  <2>1. \/ Mutation(r, leaves, next) \/ Mutation(r, UNCHANGED ldap, next)
        \/ Refused(r)
    BY <1>4 DEF Drop
  <2>2. leaves /\ ~Touches(r) => member'[Webadmin] = member[Webadmin]
    BY <1>1
  <2>3. leaves => UNCHANGED <<groups, users, utype, schema>>
    OBVIOUS
  <2>4. UNCHANGED ldap => UNCHANGED <<groups, users, member, utype, schema>>
    BY DEF ldap
  <2> HIDE DEF leaves, next
  <2>5. CASE Mutation(r, UNCHANGED ldap, next)
    BY <2>4, <2>5, MutationSpares
  <2>6. QED
    BY <2>1, <2>2, <2>3, <2>5, MutationSpares, RefusedSpares
<1>5. QED
  BY <1>2, <1>3, <1>4

LEMMA CreatesSpare ==
    ASSUME TypeInv, CertInv, NEW r \in Request,
           CreateUser(r) \/ CreateAttrs(r) \/ Deactivate(r) \/ MarkWrite(r)
    PROVE  Spares
<1> DEFINE o == op[r]
<1>0. Touches(r) \/ o.acct # Webadmin
  BY AccountsAssumption DEF Touches, AccountsAssumption
<1>1. CASE CreateUser(r)
  <2> DEFINE made == /\ users' = users \cup {o.acct}
                     /\ UNCHANGED <<groups, member, utype, active, schema>>
             next == [o EXCEPT !.pc = "attrs"]
  <2>1. Mutation(r, made, next)
    BY <1>1 DEF CreateUser
  <2>2. made => /\ UNCHANGED <<groups, member, utype, schema>>
                /\ users \subseteq users'
    OBVIOUS
  <2> HIDE DEF made, next
  <2>3. QED
    BY <2>1, <2>2, MutationSpares
<1>2. CASE CreateAttrs(r)
  <2> DEFINE typed == /\ utype' = [utype EXCEPT ![o.acct] = o.mode]
                      /\ UNCHANGED <<groups, users, member, active, schema>>
             next == [o EXCEPT !.pc = IF o.ask = {} THEN "csr" ELSE "ensure"]
  <2>1. o.pc = "attrs" /\ Mutation(r, typed, next)
    BY <1>2 DEF CreateAttrs
  <2>2. o.acct \in Person \cup Service
    BY <2>1, Signing DEF Shape
  <2>3. o.acct # Builtin
    BY <2>2, AccountsAssumption DEF AccountsAssumption
  <2>4. typed /\ ~Touches(r) => \A a \in {Webadmin, Builtin} : utype'[a] = utype[a]
    BY <1>0, <2>3, Sets DEF TypeInv, LdapTyped
  <2>5. typed => UNCHANGED <<groups, users, member, schema>>
    OBVIOUS
  <2> HIDE DEF typed, next
  <2>6. QED
    BY <2>1, <2>4, <2>5, MutationSpares
<1>3. CASE Deactivate(r)
  <2> DEFINE made == /\ active' = [active EXCEPT ![o.acct] = FALSE]
                     /\ UNCHANGED <<groups, users, member, utype, schema>>
             next == [o EXCEPT !.pc = "list"]
  <2>1. Mutation(r, made, next)
    BY <1>3 DEF Deactivate
  <2>2. made => UNCHANGED <<groups, users, member, utype, schema>>
    OBVIOUS
  <2> HIDE DEF made, next
  <2>3. QED
    BY <2>1, <2>2, MutationSpares
<1>4. CASE MarkWrite(r)
  <2> DEFINE type == IF o.mode = "none" THEN utype[o.acct] ELSE o.mode
             typed == /\ utype' = [utype EXCEPT ![o.acct] = type]
                      /\ UNCHANGED <<groups, users, member, active, schema>>
             next == [o EXCEPT !.pc = "unpem"]
  <2>1. o.pc = "mark" /\ Mutation(r, typed, next)
    BY <1>4 DEF MarkWrite
  <2>2. o.acct \in Service
    BY <2>1, Sets, OpOf DEF Holds
  <2>3. o.acct # Webadmin /\ o.acct # Builtin
    BY <2>2, AccountsAssumption DEF AccountsAssumption
  <2>4. typed => \A a \in {Webadmin, Builtin} : utype'[a] = utype[a]
    BY <2>3, Sets DEF TypeInv, LdapTyped
  <2>5. typed => UNCHANGED <<groups, users, member, schema>>
    OBVIOUS
  <2> HIDE DEF typed, next
  <2>6. QED
    BY <2>1, <2>4, <2>5, MutationSpares
<1>5. QED
  BY <1>1, <1>2, <1>3, <1>4

\* Steps that have nothing to do with LLDAP.
LEMMA AsideSpares ==
    ASSUME TypeInv, NEW r \in Request, NEW o, Become(r, o),
           UNCHANGED <<groups, users, member, utype, schema, disturbed>>
    PROVE  Spares
BY OthersMove DEF Spares

LEMMA ExecSpares ==
    ASSUME TypeInv, NEW r \in Request, Csr(r) \/ Sign(r) \/ Bundle(r)
    PROVE  Spares
<1>1. ASSUME NEW ACTION effect, NEW o, Exec(r, effect, o) PROVE Spares
  BY <1>1, AsideSpares DEF Exec, ldap
<1>2. QED
  BY <1>1 DEF Csr, Sign, Bundle

LEMMA LocalSpares ==
    ASSUME TypeInv, NEW r \in Request,
           \/ WritePems(r) \/ RegisterAdmin(r) \/ Rollback(r) \/ RemovePems(r)
           \/ \E serial \in op[r].certs : RevokeListed(r, serial)
           \/ ListCerts(r) \/ MarkRead(r)
           \/ SetPlan(r) \/ EnsureGroups(r)
           \/ LookSerial(r) \/ CheckCrl(r) \/ Send(r)
    PROVE  Spares
<1>1. CASE WritePems(r) \/ RegisterAdmin(r) \/ Rollback(r) \/ RemovePems(r)
  BY <1>1, AsideSpares DEF WritePems, RegisterAdmin, Rollback, RemovePems, End, ldap
<1>2. CASE SetPlan(r) \/ EnsureGroups(r)
  BY <1>2, AsideSpares DEF SetPlan, EnsureGroups, ldap
<1>3. CASE LookSerial(r) \/ CheckCrl(r) \/ Send(r)
  BY <1>3, AsideSpares DEF LookSerial, CheckCrl, Send, ldap
<1>4. CASE \/ \E serial \in op[r].certs : RevokeListed(r, serial)
           \/ ListCerts(r) \/ MarkRead(r)
  BY <1>4, AsideSpares DEF ListCerts, RevokeListed, MarkRead, ldap
<1>5. QED
  BY <1>1, <1>2, <1>3, <1>4

LEMMA ArrivalSpares ==
    ASSUME TypeInv, NEW r \in Request, ArriveAny(r) PROVE Spares
<1>1. ASSUME NEW a \in Account, NEW gs, SetCheck(r, a, gs) PROVE Spares
  BY <1>1, AsideSpares DEF SetCheck, Arrive, ldap
<1>2. ASSUME NEW a \in Account, NEW gs, NEW mode, CreateCheck(r, a, mode, gs)
      PROVE  Spares
  BY <1>2, AsideSpares DEF CreateCheck, Arrive, ldap
<1>3. ASSUME NEW a \in Account,
             GenerateCheck(r, a) \/ DeleteService(r, a) \/ Download(r, a)
      PROVE  Spares
  BY <1>3, AsideSpares DEF GenerateCheck, DeleteService, Download, Arrive, ldap
<1>4. QED
  BY <1>1, <1>2, <1>3 DEF ArriveAny

LEMMA RestSpares ==
    ASSUME TypeInv,
           \/ Crash \/ UNCHANGED vars \/ \E a \in Account : RevokeByName(a)
           \/ \E g \in Tak : CreateGroup(g) \/ DeleteGroup(g)
    PROVE  Spares
<1>1. CASE Crash
  BY <1>1, Sets DEF Crash, Spares, ldap
<1>2. CASE UNCHANGED vars \/ \E a \in Account : RevokeByName(a)
  BY <1>2 DEF vars, RevokeByName, Spares, ldap
<1>3. CASE \E g \in Tak : CreateGroup(g) \/ DeleteGroup(g)
  BY <1>3 DEF CreateGroup, DeleteGroup, Spares
<1>4. QED
  BY <1>1, <1>2, <1>3

LEMMA OthersSpare ==
    ASSUME TypeInv, CertInv, [Next]_vars, ~BootNext PROVE Spares
<1>1. ASSUME NEW r \in Request, Step(r) PROVE Spares
  <2>1. CASE Groups(r)
    BY <2>1, GroupsSpare DEF Groups
  <2>2. CASE CreateUser(r) \/ CreateAttrs(r) \/ Deactivate(r) \/ MarkWrite(r)
    BY <2>2, CreatesSpare
  <2>3. CASE Csr(r) \/ Sign(r) \/ Bundle(r)
    BY <2>3, ExecSpares
  <2>4. QED
    BY <1>1, <2>1, <2>2, <2>3, LocalSpares DEF Step
<1>2. QED
  BY <1>1, ArrivalSpares, RestSpares DEF Next

(***************************************************************************)
(* Its own steps.                                                          *)
(***************************************************************************)
LEMMA BootMoves ==
    ASSUME TypeInv, NEW o, Become(Boot, o),
           ~disturbed' => BootGood(o, groups', users', member', utype', schema')
    PROVE  BootInv'
<1>1. op'[Boot] = o
  BY Sets DEF Become, TypeInv, OpsTyped
<1>2. QED
  BY <1>1 DEF BootInv

\* A mutation that fails disturbs the bootstrap.
LEMMA BootMutates ==
    ASSUME TypeInv, NEW o, NEW ACTION effect, Mutation(Boot, effect, o),
           effect /\ ~disturbed =>
               BootGood(o, groups', users', member', utype', schema')
    PROVE  BootInv'
<1>1. CASE effect /\ Become(Boot, o) /\ disturbed' = (disturbed \/ Touches(Boot))
  <2>1. ~disturbed' => ~disturbed
    BY <1>1
  <2>2. QED
    BY <1>1, <2>1, BootMoves
<1>2. CASE disturbed' = (disturbed \/ Boot = Boot \/ Touches(Boot))
  BY <1>2 DEF BootInv
<1>3. QED
  BY <1>1, <1>2 DEF Mutation

\* The record of an undisturbed bootstrap.
LEMMA BootOp ==
    ASSUME TypeInv, BootInv
    PROVE  /\ op[Boot] \in OpRecord /\ Holds(op[Boot], users, groups, misled)
           /\ ~disturbed => BootGood(op[Boot], groups, users, member, utype, schema)
BY OpOf, Sets DEF BootInv

LEMMA BootStartGood == ASSUME TypeInv, BootStart PROVE BootInv'
<1> DEFINE o == [Idle EXCEPT !.pc = "schema", !.kind = "boot",
                             !.acct = Webadmin, !.todo = DefaultGroups]
<1>1. Become(Boot, o)
  BY DEF BootStart
<1>2. /\ o.pc = "schema" /\ o.kind = "boot" /\ o.acct = Webadmin
      /\ o.todo = DefaultGroups /\ o.missing = {} /\ o.gone = {} /\ o.drop = {}
  BY DEF Idle
<1> HIDE DEF o
<1>3. BootGood(o, groups', users', member', utype', schema')
  BY <1>2 DEF BootGood, BootPlaces
<1>4. QED
  BY <1>1, <1>3, BootMoves

LEMMA BootCrashGood == ASSUME TypeInv, BootCrash PROVE BootInv'
<1>1. Become(Boot, Idle)
  BY DEF BootCrash
<1>2. BootGood(Idle, groups', users', member', utype', schema')
  BY DEF BootGood, BootPlaces, Idle
<1>3. QED
  BY <1>1, <1>2, BootMoves

LEMMA BootSchemaGood == ASSUME TypeInv, BootInv, BootSchema PROVE BootInv'
<1> DEFINE o == op[Boot]
           next == [o EXCEPT !.pc = "groups"]
           made == schema' = TRUE /\ UNCHANGED <<groups, users, member, utype, active>>
<1>1. o.pc = "schema" /\ Mutation(Boot, made, next)
  BY DEF BootSchema
<1>2. made /\ ~disturbed => BootGood(next, groups', users', member', utype', schema')
  BY <1>1, BootOp DEF BootGood, BootPlaces, OpRecord
<1> HIDE DEF made, next
<1>3. QED
  BY <1>1, <1>2, BootMutates

\* After a group that was there or is made.
LEMMA EnsuredBoot ==
    ASSUME NEW o \in OpRecord, NEW G, NEW U, NEW M, NEW T,
           o.gone = {}, o.drop = {}, o.missing = {}, o.kind = "boot",
           o.acct = Webadmin, DefaultGroups \ o.todo \subseteq G
    PROVE  BootGood(GroupsEnsured(o), G, U, M, T, TRUE)
<1>1. BootGood([o EXCEPT !.pc = "groups"], G, U, M, T, TRUE)
  BY DEF BootGood, BootPlaces, OpRecord
<1>2. o.todo = {} /\ WebPass => BootGood([o EXCEPT !.pc = "webadmin"], G, U, M, T, TRUE)
  BY DEF BootGood, BootPlaces, OpRecord
<1>3. o.todo = {} /\ ~WebPass => BootGood([o EXCEPT !.pc = "service"], G, U, M, T, TRUE)
  BY DEF BootGood, BootPlaces, OpRecord
<1>4. QED
  BY <1>1, <1>2, <1>3 DEF GroupsEnsured

LEMMA BootLookGroupGood ==
    ASSUME TypeInv, BootInv, NEW g \in Group, BootLookGroup(g) PROVE BootInv'
<1> DEFINE o == op[Boot]
           x == [o EXCEPT !.todo = @ \ {g}, !.gone = @ \ {g}]
           y == [o EXCEPT !.pc = "make", !.missing = {g}]
<1>1. /\ o.pc = "groups" /\ g \in o.todo
      /\ Become(Boot, IF g \in groups THEN GroupsEnsured(x) ELSE y)
      /\ UNCHANGED <<groups, users, member, utype, schema, disturbed>>
  BY DEF BootLookGroup, ldap
<1>2. ASSUME ~disturbed, g \in groups
      PROVE  BootGood(GroupsEnsured(x), groups, users, member, utype, schema)
  <2>1. BootGood(o, groups, users, member, utype, schema) /\ o \in OpRecord
    BY <1>2, BootOp
  <2>2. /\ x \in OpRecord /\ x.gone = {} /\ x.drop = {} /\ x.missing = {}
        /\ x.kind = "boot" /\ x.acct = Webadmin
        /\ DefaultGroups \ x.todo \subseteq groups
    BY <1>1, <1>2, <2>1 DEF BootGood, OpRecord
  <2>3. schema = TRUE
    BY <1>1, <2>1 DEF BootGood, TypeInv, LdapTyped
  <2> HIDE DEF x
  <2>4. QED
    BY <2>2, <2>3, EnsuredBoot
<1>3. ASSUME ~disturbed, g \notin groups
      PROVE  BootGood(y, groups, users, member, utype, schema)
  BY <1>1, <1>3, BootOp DEF BootGood, BootPlaces, OpRecord
<1> HIDE DEF x, y
<1>4. CASE g \in groups
  BY <1>1, <1>2, <1>4, BootMoves
<1>5. CASE g \notin groups
  BY <1>1, <1>3, <1>5, BootMoves
<1>6. QED
  BY <1>4, <1>5

\* The duplicate that ensure_group fails at needs somebody else to create the
\* group between its look and its mutation.
LEMMA BootMakeGroupGood ==
    ASSUME TypeInv, BootInv, NEW g \in Group, BootMakeGroup(g) PROVE BootInv'
<1> DEFINE o == op[Boot]
           x == [o EXCEPT !.todo = @ \ {g}, !.gone = @ \ {g}, !.missing = {}]
           made == /\ groups' = groups \cup {g}
                   /\ UNCHANGED <<users, member, utype, active, schema>>
<1>1. /\ o.pc = "make" /\ g \in o.missing
      /\ Mutation(Boot, made, GroupsEnsured(x)) \/ (g \in groups /\ Refused(Boot))
  BY DEF BootMakeGroup
<1>2. ASSUME made, ~disturbed
      PROVE  BootGood(GroupsEnsured(x), groups', users', member', utype', schema')
  <2>1. BootGood(o, groups, users, member, utype, schema) /\ o \in OpRecord
    BY <1>2, BootOp
  <2>2. /\ x \in OpRecord /\ x.gone = {} /\ x.drop = {} /\ x.missing = {}
        /\ x.kind = "boot" /\ x.acct = Webadmin
        /\ DefaultGroups \ x.todo \subseteq groups'
    BY <1>1, <1>2, <2>1 DEF BootGood, OpRecord
  <2>3. schema' = TRUE
    BY <1>1, <1>2, <2>1 DEF BootGood, TypeInv, LdapTyped
  <2> HIDE DEF x
  <2>4. QED
    BY <2>2, <2>3, EnsuredBoot
<1> HIDE DEF x, made
<1>3. CASE Mutation(Boot, made, GroupsEnsured(x))
  BY <1>2, <1>3, BootMutates
<1>4. CASE g \in groups /\ Refused(Boot)
  BY <1>1, <1>4, BootOp DEF BootGood, Refused, BootInv
<1>5. QED
  BY <1>1, <1>3, <1>4

LEMMA BootWebadminGood == ASSUME TypeInv, BootInv, BootWebadmin PROVE BootInv'
<1> DEFINE o == op[Boot]
           next == [o EXCEPT !.pc = "join", !.todo = DefaultGroups]
           made == /\ users' = users \cup {Webadmin}
                   /\ UNCHANGED <<groups, member, utype, active, schema>>
<1>1. o.pc = "webadmin" /\ Mutation(Boot, made, next)
  BY DEF BootWebadmin
<1>2. made /\ ~disturbed => BootGood(next, groups', users', member', utype', schema')
  BY <1>1, BootOp DEF BootGood, BootPlaces, OpRecord
<1> HIDE DEF made, next
<1>3. QED
  BY <1>1, <1>2, BootMutates

\* It creates no groups by the way and takes none away.
LEMMA BootGroupsGood ==
    ASSUME TypeInv, BootInv, Groups(Boot) PROVE BootInv'
<1> DEFINE o == op[Boot]
<1>1. PICK g \in Group : MakeGroup(Boot, g) \/ Join(Boot, g) \/ Drop(Boot, g)
  BY DEF Groups
<1> DEFINE x == [o EXCEPT !.todo = @ \ {g}]
           joins == /\ member' = [member EXCEPT ![o.acct] = @ \cup {g}]
                    /\ UNCHANGED <<groups, users, utype, active, schema>>
<1>2. CASE disturbed
  BY <1>1, <1>2 DEF MakeGroup, Join, Drop, Mutation, Refused, BootInv
<1>3. CASE ~disturbed
  <2>1. BootGood(o, groups, users, member, utype, schema) /\ o \in OpRecord
    BY <1>3, BootOp
  <2>2. /\ o.pc = "join" /\ o.missing = {} /\ o.gone = {} /\ o.drop = {}
        /\ o.acct = Webadmin /\ o.kind = "boot" /\ g \in o.todo
        /\ Mutation(Boot, joins, Grouped(x))
    BY <1>1, <2>1 DEF BootGood, MakeGroup, Join, Drop
  <2>3. ASSUME joins
        PROVE  /\ x.todo # {} =>
                     BootGood([x EXCEPT !.pc = "join"], groups', users', member',
                              utype', schema')
               /\ x.todo = {} =>
                     BootGood([x EXCEPT !.pc = "type"], groups', users', member',
                              utype', schema')
    <3>1. member'[Webadmin] = member[Webadmin] \cup {g}
      BY <2>2, <2>3, Sets DEF TypeInv, LdapTyped
    <3>2. UNCHANGED <<groups, users, utype, schema>>
      BY <2>3
    <3> HIDE DEF joins
    <3>3. QED
      BY <2>1, <2>2, <3>1, <3>2 DEF BootGood, BootPlaces, OpRecord
  <2>4. x.drop = {} /\ x.kind = "boot"
    BY <2>1, <2>2 DEF OpRecord
  <2> HIDE DEF joins, x
  <2>5. joins => BootGood(Grouped(x), groups', users', member', utype', schema')
    BY <2>3, <2>4 DEF Grouped
  <2>6. QED
    BY <2>2, <2>5, BootMutates
<1>4. QED
  BY <1>2, <1>3

LEMMA BootTypesGood ==
    ASSUME TypeInv, BootInv, BootType \/ BootService \/ BootServiceType
    PROVE  BootInv'
<1> DEFINE o == op[Boot]
<1>1. CASE BootType
  <2> DEFINE next == [o EXCEPT !.pc = "service"]
             made == /\ schema
                     /\ utype' = [utype EXCEPT ![Webadmin] = "user"]
                     /\ UNCHANGED <<groups, users, member, active, schema>>
  <2>1. o.pc = "type" /\ Mutation(Boot, made, next)
    BY <1>1 DEF BootType, SetType
  <2>2. made => utype'[Webadmin] = "user"
    BY Sets DEF TypeInv, LdapTyped
  <2>3. made /\ ~disturbed => BootGood(next, groups', users', member', utype', schema')
    BY <2>1, <2>2, BootOp DEF BootGood, BootPlaces, OpRecord
  <2> HIDE DEF made, next
  <2>4. QED
    BY <2>1, <2>3, BootMutates
<1>2. CASE BootService
  <2> DEFINE next == [o EXCEPT !.pc = "svctype"]
             made == /\ users' = users \cup {Builtin}
                     /\ UNCHANGED <<groups, member, utype, active, schema>>
  <2>1. o.pc = "service" /\ Mutation(Boot, made, next)
    BY <1>2 DEF BootService
  <2>2. made /\ ~disturbed => BootGood(next, groups', users', member', utype', schema')
    BY <2>1, BootOp DEF BootGood, BootPlaces, OpRecord
  <2> HIDE DEF made, next
  <2>3. QED
    BY <2>1, <2>2, BootMutates
<1>3. CASE BootServiceType
  <2> DEFINE next == [o EXCEPT !.pc = "done"]
             made == /\ schema
                     /\ utype' = [utype EXCEPT ![Builtin] = "svc_admin"]
                     /\ UNCHANGED <<groups, users, member, active, schema>>
  <2>1. o.pc = "svctype" /\ Mutation(Boot, made, next)
    BY <1>3 DEF BootServiceType, SetType
  <2>2. made => utype'[Builtin] = "svc_admin" /\ utype'[Webadmin] = utype[Webadmin]
    BY Sets DEF TypeInv, LdapTyped
  <2>3. made /\ ~disturbed => BootGood(next, groups', users', member', utype', schema')
    BY <2>1, <2>2, BootOp DEF BootGood, BootPlaces, OpRecord
  <2> HIDE DEF made, next
  <2>4. QED
    BY <2>1, <2>3, BootMutates
<1>4. QED
  BY <1>1, <1>2, <1>3

LEMMA BootStep == TypeInv /\ CertInv /\ BootInv /\ [Next]_vars => BootInv'
<1> SUFFICES ASSUME TypeInv, CertInv, BootInv, [Next]_vars PROVE BootInv'
  OBVIOUS
<1>1. CASE BootStart \/ BootCrash
  BY <1>1, BootStartGood, BootCrashGood
<1>2. CASE BootSchema \/ BootWebadmin \/ Groups(Boot)
  BY <1>2, BootSchemaGood, BootWebadminGood, BootGroupsGood
<1>3. ASSUME NEW g \in Group, BootLookGroup(g) \/ BootMakeGroup(g) PROVE BootInv'
  BY <1>3, BootLookGroupGood, BootMakeGroupGood
<1>4. CASE BootType \/ BootService \/ BootServiceType
  BY <1>4, BootTypesGood
<1>5. CASE ~BootNext
  BY <1>5, OthersSpare, SparesBoot
<1>6. QED
  BY <1>1, <1>2, <1>3, <1>4, <1>5 DEF BootNext

\* bootstrap.py, "Idempotent - safe to run multiple times": from whatever
\* earlier bootstraps and requests have left in LLDAP, a bootstrap that nothing
\* interferes with never fails, and when it is done the attributes, the
\* groups, webadmin and svc_fasttakapi are all there.
THEOREM BootstrapsEstablish == Spec => []BootstrapIdempotent
<1>1. Init => BootInv
  BY Sets DEF Init, BootInv, BootGood, BootPlaces, Idle
<1>2. BootInv => BootstrapIdempotent
  BY DEF BootInv, BootGood, BootPlaces, BootstrapIdempotent, Established
<1>3. QED
  BY <1>1, <1>2, CertInvariant, BootStep, PTL DEF Spec

(***************************************************************************)
(* The groups operators set.                                               *)
(***************************************************************************)
\* Groups that all of the sets W hold.
InAll(W) == {g \in Team : \A gs \in W : g \in gs}

\* There is something to be claimed: sets have been asked for, and of groups
\* that are taken for themselves.
Claims(W) == W # {} /\ \A g \in UNION W : Meant[g] = g

\* M holds what all asked for, and no team that nobody asked for.
Settled(W, M) == InAll(W) \subseteq M /\ M \cap Team \subseteq UNION W

\* A request between its check and its last mutation: it takes away nothing
\* all asked for, and has yet to add what of that is not there, and yet to
\* take away what nobody asked for.
SetGood(o, W, M, G) ==
    /\ o.ask \in W /\ o.ask \subseteq G
    /\ o.missing = {} /\ o.gone = {}
    /\ o.drop \cap o.ask = {} /\ o.todo \subseteq o.ask
    /\ o.pc # "plan" => /\ InAll(W) \subseteq M \cup o.todo
                        /\ M \cap Team \subseteq (UNION W) \cup o.drop

\* What the requests have done so far to the teams B there were.
Between(W, B, M) ==
    /\ InAll(W) \cap B \subseteq M
    /\ M \cap Team \subseteq B \cup UNION W

\* Which operations look at, give and take away groups.
Kinds(o) ==
    /\ o.pc = "plan" => o.kind = "set"
    /\ o.pc = "join" => o.kind \in {"set", "create", "boot"}
    /\ o.kind = "set" => o.pc \in {"plan", "drop", "join"}
    /\ o.kind # "set" => o.drop = {}
    /\ o.kind = "boot" => o.todo \cap Team = {}

Setting(o, a) == o.acct = a /\ o.kind \in {"set", "create"}

AccountGood(a) ==
    /\ \A p \in Proc : op[p].acct = a => op[p].kind # "create"
    /\ \A p \in Proc : op[p].acct = a /\ op[p].kind = "set" =>
           SetGood(op[p], wanted[a], member[a], groups)
    /\ Between(wanted[a], before[a], member[a])
    /\ Working(a, {"set"}) \/ a \in cut \/ Settled(wanted[a], member[a])

GroupsInv ==
    /\ \A p \in Proc : Kinds(op[p])
    /\ \A a \in Account : Claims(wanted[a]) => AccountGood(a)

LEMMA IdleKinds == Kinds(Idle) /\ \A a : ~Setting(Idle, a)
  BY DEF Idle, Kinds, Setting

\* The history says the same of a; a request for its groups may have failed.
SameAsked(a) ==
    /\ wanted'[a] = wanted[a] /\ before'[a] = before[a]
    /\ a \in cut => a \in cut'

LEMMA AskedSame ==
    UNCHANGED asked => wanted' = wanted /\ \A a : SameAsked(a)
  BY DEF asked, SameAsked

\* What nobody can tell the difference of, as far as a's groups go.
LEMMA SameAccount ==
    ASSUME NEW a \in Account, AccountGood(a), SameAsked(a),
           member'[a] \cap Team = member[a] \cap Team, groups \subseteq groups',
           \A p \in Proc : \/ op'[p] = op[p]
                           \/ ~Setting(op[p], a) /\ ~Setting(op'[p], a)
    PROVE  AccountGood(a)'
<1> DEFINE W == wanted[a]
           M == member[a]
<1>1. \A p \in Proc : Setting(op'[p], a) => op'[p] = op[p]
  OBVIOUS
<1>2. \A p \in Proc : op'[p].acct = a => op'[p].kind # "create"
  BY <1>1 DEF AccountGood, Setting
<1>3. \A x \in Team : x \in member'[a] <=> x \in M
  OBVIOUS
<1>4. Settled(W, M) => Settled(W, member'[a])
  BY <1>3 DEF Settled, InAll
<1>5. ASSUME NEW p \in Proc, op'[p].acct = a, op'[p].kind = "set"
      PROVE  SetGood(op'[p], W, member'[a], groups')
  <2>1. op'[p] = op[p] /\ SetGood(op[p], W, M, groups)
    BY <1>1, <1>5 DEF AccountGood, Setting
  <2>2. QED
    BY <1>3, <2>1 DEF SetGood, InAll
<1>6. Working(a, {"set"}) => \E p \in Proc : op'[p].acct = a /\ op'[p].kind \in {"set"}
  BY DEF Working, Setting
<1>7. Between(W, before[a], member'[a])
  BY <1>3 DEF AccountGood, Between, InAll
<1>8. QED
  BY <1>2, <1>4, <1>5, <1>6, <1>7 DEF AccountGood, Working, SameAsked

\* One process moves, and what it does concerns accounts only of which nothing
\* is claimed.
LEMMA OneMoves ==
    ASSUME TypeInv, GroupsInv, NEW p \in Proc, NEW x, Become(p, x), Kinds(x),
           groups \subseteq groups',
           \A a \in Account :
              \/ ~Claims(wanted'[a])
              \/ /\ SameAsked(a)
                 /\ member'[a] \cap Team = member[a] \cap Team
                 /\ ~Setting(op[p], a) /\ ~Setting(x, a)
    PROVE  GroupsInv'
<1>1. op'[p] = x /\ \A q \in Proc \ {p} : op'[q] = op[q]
  BY DEF Become, TypeInv, OpsTyped
<1>2. \A q \in Proc : Kinds(op[q])'
  BY <1>1 DEF GroupsInv, Kinds
<1>3. ASSUME NEW a \in Account, Claims(wanted'[a]) PROVE AccountGood(a)'
  <2>1. Claims(wanted[a])
    BY <1>3 DEF SameAsked
  <2>2. QED
    BY <1>1, <1>3, <2>1, SameAccount DEF GroupsInv
<1>4. QED
  BY <1>2, <1>3 DEF GroupsInv, Claims

\* A process that does not set groups.
LEMMA NotSetting ==
    ASSUME TypeInv, GroupsInv, NEW p \in Proc, op[p].kind # "set",
           NEW x, Become(p, x), Kinds(x),
           x = Idle \/ (x.acct = op[p].acct /\ x.kind = op[p].kind),
           \A a \in Account : SameAsked(a), groups \subseteq groups',
           \A a \in Account : \/ member'[a] \cap Team = member[a] \cap Team
                              \/ a = op[p].acct /\ op[p].kind = "create"
    PROVE  GroupsInv'
<1>1. ASSUME NEW a \in Account, Claims(wanted[a])
      PROVE  ~Setting(op[p], a) /\ ~Setting(x, a)
  BY <1>1, IdleKinds DEF GroupsInv, AccountGood, Setting
<1>2. ASSUME NEW a \in Account, Claims(wanted[a])
      PROVE  member'[a] \cap Team = member[a] \cap Team
  BY <1>1, <1>2 DEF Setting
<1>3. \A a \in Account : Claims(wanted'[a]) => Claims(wanted[a])
  BY DEF SameAsked
<1>4. QED
  BY <1>1, <1>2, <1>3, OneMoves

\* One that sets groups of which nothing is claimed.
LEMMA Unclaimed ==
    ASSUME TypeInv, GroupsInv, NEW p \in Proc, ~Claims(wanted'[op[p].acct]),
           NEW x, Become(p, x), Kinds(x),
           x = Idle \/ (x.acct = op[p].acct /\ x.kind = op[p].kind),
           groups \subseteq groups',
           \A a \in Account \ {op[p].acct} :
              SameAsked(a) /\ member'[a] \cap Team = member[a] \cap Team
    PROVE  GroupsInv'
BY OneMoves, IdleKinds DEF Setting

\* What all asked for stays, and what comes somebody asked for.
LEMMA SetKeeps ==
    ASSUME NEW o, NEW W, NEW M, NEW N, NEW G, NEW H,
           SetGood(o, W, M, G), InAll(W) \cap M \subseteq N,
           N \cap Team \subseteq M \cup UNION W, G \subseteq H
    PROVE  SetGood(o, W, N, H)
BY DEF SetGood

\* A request that sets groups of an account of which something is claimed.  It
\* goes on, is through, or fails.
LEMMA SetSteps ==
    ASSUME TypeInv, GroupsInv, NEW p \in Proc, NEW a \in Account,
           op[p].acct = a, op[p].kind = "set", Claims(wanted[a]),
           NEW x, Become(p, x), Kinds(x), groups \subseteq groups',
           \A b \in Account : SameAsked(b),
           \A b \in Account \ {a} : member'[b] \cap Team = member[b] \cap Team,
           InAll(wanted[a]) \cap member[a] \subseteq member'[a],
           member'[a] \cap Team \subseteq member[a] \cup UNION wanted[a],
           \/ x = Idle /\ (a \in cut' \/ Settled(wanted[a], member'[a]))
           \/ /\ x.acct = a /\ x.kind = "set"
              /\ SetGood(x, wanted[a], member'[a], groups)
    PROVE  GroupsInv'
<1>1. op'[p] = x /\ \A q \in Proc \ {p} : op'[q] = op[q]
  BY DEF Become, TypeInv, OpsTyped
<1>2. \A q \in Proc : Kinds(op[q])'
  BY <1>1 DEF GroupsInv, Kinds
<1>3. \A b \in Account \ {a} : ~Setting(op[p], b) /\ ~Setting(x, b)
  BY IdleKinds DEF Setting
<1>4. ASSUME NEW b \in Account \ {a}, Claims(wanted'[b]) PROVE AccountGood(b)'
  <2>1. Claims(wanted[b])
    BY <1>4 DEF SameAsked
  <2>2. QED
    BY <1>1, <1>3, <2>1, SameAccount DEF GroupsInv
<1>5. AccountGood(a)'
  <2>1. AccountGood(a)
    BY DEF GroupsInv
  <2>2. \A q \in Proc : op'[q].acct = a => op'[q].kind # "create"
    BY <1>1, <2>1, IdleKinds DEF AccountGood, Setting
  <2>3. ASSUME NEW q \in Proc, op'[q].acct = a, op'[q].kind = "set"
        PROVE  SetGood(op'[q], wanted[a], member'[a], groups')
    <3>1. CASE q = p
      BY <1>1, <2>3, <3>1, IdleKinds DEF Setting, SetGood
    <3>2. CASE q # p
      BY <1>1, <2>1, <2>3, <3>2, SetKeeps DEF AccountGood
    <3>3. QED
      BY <3>1, <3>2
  <2>4. \/ a \in cut' \/ Settled(wanted[a], member'[a])
        \/ \E q \in Proc : op'[q].acct = a /\ op'[q].kind \in {"set"}
    BY <1>1
  <2>5. Between(wanted[a], before[a], member'[a])
    BY <2>1 DEF AccountGood, Between
  <2>6. QED
    BY <2>2, <2>3, <2>4, <2>5 DEF AccountGood, Working, SameAsked
<1>6. QED
  BY <1>2, <1>4, <1>5 DEF GroupsInv, Claims

\* What a process does to LLDAP of which something may be claimed.
Careful(p) ==
    /\ groups \subseteq groups'
    /\ \A a \in Account :
          \/ member'[a] \cap Team = member[a] \cap Team
          \/ a = op[p].acct /\ op[p].kind = "create"
          \/ /\ a = op[p].acct /\ op[p].kind = "set"
             /\ Claims(wanted[a]) =>
                   /\ InAll(wanted[a]) \cap member[a] \subseteq member'[a]
                   /\ member'[a] \cap Team \subseteq member[a] \cup UNION wanted[a]

LEMMA RaiseGroups ==
    ASSUME TypeInv, CertInv, GroupsInv, NEW p \in Proc, op[p].pc # "idle",
           Raise(p), Careful(p)
    PROVE  GroupsInv'
<1> DEFINE o == op[p]
           failed == [o EXCEPT !.pc = "failed"]
<1>1. /\ o.acct \in Account /\ o \in OpRecord
      /\ Kinds(o) /\ (p = Boot => o.kind \in {"none", "boot"})
  BY OpOf DEF Holds, CertInv, ProcGood, GroupsInv
<1>2. PICK x : /\ Become(p, x) /\ Kinds(x)
               /\ x = Idle \/ (x.acct = o.acct /\ x.kind = o.kind)
               /\ o.kind = "set" => x = Idle
  <2>1. p = Boot => /\ Kinds(failed) /\ o.kind # "set"
                    /\ failed.acct = o.acct /\ failed.kind = o.kind
    BY <1>1 DEF Kinds, OpRecord
  <2>2. Become(p, IF p = Boot THEN failed ELSE Idle)
    BY DEF Raise
  <2> HIDE DEF failed
  <2>3. QED
    BY <2>1, <2>2, IdleKinds
<1>3. \A a \in Account : SameAsked(a)
  BY DEF Raise, SameAsked
<1>4. CASE o.kind # "set"
  BY <1>2, <1>3, <1>4, NotSetting DEF Careful
<1>5. CASE o.kind = "set" /\ ~Claims(wanted[o.acct])
  BY <1>1, <1>2, <1>3, <1>5, Unclaimed DEF Careful, SameAsked
<1>6. CASE o.kind = "set" /\ Claims(wanted[o.acct])
  <2>1. o.acct \in cut'
    BY <1>6 DEF Raise
  <2>2. /\ InAll(wanted[o.acct]) \cap member[o.acct] \subseteq member'[o.acct]
        /\ member'[o.acct] \cap Team \subseteq member[o.acct] \cup UNION wanted[o.acct]
    BY <1>1, <1>6 DEF Careful, InAll
  <2>3. QED
    BY <1>1, <1>2, <1>3, <1>6, <2>1, <2>2, SetSteps DEF Careful
<1>7. QED
  BY <1>4, <1>5, <1>6

LEMMA RefusedGroups ==
    ASSUME TypeInv, CertInv, GroupsInv, NEW p \in Proc, op[p].pc # "idle", Refused(p)
    PROVE  GroupsInv'
BY RaiseGroups DEF Refused, ldap, Careful

\* A mutation that succeeds may be taken for itself.
LEMMA MutationGroups ==
    ASSUME TypeInv, CertInv, GroupsInv, NEW p \in Proc, op[p].pc # "idle",
           NEW x, NEW ACTION effect, Mutation(p, effect, x),
           effect => Careful(p),
           effect /\ Become(p, x) /\ (\A a \in Account : SameAsked(a)) => GroupsInv'
    PROVE  GroupsInv'
<1>1. effect \/ UNCHANGED ldap
  BY DEF Mutation
<1>2. (effect /\ Become(p, x) /\ \A a \in Account : SameAsked(a)) \/ Raise(p)
  BY AskedSame DEF Mutation
<1>3. UNCHANGED ldap => Careful(p)
  BY DEF ldap, Careful
<1>4. QED
  BY <1>1, <1>2, <1>3, RaiseGroups

\* The same for operations that do not set groups.
LEMMA MutationAside ==
    ASSUME TypeInv, CertInv, GroupsInv, NEW p \in Proc, op[p].pc # "idle",
           op[p].kind # "set", NEW x, NEW ACTION effect, Mutation(p, effect, x),
           Kinds(x), x = Idle \/ (x.acct = op[p].acct /\ x.kind = op[p].kind),
           effect => /\ groups \subseteq groups'
                     /\ \A a \in Account :
                           \/ member'[a] \cap Team = member[a] \cap Team
                           \/ a = op[p].acct /\ op[p].kind = "create"
    PROVE  GroupsInv'
BY MutationGroups, NotSetting DEF Careful

LEMMA PcKinds ==
    ASSUME NEW o \in OpRecord, Kinds(o), o.kind # "set", NEW pc, pc \notin {"plan", "join"}
    PROVE  LET x == [o EXCEPT !.pc = pc]
           IN  Kinds(x) /\ x.acct = o.acct /\ x.kind = o.kind
BY DEF Kinds, OpRecord

\* What is known of a process at work.
LEMMA AtWork ==
    ASSUME TypeInv, CertInv, GroupsInv, NEW p \in Proc
    PROVE  /\ op[p] \in OpRecord /\ Holds(op[p], users, groups, misled)
           /\ Kinds(op[p]) /\ Shape(op[p])
           /\ op[p].pc # "idle" => op[p].acct \in Account
           /\ p = Boot => op[p].kind \in {"none", "boot"}
BY OpOf DEF GroupsInv, CertInv, ProcGood, OpGood, Holds

LEMMA CreatesGroups ==
    ASSUME TypeInv, CertInv, GroupsInv, NEW r \in Request,
           CreateUser(r) \/ CreateAttrs(r) \/ Deactivate(r) \/ MarkWrite(r)
    PROVE  GroupsInv'
<1> DEFINE o == op[r]
<1>0. /\ r \in Proc /\ o \in OpRecord /\ Kinds(o) /\ o.kind # "set"
      /\ o.pc \in {"create", "attrs", "deactivate", "mark"}
  BY Sets, AtWork DEF Kinds, CreateUser, CreateAttrs, Deactivate, MarkWrite
<1>1. ASSUME NEW x, NEW ACTION effect, Mutation(r, effect, x),
             effect => UNCHANGED <<groups, member>>,
             NEW pc, pc \notin {"plan", "join"}, x = [o EXCEPT !.pc = pc]
      PROVE  GroupsInv'
  <2>1. Kinds(x) /\ x.acct = o.acct /\ x.kind = o.kind
    BY <1>0, <1>1, PcKinds
  <2>2. effect => /\ groups \subseteq groups'
                  /\ \A a \in Account :
                        \/ member'[a] \cap Team = member[a] \cap Team
                        \/ a = op[r].acct /\ op[r].kind = "create"
    BY <1>1
  <2>3. op[r].pc # "idle"
    BY <1>0
  <2>4. QED
    BY <1>0, <1>1, <2>1, <2>2, <2>3, MutationAside
<1>2. CASE CreateUser(r)
  <2> DEFINE made == /\ users' = users \cup {o.acct}
                     /\ UNCHANGED <<groups, member, utype, active, schema>>
             next == [o EXCEPT !.pc = "attrs"]
  <2>1. Mutation(r, made, next)
    BY <1>2 DEF CreateUser
  <2>2. made => UNCHANGED <<groups, member>>
    OBVIOUS
  <2> HIDE DEF made
  <2>3. QED
    BY <1>1, <2>1, <2>2
<1>3. CASE CreateAttrs(r)
  <2> DEFINE typed == /\ utype' = [utype EXCEPT ![o.acct] = o.mode]
                      /\ UNCHANGED <<groups, users, member, active, schema>>
             pc == IF o.ask = {} THEN "csr" ELSE "ensure"
             next == [o EXCEPT !.pc = pc]
  <2>1. Mutation(r, typed, next)
    BY <1>3 DEF CreateAttrs
  <2>2. typed => UNCHANGED <<groups, member>>
    OBVIOUS
  <2>3. pc \notin {"plan", "join"}
    OBVIOUS
  <2> HIDE DEF typed, pc
  <2>4. QED
    BY <1>1, <2>1, <2>2, <2>3
<1>4. CASE Deactivate(r)
  <2> DEFINE made == /\ active' = [active EXCEPT ![o.acct] = FALSE]
                     /\ UNCHANGED <<groups, users, member, utype, schema>>
             next == [o EXCEPT !.pc = "list"]
  <2>1. Mutation(r, made, next)
    BY <1>4 DEF Deactivate
  <2>2. made => UNCHANGED <<groups, member>>
    OBVIOUS
  <2> HIDE DEF made
  <2>3. QED
    BY <1>1, <2>1, <2>2
<1>5. CASE MarkWrite(r)
  <2> DEFINE type == IF o.mode = "none" THEN utype[o.acct] ELSE o.mode
             typed == /\ utype' = [utype EXCEPT ![o.acct] = type]
                      /\ UNCHANGED <<groups, users, member, active, schema>>
             next == [o EXCEPT !.pc = "unpem"]
  <2>1. Mutation(r, typed, next)
    BY <1>5 DEF MarkWrite
  <2>2. typed => UNCHANGED <<groups, member>>
    OBVIOUS
  <2> HIDE DEF typed
  <2>3. QED
    BY <1>1, <2>1, <2>2
<1>6. QED
  BY <1>2, <1>3, <1>4, <1>5

\* Certificates and downloads.
LEMMA CertGroups ==
    ASSUME TypeInv, CertInv, GroupsInv, NEW r \in Request,
           \/ Csr(r) \/ Sign(r) \/ Bundle(r) \/ WritePems(r) \/ RegisterAdmin(r)
           \/ Rollback(r) \/ RemovePems(r)
           \/ \E serial \in op[r].certs : RevokeListed(r, serial)
           \/ ListCerts(r) \/ MarkRead(r)
           \/ LookSerial(r) \/ CheckCrl(r) \/ Send(r)
    PROVE  GroupsInv'
<1> DEFINE o == op[r]
<1>1. /\ o.pc \in {"csr", "sign", "p12", "pems", "certmod", "rollback", "unpem",
                   "list", "revoke", "look", "check", "send"}
      /\ UNCHANGED <<groups, member, asked>>
  <2>1. CASE \/ Csr(r) \/ Sign(r) \/ Bundle(r) \/ WritePems(r) \/ RegisterAdmin(r)
             \/ Rollback(r) \/ RemovePems(r)
    BY <2>1 DEF Csr, Sign, Bundle, WritePems, RegisterAdmin, Rollback, RemovePems,
                Exec, ldap
  <2>2. CASE \/ \E serial \in op[r].certs : RevokeListed(r, serial)
             \/ ListCerts(r) \/ MarkRead(r)
             \/ LookSerial(r) \/ CheckCrl(r) \/ Send(r)
    BY <2>2 DEF ListCerts, RevokeListed, MarkRead, LookSerial, CheckCrl, Send, ldap
  <2>3. QED
    BY <2>1, <2>2
<1>2. r \in Proc /\ o \in OpRecord /\ Kinds(o) /\ o.kind # "set"
  BY <1>1, Sets, AtWork DEF Kinds
<1>3. ASSUME NEW x, Become(r, x), Kinds(x),
             x = Idle \/ (x.acct = o.acct /\ x.kind = o.kind)
      PROVE  GroupsInv'
  BY <1>1, <1>2, <1>3, AskedSame, NotSetting
<1>4. Become(r, Idle) => GroupsInv'
  BY <1>3, IdleKinds
<1>5. ASSUME NEW pc, pc \notin {"plan", "join"}, Become(r, [o EXCEPT !.pc = pc])
      PROVE  GroupsInv'
  BY <1>2, <1>3, <1>5, PcKinds
<1>6. Become(r, Failed(o)) => GroupsInv'
  BY <1>4, <1>5 DEF Failed
<1>7. Become(r, Bundled(o)) => GroupsInv'
  BY <1>4, <1>5 DEF Bundled
<1>8. CASE Csr(r) \/ Sign(r) \/ Bundle(r)
  <2>1. \/ Become(r, [o EXCEPT !.pc = "sign"])
        \/ Become(r, [o EXCEPT !.pc = "p12"])
        \/ Become(r, Bundled(o))
        \/ Become(r, Failed(o))
    BY <1>8 DEF Csr, Sign, Bundle, Exec
  <2>2. QED
    BY <1>5, <1>6, <1>7, <2>1
<1>9. CASE WritePems(r) \/ RegisterAdmin(r) \/ Rollback(r) \/ RemovePems(r)
  BY <1>4, <1>6, <1>9 DEF WritePems, RegisterAdmin, Rollback, RemovePems, End
<1>10. CASE LookSerial(r)
  <2> DEFINE x == [o EXCEPT !.pc = "check", !.seen = files[o.acct].pem.serial]
  <2>1. Kinds(x) /\ x.acct = o.acct /\ x.kind = o.kind
    BY <1>2 DEF Kinds, OpRecord
  <2>2. QED
    BY <1>3, <1>10, <2>1 DEF LookSerial
<1>11. CASE CheckCrl(r)
  <2> DEFINE x == [o EXCEPT !.pc = "send", !.blind = TRUE]
  <2>1. Kinds(x) /\ x.acct = o.acct /\ x.kind = o.kind
    BY <1>2 DEF Kinds, OpRecord
  <2>2. QED
    BY <1>3, <1>4, <1>5, <1>11, <2>1 DEF CheckCrl
<1>12. CASE Send(r)
  BY <1>4, <1>12 DEF Send
<1>13. ASSUME NEW pc \in {"revoke", "mark"}, NEW x,
              x.pc = pc, x.acct = o.acct, x.kind = o.kind, x.drop = o.drop,
              x.todo = o.todo, Become(r, x)
       PROVE  GroupsInv'
  <2>1. Kinds(x)
    BY <1>2, <1>13 DEF Kinds
  <2>2. QED
    BY <1>3, <1>13, <2>1
<1>14. CASE ListCerts(r)
  <2> DEFINE listing(listed, left) == [o EXCEPT !.pc = "revoke", !.certs = listed,
                                                !.left = left]
  <2>1. ASSUME NEW listed, NEW left, Become(r, listing(listed, left)) PROVE GroupsInv'
    <3> DEFINE x == listing(listed, left)
    <3>1. /\ x.pc = "revoke" /\ x.acct = o.acct /\ x.kind = o.kind
          /\ x.drop = o.drop /\ x.todo = o.todo
      BY <1>2 DEF OpRecord
    <3> HIDE DEF listing
    <3>2. QED
      BY <1>13, <2>1, <3>1
  <2>2. \/ \E listed, left : Become(r, listing(listed, left))
        \/ Become(r, [o EXCEPT !.pc = "unpem"]) \/ Become(r, Idle)
    BY <1>14 DEF ListCerts
  <2> HIDE DEF listing
  <2>3. QED
    BY <1>4, <1>5, <2>1, <2>2
<1>15. CASE \E serial \in op[r].certs : RevokeListed(r, serial)
  <2>1. PICK serial \in op[r].certs : RevokeListed(r, serial)
    BY <1>15
  <2> DEFINE x == [o EXCEPT !.certs = @ \ {serial}]
             y == [o EXCEPT !.certs = @ \ {serial}, !.left = TRUE]
  <2>2. o.pc = "revoke" /\ (Become(r, x) \/ Become(r, y))
    BY <2>1 DEF RevokeListed
  <2>3. /\ x.pc = "revoke" /\ x.acct = o.acct /\ x.kind = o.kind
        /\ x.drop = o.drop /\ x.todo = o.todo
        /\ y.pc = "revoke" /\ y.acct = o.acct /\ y.kind = o.kind
        /\ y.drop = o.drop /\ y.todo = o.todo
    BY <1>2, <2>2 DEF OpRecord
  <2> HIDE DEF x, y
  <2>4. QED
    BY <1>13, <2>2, <2>3
<1>16. CASE MarkRead(r)
  <2> DEFINE x == [o EXCEPT !.pc = "mark", !.mode = utype[o.acct]]
  <2>1. Become(r, [o EXCEPT !.pc = "unpem"]) \/ Become(r, x)
    BY <1>16 DEF MarkRead
  <2>2. /\ x.pc = "mark" /\ x.acct = o.acct /\ x.kind = o.kind
        /\ x.drop = o.drop /\ x.todo = o.todo
    BY <1>2 DEF OpRecord
  <2> HIDE DEF x
  <2>3. QED
    BY <1>5, <1>13, <2>1, <2>2
<1>17. QED
  BY <1>8, <1>9, <1>10, <1>11, <1>12, <1>14, <1>15, <1>16

\* Requests arrive.
LEMMA ArrivalGroups ==
    ASSUME TypeInv, GroupsInv, NEW r \in Request, NEW a \in Account,
           \/ GenerateCheck(r, a) \/ DeleteService(r, a) \/ Download(r, a)
           \/ \E mode, gs : CreateCheck(r, a, mode, gs)
    PROVE  GroupsInv'
<1>1. UNCHANGED <<groups, member>> /\ op[r] = Idle /\ r \in Proc
  BY Sets DEF GenerateCheck, DeleteService, Download, CreateCheck, Arrive, ldap
<1>2. CASE GenerateCheck(r, a) \/ DeleteService(r, a) \/ Download(r, a)
  <2>1. PICK x : Become(r, x) /\ Kinds(x) /\ x.kind \notin {"set", "create"}
    <3> DEFINE g == [Idle EXCEPT !.pc = "csr", !.kind = "generate", !.acct = a]
               d == [Idle EXCEPT !.pc = "deactivate", !.kind = "delete", !.acct = a]
               l == [Idle EXCEPT !.pc = "look", !.kind = "download", !.acct = a,
                                 !.crl0 = crl]
    <3>1. \A x \in {g, d, l} : Kinds(x) /\ x.kind \notin {"set", "create"}
      <4>1. /\ g.pc = "csr" /\ g.kind = "generate" /\ g.drop = {}
            /\ d.pc = "deactivate" /\ d.kind = "delete" /\ d.drop = {}
        BY DEF Idle
      <4>2. l.pc = "look" /\ l.kind = "download" /\ l.drop = {}
        BY DEF Idle
      <4> HIDE DEF g, d, l
      <4>3. QED
        BY <4>1, <4>2 DEF Kinds
    <3>2. Become(r, g) \/ Become(r, d) \/ Become(r, l)
      BY <1>2 DEF GenerateCheck, DeleteService, Download
    <3> HIDE DEF g, d, l
    <3>3. QED
      BY <3>1, <3>2
  <2>2. \A b \in Account : SameAsked(b)
    BY <1>2, AskedSame DEF GenerateCheck, DeleteService, Download
  <2>3. QED
    BY <1>1, <2>1, <2>2, OneMoves, IdleKinds DEF Setting
<1>3. ASSUME NEW mode, NEW gs, CreateCheck(r, a, mode, gs) PROVE GroupsInv'
  <2>1. PICK x : Become(r, x) /\ Kinds(x) /\ x.acct = a
    <3> DEFINE c == [Idle EXCEPT !.pc = "create", !.kind = "create", !.acct = a,
                                 !.mode = mode, !.ask = gs]
    <3>1. Kinds(c) /\ c.acct = a
      BY DEF Kinds, Idle
    <3>2. Become(r, c)
      BY <1>3 DEF CreateCheck
    <3>3. QED
      BY <3>1, <3>2
  <2>2. ~Claims(wanted'[a]) /\ \A b \in Account \ {a} : SameAsked(b)
    BY <1>3 DEF CreateCheck, TypeInv, OthersTyped, Claims, SameAsked
  <2>3. QED
    BY <1>1, <2>1, <2>2, OneMoves, IdleKinds DEF Setting
<1>4. QED
  BY <1>2, <1>3

LEMMA EnsureGroupsGroups ==
    ASSUME TypeInv, CertInv, GroupsInv, NEW r \in Request, EnsureGroups(r)
    PROVE  GroupsInv'
<1> DEFINE o == op[r]
           x == [o EXCEPT !.pc = "join", !.todo = Taken(o.ask),
                          !.missing = Taken(o.ask) \ groups, !.gone = {}]
<1>1. /\ o.pc = "ensure" /\ Become(r, x) /\ r \in Proc
      /\ UNCHANGED <<groups, member, asked>>
  BY Sets DEF EnsureGroups, ldap
<1>2. o \in OpRecord /\ Kinds(o) /\ o.kind = "create"
  BY <1>1, AtWork DEF Shape
<1>3. Kinds(x) /\ x.acct = o.acct /\ x.kind = o.kind
  BY <1>2 DEF Kinds, OpRecord
<1> HIDE DEF x
<1>4. QED
  BY <1>1, <1>2, <1>3, AskedSame, NotSetting

\* Groups come and go; a deletion ends what can be said of requests under way.
LEMMA GroupGroups ==
    ASSUME TypeInv, GroupsInv, NEW g \in Tak, CreateGroup(g) \/ DeleteGroup(g)
    PROVE  GroupsInv'
<1>1. CASE CreateGroup(g)
  <2>1. /\ UNCHANGED <<member, op, wanted>> /\ groups \subseteq groups'
        /\ \A a : SameAsked(a)
    BY <1>1, AskedSame DEF CreateGroup
  <2>2. \A a \in Account : Claims(wanted[a]) => AccountGood(a)'
    BY <2>1, SameAccount DEF GroupsInv
  <2>3. QED
    BY <2>1, <2>2 DEF GroupsInv, Kinds, Claims
<1>2. CASE DeleteGroup(g)
  <2>1. ASSUME NEW p \in Proc PROVE Kinds(op[p])'
    <3>1. op[p] \in OpRecord /\ Kinds(op[p])
      BY OpOf DEF GroupsInv
    <3>2. op'[p] \in {op[p], [op[p] EXCEPT !.gone = @ \cup {g}]}
      BY <1>2 DEF DeleteGroup
    <3>3. QED
      BY <3>1, <3>2 DEF Kinds, OpRecord
  <2>2. \A a \in Account : wanted'[a] = {}
    BY <1>2 DEF DeleteGroup
  <2>3. QED
    BY <2>1, <2>2 DEF GroupsInv, Claims
<1>3. QED
  BY <1>1, <1>2

\* A crash ends requests as a failure does.
LEMMA CrashGroups == ASSUME TypeInv, GroupsInv, Crash PROVE GroupsInv'
<1>1. /\ \A p \in Proc : op'[p] \in {op[p], Idle}
      /\ UNCHANGED <<groups, member, wanted, before>>
      /\ \A a \in Account : a \in cut \/ Working(a, {"set"}) => a \in cut'
  BY DEF Crash, ldap
<1>2. \A p \in Proc : Kinds(op[p])'
  BY <1>1, IdleKinds DEF GroupsInv, Kinds
<1>3. ASSUME NEW a \in Account, Claims(wanted[a]) PROVE AccountGood(a)'
  <2>1. AccountGood(a)
    BY <1>3 DEF GroupsInv
  <2>2. \A p \in Proc : Setting(op'[p], a) => op'[p] = op[p]
    BY <1>1, IdleKinds
  <2>3. \A p \in Proc : op'[p].acct = a => op'[p].kind # "create"
    BY <2>1, <2>2 DEF AccountGood, Setting
  <2>4. \A p \in Proc : op'[p].acct = a /\ op'[p].kind = "set" =>
            SetGood(op'[p], wanted'[a], member'[a], groups')
    BY <1>1, <2>1, <2>2 DEF AccountGood, Setting
  <2>5. a \in cut' \/ Settled(wanted'[a], member'[a])
    BY <1>1, <2>1 DEF AccountGood
  <2>6. Between(wanted'[a], before'[a], member'[a])
    BY <1>1, <2>1 DEF AccountGood
  <2>7. QED
    BY <2>3, <2>4, <2>5, <2>6 DEF AccountGood
<1>4. QED
  BY <1>1, <1>2, <1>3 DEF GroupsInv, Claims

LEMMA OtherGroups ==
    ASSUME TypeInv, GroupsInv, UNCHANGED vars \/ \E a \in Account : RevokeByName(a)
    PROVE  GroupsInv'
<1>1. UNCHANGED <<groups, member, op, wanted>> /\ \A a : SameAsked(a)
  BY AskedSame DEF vars, RevokeByName, ldap
<1>2. \A a \in Account : Claims(wanted[a]) => AccountGood(a)'
  BY <1>1, SameAccount DEF GroupsInv
<1>3. QED
  BY <1>1, <1>2 DEF GroupsInv, Kinds, Claims

(***************************************************************************)
(* The bootstrap is no operator: it gives groups no team may be.           *)
(***************************************************************************)
LEMMA BootAtWork ==
    ASSUME TypeInv, CertInv, GroupsInv
    PROVE  /\ op[Boot] \in OpRecord /\ op[Boot].kind \in {"none", "boot"}
           /\ op[Boot].drop = {} /\ Kinds(op[Boot])
           /\ op[Boot].pc # "idle" => /\ op[Boot].kind = "boot"
                                      /\ op[Boot].todo \cap Team = {}
BY AtWork, Sets DEF Kinds, Holds

LEMMA BootStays ==
    ASSUME TypeInv, CertInv, GroupsInv, op[Boot].pc # "idle",
           NEW x, x.acct = op[Boot].acct, x.kind = op[Boot].kind,
           x.drop = op[Boot].drop,
           x.todo \cap Team = {}, x.pc # "plan"
    PROVE  Kinds(x) /\ x.acct = op[Boot].acct /\ x.kind = op[Boot].kind
BY BootAtWork DEF Kinds

LEMMA BootMoveGroups ==
    ASSUME TypeInv, CertInv, GroupsInv, op[Boot].pc # "idle", NEW x, Become(Boot, x),
           Kinds(x), x.acct = op[Boot].acct, x.kind = op[Boot].kind,
           UNCHANGED <<groups, member, asked>>
    PROVE  GroupsInv'
BY BootAtWork, NotSetting, AskedSame, Sets

LEMMA BootMutationGroups ==
    ASSUME TypeInv, CertInv, GroupsInv, op[Boot].pc # "idle", NEW x,
           NEW ACTION effect, Mutation(Boot, effect, x),
           Kinds(x), x.acct = op[Boot].acct, x.kind = op[Boot].kind,
           effect => /\ groups \subseteq groups'
                     /\ \A a \in Account : member'[a] \cap Team = member[a] \cap Team
    PROVE  GroupsInv'
BY BootAtWork, MutationAside, Sets

LEMMA BootEndsGroups ==
    ASSUME TypeInv, CertInv, GroupsInv, BootStart \/ BootCrash PROVE GroupsInv'
<1> DEFINE o == [Idle EXCEPT !.pc = "schema", !.kind = "boot",
                             !.acct = Webadmin, !.todo = DefaultGroups]
<1>1. /\ Become(Boot, o) \/ Become(Boot, Idle)
      /\ UNCHANGED <<groups, member, asked>>
  BY DEF BootStart, BootCrash, ldap
<1>2. DefaultGroups \cap Team = {}
  BY AccountsAssumption DEF AccountsAssumption, DefaultGroups, Tak
<1>3. Kinds(o) /\ o.kind = "boot"
  BY <1>2 DEF Kinds, Idle
<1>4. \A a : ~Setting(o, a) /\ ~Setting(Idle, a) /\ ~Setting(op[Boot], a)
  BY <1>3, IdleKinds, BootAtWork DEF Setting
<1> HIDE DEF o
<1>5. QED
  BY <1>1, <1>3, <1>4, IdleKinds, AskedSame, OneMoves, Sets

LEMMA BootSimpleGroups ==
    ASSUME TypeInv, CertInv, GroupsInv,
           BootSchema \/ BootWebadmin \/ BootType \/ BootService \/ BootServiceType
    PROVE  GroupsInv'
<1> DEFINE o == op[Boot]
<1>0. o.pc # "idle"
  BY DEF BootSchema, BootWebadmin, BootType, BootService, BootServiceType
<1>1. /\ o \in OpRecord /\ o.kind # "set" /\ Kinds(o)
      /\ \A pc : pc \notin {"plan", "join"} =>
            LET x == [o EXCEPT !.pc = pc]
            IN  Kinds(x) /\ x.acct = o.acct /\ x.kind = o.kind
  BY BootAtWork, PcKinds
<1>2. CASE BootSchema
  <2> DEFINE next == [o EXCEPT !.pc = "groups"]
             made == schema' = TRUE /\ UNCHANGED <<groups, users, member, utype, active>>
  <2>1. Mutation(Boot, made, next)
    BY <1>2 DEF BootSchema
  <2>2. Kinds(next) /\ next.acct = o.acct /\ next.kind = o.kind
    BY <1>1
  <2>3. made => UNCHANGED <<groups, member>>
    OBVIOUS
  <2> HIDE DEF made, next
  <2>4. QED
    BY <1>0, <2>1, <2>2, <2>3, BootMutationGroups
<1>3. CASE BootWebadmin
  <2> DEFINE next == [o EXCEPT !.pc = "join", !.todo = DefaultGroups]
             made == /\ users' = users \cup {Webadmin}
                     /\ UNCHANGED <<groups, member, utype, active, schema>>
  <2>1. Mutation(Boot, made, next)
    BY <1>3 DEF BootWebadmin
  <2>2. DefaultGroups \cap Team = {}
    BY AccountsAssumption DEF AccountsAssumption, DefaultGroups, Tak
  <2>3. /\ next.pc = "join" /\ next.acct = o.acct /\ next.kind = o.kind
        /\ next.drop = o.drop /\ next.todo = DefaultGroups
    BY <1>1 DEF OpRecord
  <2>4. made => UNCHANGED <<groups, member>>
    OBVIOUS
  <2> HIDE DEF made, next
  <2>5. Kinds(next)
    BY <1>0, <2>2, <2>3, BootStays
  <2>6. QED
    BY <1>0, <2>1, <2>3, <2>4, <2>5, BootMutationGroups
<1>4. CASE BootService
  <2> DEFINE next == [o EXCEPT !.pc = "svctype"]
             made == /\ users' = users \cup {Builtin}
                     /\ UNCHANGED <<groups, member, utype, active, schema>>
  <2>1. Mutation(Boot, made, next)
    BY <1>4 DEF BootService
  <2>2. Kinds(next) /\ next.acct = o.acct /\ next.kind = o.kind
    BY <1>1
  <2>3. made => UNCHANGED <<groups, member>>
    OBVIOUS
  <2> HIDE DEF made, next
  <2>4. QED
    BY <1>0, <2>1, <2>2, <2>3, BootMutationGroups
<1>5. ASSUME NEW a, NEW type, NEW pc \in {"service", "done"}, SetType(a, type, pc)
      PROVE  GroupsInv'
  <2> DEFINE next == [o EXCEPT !.pc = pc]
             made == /\ schema
                     /\ utype' = [utype EXCEPT ![a] = type]
                     /\ UNCHANGED <<groups, users, member, active, schema>>
  <2>1. Mutation(Boot, made, next)
    BY <1>5 DEF SetType
  <2>2. Kinds(next) /\ next.acct = o.acct /\ next.kind = o.kind
    BY <1>1
  <2>3. made => UNCHANGED <<groups, member>>
    OBVIOUS
  <2> HIDE DEF made, next
  <2>4. QED
    BY <1>0, <2>1, <2>2, <2>3, BootMutationGroups
<1>6. QED
  BY <1>2, <1>3, <1>4, <1>5 DEF BootSchema, BootWebadmin, BootType, BootService,
                               BootServiceType

LEMMA BootEnsureGroups ==
    ASSUME TypeInv, CertInv, GroupsInv, NEW g \in Group,
           BootLookGroup(g) \/ BootMakeGroup(g)
    PROVE  GroupsInv'
<1> DEFINE o == op[Boot]
           x == [o EXCEPT !.todo = @ \ {g}, !.gone = @ \ {g}]
           y == [o EXCEPT !.pc = "make", !.missing = {g}]
           z == [o EXCEPT !.todo = @ \ {g}, !.gone = @ \ {g}, !.missing = {}]
           made == /\ groups' = groups \cup {g}
                   /\ UNCHANGED <<users, member, utype, active, schema>>
<1>0. o.pc # "idle"
  BY DEF BootLookGroup, BootMakeGroup
<1>1. o \in OpRecord /\ o.todo \cap Team = {}
  BY <1>0, BootAtWork
<1>2. ASSUME NEW w \in OpRecord, w.acct = o.acct, w.kind = o.kind, w.drop = o.drop,
             w.todo \cap Team = {}
      PROVE  LET e == GroupsEnsured(w)
             IN  Kinds(e) /\ e.acct = o.acct /\ e.kind = o.kind
  <2>1. PICK pc \in {"groups", "webadmin", "service"} :
           GroupsEnsured(w) = [w EXCEPT !.pc = pc]
    BY DEF GroupsEnsured
  <2> DEFINE e == [w EXCEPT !.pc = pc]
  <2>2. /\ e.acct = o.acct /\ e.kind = o.kind /\ e.drop = o.drop
        /\ e.todo \cap Team = {} /\ e.pc # "plan"
    BY <1>2 DEF OpRecord
  <2> HIDE DEF e
  <2>3. Kinds(e)
    BY <1>0, <2>2, BootStays
  <2>4. QED
    BY <2>1, <2>2, <2>3 DEF e
<1>3. /\ x \in OpRecord /\ x.acct = o.acct /\ x.kind = o.kind /\ x.drop = o.drop
      /\ x.todo \cap Team = {}
  BY <1>1 DEF OpRecord
<1>4. /\ y.acct = o.acct /\ y.kind = o.kind /\ y.drop = o.drop
      /\ y.todo \cap Team = {} /\ y.pc # "plan"
  BY <1>1 DEF OpRecord
<1>5. /\ z \in OpRecord /\ z.acct = o.acct /\ z.kind = o.kind /\ z.drop = o.drop
      /\ z.todo \cap Team = {}
  BY <1>1 DEF OpRecord
<1> HIDE DEF x, y, z
<1>6. CASE BootLookGroup(g)
  <2>1. /\ Become(Boot, GroupsEnsured(x)) \/ Become(Boot, y)
        /\ UNCHANGED <<groups, member, asked>>
    BY <1>6 DEF BootLookGroup, ldap, x, y
  <2>2. /\ Kinds(GroupsEnsured(x)) /\ GroupsEnsured(x).acct = o.acct
        /\ GroupsEnsured(x).kind = o.kind
    BY <1>2, <1>3
  <2>3. Kinds(y)
    BY <1>0, <1>4, BootStays
  <2>4. QED
    BY <1>0, <1>4, <2>1, <2>2, <2>3, BootMoveGroups
<1>7. CASE BootMakeGroup(g)
  <2>1. Mutation(Boot, made, GroupsEnsured(z)) \/ Refused(Boot)
    BY <1>7 DEF BootMakeGroup, z
  <2>2. /\ Kinds(GroupsEnsured(z)) /\ GroupsEnsured(z).acct = o.acct
        /\ GroupsEnsured(z).kind = o.kind
    BY <1>2, <1>5
  <2>3. made => groups \subseteq groups' /\ member' = member
    OBVIOUS
  <2> HIDE DEF made
  <2>4. QED
    BY <1>0, <2>1, <2>2, <2>3, BootMutationGroups, RefusedGroups, Sets
<1>8. QED
  BY <1>6, <1>7

(***************************************************************************)
(* Giving groups and taking them away.                                     *)
(***************************************************************************)
LEMMA GroupedKinds ==
    ASSUME NEW o \in OpRecord, o.kind \in {"set", "create", "boot"},
           o.kind # "set" => o.drop = {},
           o.kind = "boot" => o.todo \cap Team = {}
    PROVE  LET x == Grouped(o)
           IN  Kinds(x) /\ (x = Idle \/ (x.acct = o.acct /\ x.kind = o.kind))
<1>1. \A pc \in {"drop", "join", "type", "csr"} :
         /\ [o EXCEPT !.pc = pc].acct = o.acct
         /\ [o EXCEPT !.pc = pc].kind = o.kind
  BY DEF OpRecord
<1>2. \A pc \in {"drop", "join"} : Kinds([o EXCEPT !.pc = pc])
  BY DEF Kinds, OpRecord
<1>3. o.kind # "set" => \A pc \in {"type", "csr"} : Kinds([o EXCEPT !.pc = pc])
  BY DEF Kinds, OpRecord
<1>4. QED
  BY <1>1, <1>2, <1>3, IdleKinds DEF Grouped

\* Where a request goes that sets groups.
LEMMA GroupedSets ==
    ASSUME NEW o \in OpRecord, o.kind = "set", NEW W, NEW M, NEW G,
           o.ask \in W, o.ask \subseteq G, o.missing = {}, o.gone = {},
           o.drop \cap o.ask = {}, o.todo \subseteq o.ask,
           InAll(W) \subseteq M \cup o.todo,
           M \cap Team \subseteq (UNION W) \cup o.drop
    PROVE  LET x == Grouped(o)
           IN  \/ x = Idle /\ Settled(W, M)
               \/ x.acct = o.acct /\ x.kind = "set" /\ SetGood(x, W, M, G)
<1>1. \A pc \in {"drop", "join"} :
         LET x == [o EXCEPT !.pc = pc]
         IN  x.acct = o.acct /\ x.kind = "set" /\ SetGood(x, W, M, G)
  BY DEF SetGood, OpRecord
<1>2. o.drop = {} /\ o.todo = {} => Settled(W, M)
  BY DEF Settled
<1>3. QED
  BY <1>1, <1>2 DEF Grouped

LEMMA MakeGroupGroups ==
    ASSUME TypeInv, CertInv, GroupsInv, NEW p \in Proc, NEW g \in Group,
           MakeGroup(p, g)
    PROVE  GroupsInv'
<1> DEFINE o == op[p]
           next == [o EXCEPT !.missing = @ \ {g}, !.gone = @ \ {g}]
           made == /\ groups' = groups \cup {g}
                   /\ UNCHANGED <<users, member, utype, active, schema>>
<1>1. /\ o.pc = "join" /\ g \in o.missing /\ o \in OpRecord /\ Kinds(o)
      /\ o.acct \in Account
      /\ Mutation(p, made, next) \/ Refused(p)
  BY AtWork DEF MakeGroup
<1>2. Kinds(next) /\ next.acct = o.acct /\ next.kind = o.kind
  BY <1>1 DEF Kinds, OpRecord
<1>3. made => groups \subseteq groups' /\ member' = member
  OBVIOUS
<1>4. o.kind = "set" => ~Claims(wanted[o.acct])
  BY <1>1 DEF GroupsInv, AccountGood, SetGood
<1> HIDE DEF made, next
<1>5. made /\ Become(p, next) /\ (\A a \in Account : SameAsked(a)) => GroupsInv'
  <2>1. CASE o.kind = "set"
    BY <1>1, <1>2, <1>3, <1>4, <2>1, Unclaimed DEF SameAsked
  <2>2. CASE o.kind # "set"
    BY <1>2, <1>3, <2>2, NotSetting
  <2>3. QED
    BY <2>1, <2>2
<1>6. made => Careful(p)
  BY <1>3 DEF Careful
<1>7. QED
  BY <1>1, <1>5, <1>6, MutationGroups, RefusedGroups

LEMMA JoinGroups ==
    ASSUME TypeInv, CertInv, GroupsInv, NEW p \in Proc, NEW g \in Group, Join(p, g)
    PROVE  GroupsInv'
<1> DEFINE o == op[p]
           a == o.acct
           x == [o EXCEPT !.todo = @ \ {g}]
           W == wanted[a]
           N == member'[a]
           joins == /\ member' = [member EXCEPT ![o.acct] = @ \cup {g}]
                    /\ UNCHANGED <<groups, users, utype, active, schema>>
<1>1. /\ o.pc = "join" /\ g \in o.todo /\ o \in OpRecord /\ Kinds(o)
      /\ a \in Account /\ o.kind \in {"set", "create", "boot"}
      /\ Mutation(p, joins, Grouped(x)) \/ Refused(p)
  BY AtWork DEF Join, Kinds
<1>2. /\ x \in OpRecord /\ x.kind = o.kind /\ x.acct = a /\ x.drop = o.drop
      /\ x.todo = o.todo \ {g} /\ x.ask = o.ask
      /\ x.missing = o.missing /\ x.gone = o.gone
  BY <1>1 DEF OpRecord
<1>3. /\ Kinds(Grouped(x))
      /\ Grouped(x) = Idle \/ (Grouped(x).acct = a /\ Grouped(x).kind = o.kind)
  <2> HIDE DEF x
  <2>1. QED
    BY <1>1, <1>2, GroupedKinds DEF Kinds
<1>4. joins => /\ member'[a] = member[a] \cup {g} /\ groups' = groups
               /\ \A b \in Account \ {a} : member'[b] = member[b]
  BY <1>1 DEF TypeInv, LdapTyped
<1>5. o.kind = "boot" => g \notin Team
  BY <1>1 DEF Kinds
<1>6. o.kind = "set" /\ Claims(W) => SetGood(o, W, member[a], groups)
  BY <1>1 DEF GroupsInv, AccountGood
<1>7. o.kind = "set" /\ Claims(W) => g \in UNION W
  BY <1>1, <1>6 DEF SetGood
<1> HIDE DEF x, joins
<1>8. joins => Careful(p)
  BY <1>1, <1>4, <1>5, <1>7 DEF Careful
<1>9. ASSUME joins, Become(p, Grouped(x)), \A b \in Account : SameAsked(b)
      PROVE  GroupsInv'
  <2>1. CASE o.kind # "set"
    BY <1>3, <1>8, <1>9, <2>1, NotSetting DEF Careful
  <2>2. CASE o.kind = "set" /\ ~Claims(W)
    BY <1>1, <1>3, <1>4, <1>9, <2>2, Unclaimed DEF SameAsked
  <2>3. CASE o.kind = "set" /\ Claims(W)
    <3>1. SetGood(o, W, member[a], groups) /\ N = member[a] \cup {g} /\ g \in UNION W
      BY <1>4, <1>6, <1>7, <1>9, <2>3
    <3>2. /\ x.ask \in W /\ x.ask \subseteq groups /\ x.missing = {} /\ x.gone = {}
          /\ x.drop \cap x.ask = {} /\ x.todo \subseteq x.ask
          /\ InAll(W) \subseteq N \cup x.todo
          /\ N \cap Team \subseteq (UNION W) \cup x.drop
      BY <1>1, <1>2, <3>1 DEF SetGood
    <3>3. InAll(W) \cap member[a] \subseteq N /\ N \cap Team \subseteq member[a] \cup UNION W
      BY <3>1
    <3> HIDE DEF W, N
    <3>4. \/ Grouped(x) = Idle /\ Settled(W, N)
          \/ /\ Grouped(x).acct = a /\ Grouped(x).kind = "set"
             /\ SetGood(Grouped(x), W, N, groups)
      BY <1>2, <2>3, <3>2, GroupedSets
    <3>5. QED
      BY <1>1, <1>3, <1>4, <1>9, <2>3, <3>3, <3>4, SetSteps DEF W, N
  <2>4. QED
    BY <2>1, <2>2, <2>3
<1>10. QED
  BY <1>1, <1>8, <1>9, MutationGroups, RefusedGroups

\* Nobody takes away what all asked for, and what is taken away nobody did.
LEMMA DropGroups ==
    ASSUME TypeInv, CertInv, GroupsInv, NEW p \in Proc, NEW g \in Group, Drop(p, g)
    PROVE  GroupsInv'
<1> DEFINE o == op[p]
           a == o.acct
           x == [o EXCEPT !.drop = @ \ {g}]
           W == wanted[a]
           N == member'[a]
           there == g \in member[a] \ o.gone
           leaves == /\ member' = [member EXCEPT ![o.acct] = @ \ {g}]
                     /\ UNCHANGED <<groups, users, utype, active, schema>>
           done == leaves \/ (UNCHANGED ldap /\ ~there)
<1>1. /\ o.pc = "drop" /\ g \in o.drop /\ o \in OpRecord /\ Kinds(o)
      /\ a \in Account /\ o.kind = "set"
      /\ \/ there /\ Mutation(p, leaves, Grouped(x))
         \/ ~there /\ Mutation(p, UNCHANGED ldap, Grouped(x))
         \/ Refused(p)
  BY AtWork DEF Drop, Kinds
<1>2. /\ x \in OpRecord /\ x.kind = o.kind /\ x.acct = a /\ x.drop = o.drop \ {g}
      /\ x.todo = o.todo /\ x.ask = o.ask
      /\ x.missing = o.missing /\ x.gone = o.gone
  BY <1>1 DEF OpRecord
<1>3. /\ Kinds(Grouped(x))
      /\ Grouped(x) = Idle \/ (Grouped(x).acct = a /\ Grouped(x).kind = "set")
  <2> HIDE DEF x
  <2>1. QED
    BY <1>1, <1>2, GroupedKinds DEF Kinds
<1>4. /\ leaves => /\ member'[a] = member[a] \ {g} /\ groups' = groups
                   /\ \A b \in Account \ {a} : member'[b] = member[b]
      /\ UNCHANGED ldap => groups' = groups /\ member' = member
  BY <1>1 DEF TypeInv, LdapTyped, ldap
<1>5. Claims(W) => SetGood(o, W, member[a], groups)
  BY <1>1 DEF GroupsInv, AccountGood
<1>6. Claims(W) => g \notin InAll(W)
  BY <1>1, <1>5 DEF SetGood, InAll
<1> HIDE DEF x, leaves
<1>7. done => Careful(p)
  BY <1>1, <1>4, <1>6 DEF Careful
\* The group is gone from the account, or the request had lost its id.
<1>8. ASSUME done, Become(p, Grouped(x)), \A b \in Account : SameAsked(b)
      PROVE  GroupsInv'
  <2>1. /\ groups' = groups /\ \A b \in Account \ {a} : member'[b] = member[b]
        /\ o.gone = {} => member'[a] = member[a] \ {g}
    BY <1>4, <1>8
  <2>2. CASE ~Claims(W)
    BY <1>1, <1>3, <1>8, <2>1, <2>2, Unclaimed DEF SameAsked
  <2>3. CASE Claims(W)
    <3>1. N = member[a] \ {g} /\ g \notin InAll(W)
      BY <1>5, <1>6, <2>1, <2>3 DEF SetGood
    <3>2. /\ o.ask \in W /\ o.ask \subseteq groups
          /\ o.missing = {} /\ o.gone = {}
          /\ o.drop \cap o.ask = {} /\ o.todo \subseteq o.ask
          /\ InAll(W) \subseteq member[a] \cup o.todo
          /\ member[a] \cap Team \subseteq (UNION W) \cup o.drop
      BY <1>1, <1>5, <2>3 DEF SetGood
    <3> HIDE DEF W, N
    <3>3. /\ x.ask \in W /\ x.ask \subseteq groups /\ x.missing = {} /\ x.gone = {}
          /\ x.drop \cap x.ask = {} /\ x.todo \subseteq x.ask
          /\ InAll(W) \subseteq N \cup x.todo
          /\ N \cap Team \subseteq (UNION W) \cup x.drop
      BY <1>2, <3>1, <3>2
    <3>4. \/ Grouped(x) = Idle /\ Settled(W, N)
          \/ /\ Grouped(x).acct = a /\ Grouped(x).kind = "set"
             /\ SetGood(Grouped(x), W, N, groups)
      BY <1>1, <1>2, <3>3, GroupedSets
    <3>5. InAll(W) \cap member[a] \subseteq N /\ N \cap Team \subseteq member[a] \cup UNION W
      BY <3>1
    <3>6. QED
      BY <1>1, <1>3, <1>8, <2>1, <2>3, <3>4, <3>5, SetSteps DEF W, N
  <2>4. QED
    BY <2>2, <2>3
<1>9. CASE there /\ Mutation(p, leaves, Grouped(x))
  BY <1>1, <1>7, <1>8, <1>9, MutationGroups
<1>10. CASE ~there /\ Mutation(p, UNCHANGED ldap, Grouped(x))
  BY <1>1, <1>7, <1>8, <1>10, MutationGroups
<1>11. QED
  BY <1>1, <1>9, <1>10, RefusedGroups

\* set_user_groups looks once at the groups and at the user.
LEMMA SetPlanGroups ==
    ASSUME TypeInv, CertInv, GroupsInv, NEW r \in Request, SetPlan(r)
    PROVE  GroupsInv'
<1> DEFINE o == op[r]
           a == o.acct
           W == wanted[a]
           M == member[a]
           has == M \cap Tak
           desired == Taken(o.ask)
           x == [o EXCEPT !.drop = has \ desired,
                          !.todo = (desired \cap groups) \ has, !.gone = {}]
<1>1. /\ r \in Proc /\ o.pc = "plan" /\ o \in OpRecord /\ Kinds(o) /\ a \in Account
      /\ o.kind = "set"
  BY Sets, AtWork DEF SetPlan, Kinds
<1>2. /\ Become(r, Grouped(x))
      /\ UNCHANGED <<groups, member, asked>>
  BY DEF SetPlan, ldap
<1>3. o.ask \subseteq Team /\ desired \subseteq Tak /\ Tak \subseteq Group
  BY <1>1, AccountsAssumption, Sets DEF OpRecord, Taken, AccountsAssumption
<1> HIDE DEF desired
<1>4. /\ x.kind = "set" /\ x.acct = a /\ x.drop = has \ desired /\ x.ask = o.ask
      /\ x.todo = (desired \cap groups) \ has
      /\ x.missing = o.missing /\ x.gone = {} /\ x \in OpRecord
  BY <1>1, <1>3 DEF OpRecord
<1> HIDE DEF x
<1>5. /\ Kinds(Grouped(x))
      /\ Grouped(x) = Idle \/ (Grouped(x).acct = a /\ Grouped(x).kind = "set")
  BY <1>4, GroupedKinds
<1>6. CASE ~Claims(W)
  BY <1>1, <1>2, <1>5, <1>6, AskedSame, Unclaimed DEF SameAsked
<1>7. CASE Claims(W)
  <2>1. SetGood(o, W, M, groups)
    BY <1>1, <1>7 DEF GroupsInv, AccountGood
  <2>2. /\ o.ask \in W /\ o.ask \subseteq groups /\ o.missing = {}
        /\ InAll(W) \subseteq o.ask /\ o.ask \subseteq UNION W
    BY <2>1 DEF SetGood, InAll
  <2>3. desired = o.ask
    BY <1>7, <2>2 DEF Claims, Taken, desired
  <2> HIDE DEF W
  <2>4. /\ x.ask \in W /\ x.ask \subseteq groups /\ x.missing = {} /\ x.gone = {}
        /\ x.drop \cap x.ask = {} /\ x.todo \subseteq x.ask
    BY <1>4, <2>2, <2>3
  <2>5. InAll(W) \subseteq M \cup x.todo /\ M \cap Team \subseteq (UNION W) \cup x.drop
    BY <1>4, <2>2, <2>3, Sets
  <2>6. \/ Grouped(x) = Idle /\ Settled(W, M)
        \/ /\ Grouped(x).acct = a /\ Grouped(x).kind = "set"
           /\ SetGood(Grouped(x), W, M, groups)
    BY <1>4, <2>4, <2>5, GroupedSets
  <2>7. QED
    BY <1>1, <1>2, <1>5, <1>7, <2>6, AskedSame, SetSteps DEF W
<1>8. QED
  BY <1>6, <1>7

\* One more set of groups is asked for: there is less that all asked for, and
\* less that nobody did.
LEMMA OneMoreAsked ==
    ASSUME NEW W, NEW gs
    PROVE  /\ \A o, M, G : SetGood(o, W, M, G) => SetGood(o, W \cup {gs}, M, G)
           /\ \A B, M : Between(W, B, M) => Between(W \cup {gs}, B, M)
           /\ W # {} /\ Claims(W \cup {gs}) => Claims(W)
<1>1. InAll(W \cup {gs}) \subseteq InAll(W) /\ UNION W \subseteq UNION (W \cup {gs})
  BY DEF InAll
<1>2. \A o, M, G : SetGood(o, W, M, G) => SetGood(o, W \cup {gs}, M, G)
  BY <1>1 DEF SetGood
<1>3. \A B, M : Between(W, B, M) => Between(W \cup {gs}, B, M)
  BY <1>1 DEF Between
<1>4. W # {} /\ Claims(W \cup {gs}) => Claims(W)
  BY <1>1 DEF Claims
<1>5. QED
  BY <1>2, <1>3, <1>4

LEMMA SetCheckGroups ==
    ASSUME TypeInv, CertInv, GroupsInv, NEW r \in Request, NEW a \in Account,
           NEW gs \in SUBSET Tak, SetCheck(r, a, gs)
    PROVE  GroupsInv'
<1> DEFINE x == [Idle EXCEPT !.pc = "plan", !.kind = "set", !.acct = a, !.ask = gs]
           alone == ~Working(a, {"set", "create"})
           W == wanted'[a]
<1>1. /\ r \in Proc /\ op[r] = Idle /\ Become(r, x)
      /\ gs \subseteq groups /\ gs \subseteq Team
      /\ UNCHANGED <<groups, member>>
  BY Sets DEF SetCheck, Arrive, GroupsAllowed, Listed, ldap
<1>2. op'[r] = x /\ \A q \in Proc \ {r} : op'[q] = op[q]
  BY <1>1 DEF Become, TypeInv, OpsTyped
<1>3. \A b \in Account \ {a} : SameAsked(b)
  BY DEF SetCheck, TypeInv, OthersTyped, SameAsked
<1>4. /\ alone => W = {gs} /\ before'[a] = member[a] \cap Team
      /\ ~alone => /\ W = {} \/ (W = wanted[a] \cup {gs} /\ wanted[a] # {})
                   /\ before' = before
  BY DEF SetCheck, TypeInv, OthersTyped
<1>5. /\ Kinds(x) /\ x.acct = a /\ x.kind = "set" /\ x.ask = gs /\ x.missing = {}
      /\ x.gone = {} /\ x.drop = {} /\ x.todo = {} /\ x.pc = "plan"
  BY DEF Kinds, Idle
<1>6. \A q \in Proc : Kinds(op[q])'
  BY <1>2, <1>5 DEF GroupsInv, Kinds
<1> HIDE DEF x
<1>7. ASSUME NEW b \in Account \ {a}, Claims(wanted'[b]) PROVE AccountGood(b)'
  <2>1. Claims(wanted[b])
    BY <1>3, <1>7 DEF SameAsked
  <2>2. QED
    BY <1>1, <1>2, <1>3, <1>5, <2>1, IdleKinds, SameAccount DEF GroupsInv, Setting
<1>8. ASSUME Claims(W) PROVE AccountGood(a)'
  <2>1. SetGood(x, W, member[a], groups)
    BY <1>1, <1>4, <1>5, <1>8 DEF SetGood, Claims
  <2>2. ~alone => /\ W = wanted[a] \cup {gs} /\ before' = before
                  /\ AccountGood(a)
    BY <1>4, <1>8, OneMoreAsked DEF GroupsInv, Claims
  <2>3. ASSUME NEW q \in Proc \ {r}, op[q].acct = a, op[q].kind \in {"set", "create"}
        PROVE  op[q].kind = "set" /\ SetGood(op[q], W, member[a], groups)
    <3>1. ~alone
      BY <2>3 DEF Working
    <3>2. op[q].kind = "set" /\ SetGood(op[q], wanted[a], member[a], groups)
      BY <2>2, <2>3, <3>1 DEF AccountGood
    <3>3. SetGood(op[q], wanted[a] \cup {gs}, member[a], groups)
      BY <3>2, OneMoreAsked
    <3>4. QED
      BY <2>2, <3>1, <3>2, <3>3
  <2>4. \A q \in Proc : op'[q].acct = a => op'[q].kind # "create"
    BY <1>2, <1>5, <2>3
  <2>5. \A q \in Proc : op'[q].acct = a /\ op'[q].kind = "set" =>
            SetGood(op'[q], W, member'[a], groups')
    BY <1>1, <1>2, <2>1, <2>3
  <2>6. Between(W, before'[a], member'[a])
    <3>1. CASE alone
      BY <1>1, <1>4, <3>1 DEF Between
    <3>2. CASE ~alone
      <4>1. Between(wanted[a], before[a], member[a])
        BY <2>2, <3>2 DEF AccountGood
      <4>2. Between(wanted[a] \cup {gs}, before[a], member[a])
        BY <4>1, OneMoreAsked
      <4>3. QED
        BY <1>1, <2>2, <3>2, <4>2
    <3>3. QED
      BY <3>1, <3>2
  <2>7. \E q \in Proc : op'[q].acct = a /\ op'[q].kind \in {"set"}
    BY <1>1, <1>2, <1>5
  <2>8. QED
    BY <2>4, <2>5, <2>6, <2>7 DEF AccountGood, Working
<1>9. QED
  BY <1>6, <1>7, <1>8 DEF GroupsInv, Claims

LEMMA GroupsInit == Init => GroupsInv
  BY IdleKinds DEF Init, GroupsInv, Claims

LEMMA GroupsStep == TypeInv /\ CertInv /\ GroupsInv /\ [Next]_vars => GroupsInv'
<1> SUFFICES ASSUME TypeInv, CertInv, GroupsInv, [Next]_vars PROVE GroupsInv'
  OBVIOUS
<1>1. CASE BootStart \/ BootCrash
  BY <1>1, BootEndsGroups
<1>2. CASE BootSchema \/ BootWebadmin \/ BootType \/ BootService \/ BootServiceType
  BY <1>2, BootSimpleGroups
<1>3. ASSUME NEW g \in Group, BootLookGroup(g) \/ BootMakeGroup(g) PROVE GroupsInv'
  BY <1>3, BootEnsureGroups
<1>4. ASSUME NEW p \in Proc, Groups(p) PROVE GroupsInv'
  BY <1>4, MakeGroupGroups, JoinGroups, DropGroups DEF Groups
<1>5. CASE BootNext \/ Crash
  BY <1>1, <1>2, <1>3, <1>4, <1>5, Sets, CrashGroups DEF BootNext
<1>6. ASSUME NEW g \in Tak, CreateGroup(g) \/ DeleteGroup(g) PROVE GroupsInv'
  BY <1>6, GroupGroups
<1>7. CASE UNCHANGED vars \/ \E a \in Account : RevokeByName(a)
  BY <1>7, OtherGroups
<1>8. ASSUME NEW r \in Request, ArriveAny(r) PROVE GroupsInv'
  BY <1>8, SetCheckGroups, ArrivalGroups DEF ArriveAny
<1>9. ASSUME NEW r \in Request, Step(r) PROVE GroupsInv'
  <2>1. CASE SetPlan(r) \/ Groups(r)
    BY <1>4, <2>1, Sets, SetPlanGroups
  <2>2. CASE \/ CreateUser(r) \/ CreateAttrs(r) \/ Deactivate(r) \/ MarkWrite(r)
             \/ EnsureGroups(r)
    BY <2>2, CreatesGroups, EnsureGroupsGroups
  <2>3. QED
    BY <1>9, <2>1, <2>2, CertGroups DEF Step
<1>10. QED
  BY <1>5, <1>6, <1>7, <1>8, <1>9 DEF Next

\* set_user_groups, "Replace user's tak_-prefixed groups": whatever requests
\* set one account's groups at the same time, in whatever order their
\* mutations fall and wherever one of them fails or is cut off, the account
\* keeps the groups it had and all of them asked for and gets none that none
\* did; and when they are through and none has failed it is in every group all
\* of them asked for and in no team that none did.  Of requests that name a
\* group whose listed name is taken for another one, nothing is claimed.
THEOREM GroupsBecomeAsAsked == Spec => []GroupsAsAsked
<1>1. GroupsInv => GroupsAsAsked
  <2> SUFFICES ASSUME GroupsInv, NEW a \in Account, wanted[a] # {}, Plainly(a)
               PROVE  /\ Agreed(a) \cap before[a] \subseteq member[a]
                      /\ member[a] \cap Team \subseteq before[a] \cup UNION wanted[a]
                      /\ ~Working(a, {"set", "create"}) /\ a \notin cut =>
                            /\ Agreed(a) \subseteq member[a]
                            /\ member[a] \cap Team \subseteq UNION wanted[a]
    BY DEF GroupsAsAsked
  <2>1. AccountGood(a) /\ Agreed(a) = InAll(wanted[a])
    BY DEF GroupsInv, Agreed, InAll, Claims, Plainly
  <2>2. ~Working(a, {"set", "create"}) => ~Working(a, {"set"})
    BY DEF Working
  <2>3. QED
    BY <2>1, <2>2 DEF AccountGood, Between, Settled
<1>2. QED
  BY <1>1, CertInvariant, GroupsInit, GroupsStep, PTL DEF Spec

=============================================================================
