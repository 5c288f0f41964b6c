---------------------------- MODULE AccountsProofs ----------------------------
(***************************************************************************)
(* Proofs about Accounts, for any people, services, teams and gate groups, *)
(* any number of request handlers, and with every failure.                 *)
(***************************************************************************)
EXTENDS Accounts, TLAPS

(***************************************************************************)
(* The inductive invariant.  Beside the types it says what a handler that  *)
(* is under way may rely on: the account it sets groups of is there, and a *)
(* group it still has to join was there when it looked (groups that have   *)
(* been deleted since are in `gone`).  M is `misled`: only for accounts in *)
(* it can a request for groups mean the role's.                            *)
(***************************************************************************)
Holds(o, U, G, M) ==
    /\ o.kind = "none" => o.pc = "idle"
    /\ o.pc # "idle" => o.acct \in Account
    /\ o.acct \in Person => o.mode = "user"
    /\ o.pc \in {"plan", "drop", "join", "attrs", "ensure"} => o.acct \in U
    /\ o.pc \in {"drop", "join"} => o.todo \ o.missing \subseteq G \cup o.gone
    /\ o.pc \in {"schema", "groups", "make"} =>
          DefaultGroups \ o.todo \subseteq G \cup o.gone
    /\ o.pc = "webadmin" => DefaultGroups \subseteq G \cup o.gone
    /\ o.pc \in {"schema", "groups", "make", "webadmin"} => o.acct = Webadmin
    /\ o.pc \in {"deactivate", "list", "revoke", "mark"} => o.acct \in Service
    /\ NamesRole(o.ask) => o.acct \in M
    /\ RoleAdmin \in o.todo => o.acct = Webadmin \/ o.acct \in M

LdapTyped ==
    /\ groups \subseteq Group /\ users \subseteq Account
    /\ member \in [Account -> SUBSET groups]
    /\ \A a \in Account \ users : member[a] = {}
    /\ utype \in [Account -> Types]
    /\ \A a \in Person : utype[a] \in {"none", "user"}
    /\ active \in [Account -> BOOLEAN] /\ schema \in BOOLEAN

CaTyped ==
    /\ files \in [Account -> Files]
    /\ crl \subseteq Nat /\ admins \subseteq Nat /\ fresh \in Nat

OthersTyped ==
    /\ booted \in BOOLEAN /\ disturbed \in BOOLEAN
    /\ starts \in Nat /\ boots \in Nat /\ faults \in Nat
    /\ wanted \in [Account -> SUBSET SUBSET Team]
    /\ before \in [Account -> SUBSET Team]
    /\ cut \subseteq Account /\ misled \subseteq Account
    /\ raced \subseteq Account
    /\ fate \in [Account -> {"none", "ready", "failed"}]
    /\ served \subseteq Account \X Nat

OpsTyped ==
    /\ op \in [Proc -> OpRecord]
    /\ \A p \in Proc : Holds(op[p], users, groups, misled)

TypeInv == LdapTyped /\ CaTyped /\ OthersTyped /\ OpsTyped

LEMMA TypeInvTypeOK == TypeInv => TypeOK
  BY DEF TypeInv, LdapTyped, CaTyped, OthersTyped, OpsTyped, TypeOK

(***************************************************************************)
(* Helpers.                                                                *)
(***************************************************************************)
LEMMA Sets ==
    /\ Webadmin \in Account /\ Builtin \in Account /\ Webadmin # Builtin
    /\ Builtin \notin Person /\ None \notin Account
    /\ RoleAdmin \in Tak /\ RoleAdmin \notin Team /\ Team \subseteq Tak
    /\ Tak \subseteq Group /\ DefaultGroups \subseteq Group
    /\ Boot \in Proc /\ Request \subseteq Proc
    /\ Person \subseteq Account /\ Service \subseteq Account
  BY AccountsAssumption DEF AccountsAssumption, Account, Tak, Group, DefaultGroups, Proc

LEMMA IdleOp ==
    /\ Idle \in OpRecord
    /\ \A U, G, M : Holds(Idle, U, G, M)
  BY Sets DEF Idle, OpRecord, Holds, Types, NamesRole

\* Users and groups that come into being take nothing away.
LEMMA HoldsOn ==
    ASSUME NEW o, NEW U, NEW G, NEW M, NEW U1, NEW G1, NEW M1,
           Holds(o, U, G, M), U \subseteq U1, G \subseteq G1, M \subseteq M1
    PROVE  Holds(o, U1, G1, M1)
  BY DEF Holds

\* One process moves, LLDAP forgets neither users nor groups.
LEMMA Moves ==
    ASSUME OpsTyped, NEW p \in Proc, NEW o \in OpRecord,
           op' = [op EXCEPT ![p] = o],
           Holds(o, users', groups', misled'),
           users \subseteq users', groups \subseteq groups',
           misled \subseteq misled'
    PROVE  OpsTyped'
<1>1. op' \in [Proc -> OpRecord]
  BY DEF OpsTyped
<1>2. \A q \in Proc : Holds(op'[q], users', groups', misled')
  <2> TAKE q \in Proc
  <2>1. CASE q = p
    BY <2>1 DEF OpsTyped
  <2>2. CASE q # p
    <3>1. op'[q] = op[q] /\ Holds(op[q], users, groups, misled)
      BY <2>2 DEF OpsTyped
    <3>2. QED
      BY <3>1, HoldsOn
  <2>3. QED
    BY <2>1, <2>2
<1>3. QED
  BY <1>1, <1>2 DEF OpsTyped

\* A handler that gives up leaves nothing to be done.
LEMMA Raises ==
    ASSUME OpsTyped, OthersTyped, NEW p \in Proc, op[p].pc # "idle", Raise(p),
           users \subseteq users', groups \subseteq groups',
           UNCHANGED <<starts, boots, served, misled>>, raced' \subseteq Account,
           booted' \in BOOLEAN, faults' \in Nat, disturbed' \in BOOLEAN
    PROVE  OpsTyped' /\ OthersTyped'
<1>1. op[p] \in OpRecord /\ Holds(op[p], users, groups, misled)
  BY DEF OpsTyped
<1>2. op[p].acct \in Account
  BY <1>1 DEF Holds
<1>3. OthersTyped'
  BY <1>2 DEF Raise, OthersTyped
<1>4. PICK o : op' = [op EXCEPT ![p] = o]
               /\ o \in {Idle, [op[p] EXCEPT !.pc = "failed"]}
  BY DEF Raise, Become
<1>5. o \in OpRecord
  BY <1>1, <1>4, IdleOp DEF OpRecord
<1>6. Holds(o, users', groups', misled')
  <2>1. CASE o = Idle
    BY <2>1, IdleOp
  <2>2. CASE o = [op[p] EXCEPT !.pc = "failed"]
    BY <1>1, <2>2 DEF Holds, OpRecord
  <2>3. QED
    BY <1>4, <2>1, <2>2
<1>7. QED
  BY <1>3, <1>4, <1>5, <1>6, Moves

\* Where a process goes with its groups.
LEMMA GroupedHolds ==
    ASSUME NEW o \in OpRecord, NEW U, NEW G, NEW M,
           o.kind # "none", o.acct \in Account, o.acct \in U,
           o.acct \in Person => o.mode = "user",
           o.todo \ o.missing \subseteq G \cup o.gone,
           NamesRole(o.ask) => o.acct \in M,
           RoleAdmin \in o.todo => o.acct = Webadmin \/ o.acct \in M
    PROVE  Grouped(o) \in OpRecord /\ Holds(Grouped(o), U, G, M)
<1>1. PICK pc \in {"drop", "join", "type", "csr"} :
         Grouped(o) = [o EXCEPT !.pc = pc] \/ Grouped(o) = Idle
  BY DEF Grouped
<1>2. [o EXCEPT !.pc = pc] \in OpRecord
  BY DEF OpRecord
<1>3. Holds([o EXCEPT !.pc = pc], U, G, M)
  BY DEF Holds, OpRecord
<1>4. QED
  BY <1>1, <1>2, <1>3, IdleOp

(***************************************************************************)
(* Initially, and by the steps of no process.                              *)
(***************************************************************************)
LEMMA TypeInit == Init => TypeInv
<1> SUFFICES ASSUME Init PROVE TypeInv
  OBVIOUS
<1>1. LdapTyped
  <2>1. DefaultGroups \cup Made \subseteq Group
    BY Sets, AccountsAssumption DEF AccountsAssumption
  <2>2. member \in [Account -> SUBSET groups]
    BY DEF Init
  <2>3. groups \subseteq Group /\ users \subseteq Account
    BY <2>1, Sets DEF Init
  <2>4. \A a \in Account \ users : member[a] = {}
    BY DEF Init
  <2>5. utype \in [Account -> Types] /\ \A a \in Person : utype[a] \in {"none", "user"}
    BY Sets DEF Init, Types
  <2>6. QED
    BY <2>2, <2>3, <2>4, <2>5 DEF Init, LdapTyped
<1>2. CaTyped
  BY DEF Init, CaTyped, Files, NoFiles
<1>3. OthersTyped
  BY DEF Init, OthersTyped
<1>4. OpsTyped
  BY IdleOp DEF Init, OpsTyped
<1>5. QED
  BY <1>1, <1>2, <1>3, <1>4 DEF TypeInv

LEMMA CreateGroupTyped ==
    ASSUME TypeInv, NEW g \in Tak, CreateGroup(g) PROVE TypeInv'
<1>1. LdapTyped'
  BY Sets DEF CreateGroup, TypeInv, LdapTyped
<1>2. CaTyped' /\ OthersTyped'
  BY DEF CreateGroup, TypeInv, CaTyped, OthersTyped, ca, history, asked
<1>3. OpsTyped'
  <2>1. \A p \in Proc : Holds(op[p], users', groups', misled')
    BY HoldsOn DEF CreateGroup, TypeInv, OpsTyped, history
  <2>2. QED
    BY <2>1 DEF CreateGroup, TypeInv, OpsTyped
<1>4. QED
  BY <1>1, <1>2, <1>3 DEF TypeInv

LEMMA DeleteGroupTyped ==
    ASSUME TypeInv, NEW g \in Tak, DeleteGroup(g) PROVE TypeInv'
<1>1. LdapTyped'
  <2>1. member' \in [Account -> SUBSET groups']
    BY DEF DeleteGroup, TypeInv, LdapTyped
  <2>2. QED
    BY <2>1 DEF DeleteGroup, TypeInv, LdapTyped
<1>2. CaTyped' /\ OthersTyped'
  BY DEF DeleteGroup, TypeInv, CaTyped, OthersTyped, ca, history
<1>3. ASSUME NEW p \in Proc
      PROVE  op'[p] \in OpRecord /\ Holds(op'[p], users', groups', misled')
  <2>1. op[p] \in OpRecord /\ Holds(op[p], users, groups, misled)
    BY DEF TypeInv, OpsTyped
  <2>2. CASE op[p].kind = "none"
    <3>1. op'[p] = op[p] /\ op[p].pc = "idle" /\ users' = users /\ misled' = misled
      BY <2>1, <2>2 DEF DeleteGroup, Holds, history
    <3>2. QED
      BY <2>1, <3>1 DEF Holds
  <2>3. CASE op[p].kind # "none"
    <3>1. /\ op'[p] = [op[p] EXCEPT !.gone = @ \cup {g}]
          /\ users' = users /\ groups' = groups \ {g} /\ misled' = misled
      BY <2>3 DEF DeleteGroup, history
    <3>2. op'[p] \in OpRecord
      BY <2>1, <3>1 DEF OpRecord
    <3>3. Holds(op'[p], users', groups', misled')
      BY <2>1, <3>1 DEF Holds, OpRecord
    <3>4. QED
      BY <3>2, <3>3
  <2>4. QED
    BY <2>2, <2>3
<1>4. op' = [p \in Proc |-> op'[p]]
  BY DEF DeleteGroup
<1>5. OpsTyped'
  BY <1>3, <1>4 DEF OpsTyped
<1>6. QED
  BY <1>1, <1>2, <1>5 DEF TypeInv

LEMMA RevokeByNameTyped ==
    ASSUME TypeInv, NEW a \in Account, RevokeByName(a) PROVE TypeInv'
<1>1. files[a].pem.serial \in Nat
  BY DEF TypeInv, CaTyped, Files
<1>2. CaTyped'
  BY <1>1 DEF RevokeByName, TypeInv, CaTyped
<1>2a. OthersTyped'
  BY DEF RevokeByName, TypeInv, OthersTyped, history, asked
<1>3. LdapTyped' /\ OpsTyped'
  <2>1. UNCHANGED ldap /\ UNCHANGED op /\ misled' = misled
    BY DEF RevokeByName, history
  <2>2. QED
    BY <2>1 DEF TypeInv, LdapTyped, OpsTyped, ldap
<1>4. QED
  BY <1>2, <1>2a, <1>3 DEF TypeInv

LEMMA CrashTyped ==
    ASSUME TypeInv, Crash PROVE TypeInv'
<1>1. \A p \in Proc : op'[p] \in {op[p], Idle}
  BY DEF Crash
<1>2. op' = [p \in Proc |-> op'[p]]
  BY DEF Crash
<1>3. OpsTyped'
  BY <1>1, <1>2, IdleOp DEF Crash, TypeInv, OpsTyped, ldap, history
<1>4. cut' \subseteq Account
  BY DEF Crash, TypeInv, OthersTyped
<1>5. QED
  BY <1>3, <1>4 DEF Crash, Fault, TypeInv, LdapTyped, CaTyped, OthersTyped,
                   ldap, ca, bounds, history

\* A mutation is applied or not, and the handler goes on or gives up.
LEMMA Outcomes ==
    ASSUME OthersTyped, NEW p, NEW next, NEW ACTION effect,
           Mutation(p, effect, next)
    PROVE  /\ effect \/ UNCHANGED ldap
           /\ disturbed' \in BOOLEAN /\ faults' \in Nat
           /\ \/ effect /\ Become(p, next) /\ UNCHANGED <<asked, fate>>
              \/ Raise(p)
<1>1. disturbed' \in BOOLEAN
  BY DEF Mutation
<1>2. faults' \in Nat
  BY DEF Mutation, Fault, OthersTyped
<1>3. QED
  BY <1>1, <1>2 DEF Mutation

LEMMA MutationTyped ==
    ASSUME TypeInv, NEW p \in Proc, op[p].pc # "idle", NEW next \in OpRecord,
           NEW ACTION effect, Mutation(p, effect, next),
           effect => /\ LdapTyped' /\ users \subseteq users'
                     /\ groups \subseteq groups' /\ Holds(next, users', groups', misled),
           UNCHANGED <<ca, starts, boots, served, misled>>,
           raced' \subseteq Account, booted' \in BOOLEAN
    PROVE  TypeInv'
<1>1. OthersTyped /\ OpsTyped
  BY DEF TypeInv
<1>2. /\ effect \/ UNCHANGED ldap
      /\ disturbed' \in BOOLEAN /\ faults' \in Nat
      /\ \/ effect /\ Become(p, next) /\ UNCHANGED <<asked, fate>>
         \/ Raise(p)
  BY <1>1, Outcomes
<1>3. UNCHANGED ldap => LdapTyped' /\ users' = users /\ groups' = groups
  BY DEF TypeInv, LdapTyped, ldap
<1>4. LdapTyped' /\ users \subseteq users' /\ groups \subseteq groups'
  BY <1>2, <1>3
<1>5. CaTyped'
  BY DEF TypeInv, CaTyped, ca
<1>6. CASE Raise(p)
  BY <1>1, <1>2, <1>4, <1>5, <1>6, Raises DEF TypeInv
<1>7. CASE effect /\ Become(p, next) /\ UNCHANGED <<asked, fate>>
  <2>0. Holds(next, users', groups', misled')
    BY <1>7
  <2>1. OpsTyped'
    BY <1>1, <1>4, <1>7, <2>0, Moves DEF Become
  <2>2. OthersTyped'
    BY <1>1, <1>2, <1>7 DEF OthersTyped, asked
  <2>3. QED
    BY <1>4, <1>5, <2>1, <2>2 DEF TypeInv
<1>8. QED
  BY <1>2, <1>6, <1>7

LEMMA RefusedTyped ==
    ASSUME TypeInv, NEW p \in Proc, op[p].pc # "idle", Refused(p),
           UNCHANGED <<ca, bounds, history>>
    PROVE  TypeInv'
<1>1. LdapTyped' /\ users' = users /\ groups' = groups
  BY DEF Refused, TypeInv, LdapTyped, ldap
<1>2. CaTyped'
  BY DEF TypeInv, CaTyped, ca
<1>3. /\ booted' \in BOOLEAN /\ faults' \in Nat /\ disturbed' \in BOOLEAN
      /\ UNCHANGED <<starts, boots, served, misled>> /\ raced' \subseteq Account
  BY DEF Refused, TypeInv, OthersTyped, bounds, history
<1>4. QED
  BY <1>1, <1>2, <1>3, Raises DEF Refused, TypeInv

\* What a process has for its record, by its place.
LEMMA OpOf ==
    ASSUME TypeInv, NEW p \in Proc
    PROVE  op[p] \in OpRecord /\ Holds(op[p], users, groups, misled)
  BY DEF TypeInv, OpsTyped

LEMMA Quiet ==
    ASSUME TypeInv, UNCHANGED <<ca, bounds, history>>
    PROVE  /\ UNCHANGED <<ca, starts, boots, served, misled>>
           /\ raced' \subseteq Account /\ booted' \in BOOLEAN
  BY DEF TypeInv, OthersTyped, bounds, history

(***************************************************************************)
(* Groups.                                                                 *)
(***************************************************************************)
LEMMA MakeGroupTyped ==
    ASSUME TypeInv, NEW p \in Proc, NEW g \in Group, MakeGroup(p, g)
    PROVE  TypeInv'
<1> DEFINE o == op[p]
           next == [o EXCEPT !.missing = @ \ {g}, !.gone = @ \ {g}]
           made == /\ groups' = groups \cup {g}
                   /\ UNCHANGED <<users, member, utype, active, schema>>
<1>1. o \in OpRecord /\ Holds(o, users, groups, misled) /\ o.pc = "join"
  BY OpOf DEF MakeGroup
<1>2. UNCHANGED <<ca, bounds, history>>
  BY DEF MakeGroup
<1>3. Mutation(p, made, next) \/ Refused(p)
  BY DEF MakeGroup
<1>4. next \in OpRecord
  BY <1>1 DEF OpRecord
<1>5. made => /\ LdapTyped' /\ users \subseteq users'
              /\ groups \subseteq groups' /\ Holds(next, users', groups', misled)
  <2> SUFFICES ASSUME made
               PROVE  /\ LdapTyped' /\ users \subseteq users'
                      /\ groups \subseteq groups' /\ Holds(next, users', groups', misled)
    OBVIOUS
  <2>1. LdapTyped'
    BY DEF TypeInv, LdapTyped
  <2>2. Holds(next, users', groups', misled)
    BY <1>1 DEF Holds, OpRecord
  <2>3. QED
    BY <2>1, <2>2
<1> HIDE DEF made, next
<1>6. CASE Refused(p)
  BY <1>1, <1>2, <1>6, RefusedTyped
<1>7. CASE Mutation(p, made, next)
  BY <1>1, <1>2, <1>4, <1>5, <1>7, Quiet, MutationTyped
<1>8. QED
  BY <1>3, <1>6, <1>7

LEMMA JoinTyped ==
    ASSUME TypeInv, NEW p \in Proc, NEW g \in Group, Join(p, g)
    PROVE  TypeInv'
<1> DEFINE o == op[p]
           rest == [o EXCEPT !.todo = @ \ {g}]
           next == Grouped(rest)
           joins == /\ member' = [member EXCEPT ![o.acct] = @ \cup {g}]
                    /\ UNCHANGED <<groups, users, utype, active, schema>>
<1>1. /\ o \in OpRecord /\ Holds(o, users, groups, misled) /\ o.pc = "join"
      /\ g \in o.todo \ o.missing
  BY OpOf DEF Join
<1>2. UNCHANGED <<ca, bounds, history>>
  BY DEF Join
<1>3. (g \notin o.gone /\ Mutation(p, joins, next)) \/ Refused(p)
  BY DEF Join
<1>4. o.acct \in Account /\ o.acct \in users
  BY <1>1 DEF Holds
<1>5. rest \in OpRecord
  BY <1>1 DEF OpRecord
<1>6. next \in OpRecord /\ Holds(next, users, groups, misled)
  <2>1. /\ rest.kind # "none" /\ rest.acct \in users /\ rest.acct \in Account
        /\ rest.acct \in Person => rest.mode = "user"
        /\ rest.todo \ rest.missing \subseteq groups \cup rest.gone
        /\ NamesRole(rest.ask) => rest.acct \in misled
        /\ RoleAdmin \in rest.todo => rest.acct = Webadmin \/ rest.acct \in misled
    BY <1>1, <1>4 DEF Holds, OpRecord
  <2> HIDE DEF rest
  <2>2. QED
    BY <1>5, <2>1, GroupedHolds
<1>7. ASSUME g \notin o.gone, joins
      PROVE  /\ LdapTyped' /\ users \subseteq users'
             /\ groups \subseteq groups' /\ Holds(next, users', groups', misled)
  <2>1. g \in groups
    BY <1>1, <1>7 DEF Holds
  <2>2. LdapTyped'
    BY <1>4, <1>7, <2>1 DEF TypeInv, LdapTyped
  <2>3. users' = users /\ groups' = groups
    BY <1>7
  <2> HIDE DEF next
  <2>4. QED
    BY <1>6, <2>2, <2>3
<1> HIDE DEF joins, next
<1>8. CASE Refused(p)
  BY <1>1, <1>2, <1>8, RefusedTyped
<1>9. CASE g \notin o.gone /\ Mutation(p, joins, next)
  BY <1>1, <1>2, <1>6, <1>7, <1>9, Quiet, MutationTyped
<1>10. QED
  BY <1>3, <1>8, <1>9

LEMMA DropTyped ==
    ASSUME TypeInv, NEW p \in Proc, NEW g \in Group, Drop(p, g)
    PROVE  TypeInv'
<1> DEFINE o == op[p]
           rest == [o EXCEPT !.drop = @ \ {g}]
           next == Grouped(rest)
           leaves == /\ member' = [member EXCEPT ![o.acct] = @ \ {g}]
                     /\ UNCHANGED <<groups, users, utype, active, schema>>
<1>1. o \in OpRecord /\ Holds(o, users, groups, misled) /\ o.pc = "drop"
  BY OpOf DEF Drop
<1>2. UNCHANGED <<ca, bounds, history>>
  BY DEF Drop
<1>3. Mutation(p, leaves, next) \/ Mutation(p, UNCHANGED ldap, next) \/ Refused(p)
  BY DEF Drop
<1>4. o.acct \in Account /\ o.acct \in users
  BY <1>1 DEF Holds
<1>5. rest \in OpRecord
  BY <1>1 DEF OpRecord
<1>6. next \in OpRecord /\ Holds(next, users, groups, misled)
  <2>1. /\ rest.kind # "none" /\ rest.acct \in users /\ rest.acct \in Account
        /\ rest.acct \in Person => rest.mode = "user"
        /\ rest.todo \ rest.missing \subseteq groups \cup rest.gone
        /\ NamesRole(rest.ask) => rest.acct \in misled
        /\ RoleAdmin \in rest.todo => rest.acct = Webadmin \/ rest.acct \in misled
    BY <1>1, <1>4 DEF Holds, OpRecord
  <2> HIDE DEF rest
  <2>2. QED
    BY <1>5, <2>1, GroupedHolds
<1>7. ASSUME leaves \/ UNCHANGED ldap
      PROVE  /\ LdapTyped' /\ users \subseteq users'
             /\ groups \subseteq groups' /\ Holds(next, users', groups', misled)
  <2>1. LdapTyped' /\ users' = users /\ groups' = groups
    <3>1. CASE leaves
      BY <1>4, <3>1 DEF TypeInv, LdapTyped
    <3>2. CASE UNCHANGED ldap
      BY <3>2 DEF TypeInv, LdapTyped, ldap
    <3>3. QED
      BY <1>7, <3>1, <3>2
  <2> HIDE DEF next
  <2>2. QED
    BY <1>6, <2>1
<1> HIDE DEF leaves, next
<1>8. CASE Refused(p)
  BY <1>1, <1>2, <1>8, RefusedTyped
<1>9. CASE Mutation(p, leaves, next)
  BY <1>1, <1>2, <1>6, <1>7, <1>9, Quiet, MutationTyped
<1>10. CASE Mutation(p, UNCHANGED ldap, next)
  BY <1>1, <1>2, <1>6, <1>7, <1>10, Quiet, MutationTyped
<1>11. QED
  BY <1>3, <1>8, <1>9, <1>10

(***************************************************************************)
(* The other mutations of handlers and of init-identity.                   *)
(***************************************************************************)
\* The handler goes on to pc; what it holds there it holds already.
LEMMA PcHolds ==
    ASSUME NEW o \in OpRecord, NEW U, NEW G, NEW M, NEW pc, Holds(o, U, G, M),
           o.kind # "none", o.acct \in Account,
           pc \in {"csr", "sign", "p12", "pems", "certmod", "rollback",
                  "unpem", "check", "send", "type", "service", "svctype", "done"}
    PROVE  [o EXCEPT !.pc = pc] \in OpRecord /\ Holds([o EXCEPT !.pc = pc], U, G, M)
  BY DEF Holds, OpRecord

LEMMA UserMade ==
    ASSUME TypeInv, NEW a \in Account, users' = users \cup {a},
           UNCHANGED <<groups, member, utype, active, schema>>
    PROVE  LdapTyped' /\ users \subseteq users' /\ groups \subseteq groups'
  BY DEF TypeInv, LdapTyped

LEMMA CreateUserTyped ==
    ASSUME TypeInv, NEW r \in Request, CreateUser(r) PROVE TypeInv'
<1> DEFINE next == [op[r] EXCEPT !.pc = "attrs"]
           made == /\ users' = users \cup {op[r].acct}
                   /\ UNCHANGED <<groups, member, utype, active, schema>>
<1>1. /\ op[r] \in OpRecord /\ Holds(op[r], users, groups, misled)
      /\ op[r].pc = "create" /\ r \in Proc
  BY OpOf, Sets DEF CreateUser
<1>2. op[r].acct \in Account
  BY <1>1 DEF Holds
<1>3. next \in OpRecord
  BY <1>1 DEF OpRecord
<1>4. ASSUME made
      PROVE  /\ LdapTyped' /\ users \subseteq users'
             /\ groups \subseteq groups' /\ Holds(next, users', groups', misled)
  <2>1. LdapTyped' /\ users \subseteq users' /\ groups \subseteq groups'
    BY <1>2, <1>4, UserMade
  <2>2. Holds(next, users', groups', misled)
    BY <1>1, <1>4 DEF Holds, OpRecord
  <2>3. QED
    BY <2>1, <2>2
<1>5. Mutation(r, made, next) /\ UNCHANGED <<ca, bounds, history>>
  BY DEF CreateUser
<1> HIDE DEF made, next
<1>6. QED
  BY <1>1, <1>3, <1>4, <1>5, Quiet, MutationTyped

LEMMA CreateAttrsTyped ==
    ASSUME TypeInv, NEW r \in Request, CreateAttrs(r) PROVE TypeInv'
<1> DEFINE pc == IF op[r].ask = {} THEN "csr" ELSE "ensure"
           next == [op[r] EXCEPT !.pc = pc]
           typed == /\ utype' = [utype EXCEPT ![op[r].acct] = op[r].mode]
                    /\ UNCHANGED <<groups, users, member, active, schema>>
<1>1. /\ op[r] \in OpRecord /\ Holds(op[r], users, groups, misled)
      /\ op[r].pc = "attrs" /\ r \in Proc
  BY OpOf, Sets DEF CreateAttrs
<1>2. op[r].acct \in Account
  BY <1>1 DEF Holds
<1>3. next \in OpRecord /\ Holds(next, users, groups, misled)
  BY <1>1 DEF Holds, OpRecord
<1>4. ASSUME typed
      PROVE  /\ LdapTyped' /\ users \subseteq users'
             /\ groups \subseteq groups' /\ Holds(next, users', groups', misled)
  <2>1. op[r].mode \in Types /\ (op[r].acct \in Person => op[r].mode = "user")
    BY <1>1 DEF Holds, OpRecord
  <2>2. LdapTyped'
    BY <1>2, <1>4, <2>1 DEF TypeInv, LdapTyped
  <2>3. users' = users /\ groups' = groups
    BY <1>4
  <2> HIDE DEF next
  <2>4. QED
    BY <1>3, <2>2, <2>3
<1>5. Mutation(r, typed, next) /\ UNCHANGED <<ca, bounds, history>>
  BY DEF CreateAttrs
<1> HIDE DEF typed, next
<1>6. QED
  BY <1>1, <1>3, <1>4, <1>5, Quiet, MutationTyped

LEMMA DeactivateTyped ==
    ASSUME TypeInv, NEW r \in Request, Deactivate(r) PROVE TypeInv'
<1> DEFINE next == [op[r] EXCEPT !.pc = "list"]
           closed == /\ active' = [active EXCEPT ![op[r].acct] = FALSE]
                     /\ UNCHANGED <<groups, users, member, utype, schema>>
<1>1. /\ op[r] \in OpRecord /\ Holds(op[r], users, groups, misled)
      /\ op[r].pc = "deactivate" /\ r \in Proc
  BY OpOf, Sets DEF Deactivate
<1>2. next \in OpRecord /\ Holds(next, users, groups, misled)
  BY <1>1 DEF Holds, OpRecord
<1>3. ASSUME closed
      PROVE  /\ LdapTyped' /\ users \subseteq users'
             /\ groups \subseteq groups' /\ Holds(next, users', groups', misled)
  <2>1. LdapTyped'
    BY <1>3 DEF TypeInv, LdapTyped
  <2>2. users' = users /\ groups' = groups
    BY <1>3
  <2> HIDE DEF next
  <2>3. QED
    BY <1>2, <2>1, <2>2
<1>4. Mutation(r, closed, next) /\ UNCHANGED <<ca, bounds, history>>
  BY DEF Deactivate
<1> HIDE DEF closed, next
<1>5. QED
  BY <1>1, <1>2, <1>3, <1>4, Quiet, MutationTyped

LEMMA BootSchemaTyped == ASSUME TypeInv, BootSchema PROVE TypeInv'
<1> DEFINE next == [op[Boot] EXCEPT !.pc = "groups"]
           made == schema' = TRUE /\ UNCHANGED <<groups, users, member, utype, active>>
<1>1. /\ op[Boot] \in OpRecord /\ Holds(op[Boot], users, groups, misled)
      /\ op[Boot].pc = "schema" /\ Boot \in Proc
  BY OpOf, Sets DEF BootSchema
<1>2. next \in OpRecord /\ Holds(next, users, groups, misled)
  BY <1>1 DEF Holds, OpRecord
<1>3. ASSUME made
      PROVE  /\ LdapTyped' /\ users \subseteq users'
             /\ groups \subseteq groups' /\ Holds(next, users', groups', misled)
  <2>1. LdapTyped'
    BY <1>3 DEF TypeInv, LdapTyped
  <2>2. users' = users /\ groups' = groups
    BY <1>3
  <2> HIDE DEF next
  <2>3. QED
    BY <1>2, <2>1, <2>2
<1>4. Mutation(Boot, made, next) /\ UNCHANGED <<ca, bounds, history>>
  BY DEF BootSchema
<1> HIDE DEF made, next
<1>5. QED
  BY <1>1, <1>2, <1>3, <1>4, Quiet, MutationTyped

\* Where init-identity goes with its groups.
LEMMA EnsuredHolds ==
    ASSUME NEW o \in OpRecord, NEW U, NEW G, NEW M, Holds(o, U, G, M),
           o.kind # "none", o.acct = Webadmin,
           DefaultGroups \ o.todo \subseteq G \cup o.gone
    PROVE  GroupsEnsured(o) \in OpRecord /\ Holds(GroupsEnsured(o), U, G, M)
<1>1. PICK pc \in {"groups", "webadmin", "service"} :
         GroupsEnsured(o) = [o EXCEPT !.pc = pc] /\ (pc # "groups" => o.todo = {})
  BY DEF GroupsEnsured
<1>2. [o EXCEPT !.pc = pc] \in OpRecord
  BY DEF OpRecord
<1>3. Holds([o EXCEPT !.pc = pc], U, G, M)
  BY <1>1, Sets DEF Holds, OpRecord
<1>4. QED
  BY <1>1, <1>2, <1>3

LEMMA BootMakeGroupTyped ==
    ASSUME TypeInv, NEW g \in Group, BootMakeGroup(g) PROVE TypeInv'
<1> DEFINE o == op[Boot]
           rest == [o EXCEPT !.todo = @ \ {g}, !.gone = @ \ {g}, !.missing = {}]
           next == GroupsEnsured(rest)
           made == /\ groups' = groups \cup {g}
                   /\ UNCHANGED <<users, member, utype, active, schema>>
<1>1. /\ o \in OpRecord /\ Holds(o, users, groups, misled)
      /\ o.pc = "make" /\ Boot \in Proc
  BY OpOf, Sets DEF BootMakeGroup
<1>2. rest \in OpRecord
  BY <1>1 DEF OpRecord
<1>3. ASSUME made
      PROVE  next \in OpRecord /\ Holds(next, users', groups', misled)
  <2>1. /\ rest.kind # "none" /\ rest.acct = Webadmin
        /\ DefaultGroups \ rest.todo \subseteq groups' \cup rest.gone
    BY <1>1, <1>3 DEF Holds, OpRecord
  <2>2. Holds(rest, users', groups', misled)
    BY <1>1, <1>3, <2>1 DEF Holds, OpRecord
  <2> HIDE DEF rest
  <2>3. QED
    BY <1>2, <2>1, <2>2, EnsuredHolds
<1>4. next \in OpRecord
  <2>1. PICK pc \in {"groups", "webadmin", "service"} : next = [rest EXCEPT !.pc = pc]
    BY DEF GroupsEnsured
  <2> HIDE DEF rest, next
  <2>2. QED
    BY <1>2, <2>1 DEF OpRecord
<1>5. ASSUME made
      PROVE  /\ LdapTyped' /\ users \subseteq users' /\ groups \subseteq groups'
  BY <1>5 DEF TypeInv, LdapTyped
<1>6. /\ Mutation(Boot, made, next) \/ Refused(Boot)
      /\ UNCHANGED <<ca, bounds, history>>
  BY DEF BootMakeGroup
<1> HIDE DEF made, next
<1>7. CASE Refused(Boot)
  BY <1>1, <1>6, <1>7, RefusedTyped
<1>8. CASE Mutation(Boot, made, next)
  BY <1>1, <1>3, <1>4, <1>5, <1>6, <1>8, Quiet, MutationTyped
<1>9. QED
  BY <1>6, <1>7, <1>8

LEMMA BootWebadminTyped == ASSUME TypeInv, BootWebadmin PROVE TypeInv'
<1> DEFINE next == [op[Boot] EXCEPT !.pc = "join", !.todo = DefaultGroups]
           made == /\ users' = users \cup {Webadmin}
                   /\ UNCHANGED <<groups, member, utype, active, schema>>
<1>1. /\ op[Boot] \in OpRecord /\ Holds(op[Boot], users, groups, misled)
      /\ op[Boot].pc = "webadmin" /\ Boot \in Proc
  BY OpOf, Sets DEF BootWebadmin
<1>2. next \in OpRecord
  BY <1>1, Sets DEF OpRecord
<1>3. ASSUME made
      PROVE  /\ LdapTyped' /\ users \subseteq users'
             /\ groups \subseteq groups' /\ Holds(next, users', groups', misled)
  <2>1. LdapTyped' /\ users \subseteq users' /\ groups \subseteq groups'
    BY <1>3, Sets, UserMade
  <2>2. Holds(next, users', groups', misled)
    BY <1>1, <1>3, Sets DEF Holds, OpRecord
  <2>3. QED
    BY <2>1, <2>2
<1>4. Mutation(Boot, made, next) /\ UNCHANGED <<ca, bounds, history>>
  BY DEF BootWebadmin
<1> HIDE DEF made, next
<1>5. QED
  BY <1>1, <1>2, <1>3, <1>4, Quiet, MutationTyped

LEMMA BootServiceTyped == ASSUME TypeInv, BootService PROVE TypeInv'
<1> DEFINE next == [op[Boot] EXCEPT !.pc = "svctype"]
           made == /\ users' = users \cup {Builtin}
                   /\ UNCHANGED <<groups, member, utype, active, schema>>
<1>1. /\ op[Boot] \in OpRecord /\ Holds(op[Boot], users, groups, misled)
      /\ op[Boot].pc = "service" /\ Boot \in Proc
  BY OpOf, Sets DEF BootService
<1>2. next \in OpRecord
  BY <1>1 DEF OpRecord
<1>3. ASSUME made
      PROVE  /\ LdapTyped' /\ users \subseteq users'
             /\ groups \subseteq groups' /\ Holds(next, users', groups', misled)
  <2>1. LdapTyped' /\ users \subseteq users' /\ groups \subseteq groups'
    BY <1>3, Sets, UserMade
  <2>2. Holds(next, users', groups', misled)
    BY <1>1, <1>3, Sets DEF Holds, OpRecord
  <2>3. QED
    BY <2>1, <2>2
<1>4. Mutation(Boot, made, next) /\ UNCHANGED <<ca, bounds, history>>
  BY DEF BootService
<1> HIDE DEF made, next
<1>5. QED
  BY <1>1, <1>2, <1>3, <1>4, Quiet, MutationTyped

LEMMA SetTypeTyped ==
    ASSUME TypeInv, NEW a \in Account, NEW type \in Types,
           a \in Person => type = "user",
           NEW pc \in {"service", "done"}, SetType(a, type, pc),
           op[Boot].pc # "idle", booted' \in BOOLEAN
    PROVE  TypeInv'
<1> DEFINE next == [op[Boot] EXCEPT !.pc = pc]
           typed == /\ schema
                    /\ utype' = [utype EXCEPT ![a] = type]
                    /\ UNCHANGED <<groups, users, member, active, schema>>
<1>1. op[Boot] \in OpRecord /\ Holds(op[Boot], users, groups, misled) /\ Boot \in Proc
  BY OpOf, Sets
<1>2. next \in OpRecord /\ Holds(next, users, groups, misled)
  <2>1. op[Boot].kind # "none" /\ op[Boot].acct \in Account
    BY <1>1 DEF Holds
  <2>2. QED
    BY <1>1, <2>1, PcHolds
<1>3. ASSUME typed
      PROVE  /\ LdapTyped' /\ users \subseteq users'
             /\ groups \subseteq groups' /\ Holds(next, users', groups', misled)
  <2>1. LdapTyped'
    BY <1>3 DEF TypeInv, LdapTyped
  <2>2. users' = users /\ groups' = groups
    BY <1>3
  <2> HIDE DEF next
  <2>3. QED
    BY <1>2, <2>1, <2>2
<1>4. /\ Mutation(Boot, typed, next) /\ UNCHANGED <<ca, starts, boots, served, misled>>
      /\ raced' \subseteq Account
  BY DEF SetType, history, TypeInv, OthersTyped
<1> HIDE DEF typed, next
<1>5. QED
  BY <1>1, <1>2, <1>3, <1>4, MutationTyped

LEMMA BootTypeTyped == ASSUME TypeInv, BootType PROVE TypeInv'
  BY Sets, SetTypeTyped DEF BootType, TypeInv, OthersTyped, Types

LEMMA BootServiceTypeTyped == ASSUME TypeInv, BootServiceType PROVE TypeInv'
  BY Sets, SetTypeTyped DEF BootServiceType, TypeInv, OthersTyped, Types

(***************************************************************************)
(* Steps that leave LLDAP alone.                                           *)
(***************************************************************************)
LEMMA RequestTyped ==
    ASSUME TypeInv, NEW p \in Proc, NEW next \in OpRecord,
           Holds(next, users, groups, misled'), Become(p, next), UNCHANGED ldap,
           CaTyped', OthersTyped', misled \subseteq misled'
    PROVE  TypeInv'
<1>1. LdapTyped' /\ users' = users /\ groups' = groups
  BY DEF TypeInv, LdapTyped, ldap
<1>2. OpsTyped'
  BY <1>1, Moves DEF Become, TypeInv
<1>3. QED
  BY <1>1, <1>2 DEF TypeInv

LEMMA LocalTyped ==
    ASSUME TypeInv, NEW p \in Proc, NEW next \in OpRecord,
           Holds(next, users, groups, misled), Become(p, next), UNCHANGED ldap,
           CaTyped', OthersTyped', misled' = misled
    PROVE  TypeInv'
  BY RequestTyped

LEMMA BootStartTyped == ASSUME TypeInv, BootStart PROVE TypeInv'
<1> DEFINE next == [Idle EXCEPT !.pc = "schema", !.kind = "boot",
                                !.acct = Webadmin, !.todo = DefaultGroups]
<1>1. next \in OpRecord /\ Holds(next, users, groups, misled)
  BY Sets DEF Idle, OpRecord, Holds, Types, NamesRole
<1>2. CaTyped'
  BY DEF BootStart, TypeInv, CaTyped, ca
<1>3. OthersTyped' /\ misled' = misled
  <2>1. disturbed' \in BOOLEAN /\ boots' = boots + 1
    BY DEF BootStart
  <2>2. starts' = starts + 1 \/ starts' = starts
    BY Zenon DEF BootStart
  <2>3. starts' \in Nat /\ boots' \in Nat
    BY <2>1, <2>2 DEF TypeInv, OthersTyped
  <2>4. UNCHANGED <<booted, faults, wanted, before, cut, raced, misled, fate, served>>
    BY DEF BootStart, history, asked
  <2>5. QED
    BY <2>1, <2>3, <2>4 DEF TypeInv, OthersTyped
<1>4. Become(Boot, next) /\ UNCHANGED ldap
  BY DEF BootStart
<1> HIDE DEF next
<1>5. QED
  BY <1>1, <1>2, <1>3, <1>4, Sets, LocalTyped

LEMMA BootLookGroupTyped ==
    ASSUME TypeInv, NEW g \in Group, BootLookGroup(g) PROVE TypeInv'
<1> DEFINE o == op[Boot]
           rest == [o EXCEPT !.todo = @ \ {g}, !.gone = @ \ {g}]
<1>1. /\ o \in OpRecord /\ Holds(o, users, groups, misled) /\ o.pc = "groups" /\ Boot \in Proc
  BY OpOf, Sets DEF BootLookGroup
<1>2. CaTyped' /\ UNCHANGED ldap
  BY DEF BootLookGroup, TypeInv, CaTyped, ca
<1>3. OthersTyped' /\ misled' = misled
  BY DEF BootLookGroup, TypeInv, OthersTyped, bounds, history, asked
<1>4. CASE g \in groups
  <2>1. Become(Boot, GroupsEnsured(rest))
    BY <1>4 DEF BootLookGroup
  <2>2. /\ rest \in OpRecord /\ rest.todo = o.todo \ {g} /\ rest.gone = o.gone \ {g}
        /\ \A k \in {"pc", "kind", "acct", "mode", "ask", "missing"} : rest[k] = o[k]
    BY <1>1 DEF OpRecord
  <2> HIDE DEF rest
  <2>3. /\ rest.kind # "none" /\ rest.acct = Webadmin
        /\ DefaultGroups \ rest.todo \subseteq groups \cup rest.gone
    BY <1>1, <1>4, <2>2 DEF Holds
  <2>4. Holds(rest, users, groups, misled)
    BY <1>1, <2>2, <2>3 DEF Holds
  <2>5. QED
    BY <1>1, <1>2, <1>3, <2>1, <2>2, <2>3, <2>4, EnsuredHolds, LocalTyped
<1>5. CASE g \notin groups
  <2> DEFINE next == [o EXCEPT !.pc = "make", !.missing = {g}]
  <2>1. Become(Boot, next)
    BY <1>5 DEF BootLookGroup
  <2>2. /\ next \in OpRecord /\ next.pc = "make"
        /\ \A k \in {"kind", "acct", "mode", "ask", "todo", "gone"} : next[k] = o[k]
    BY <1>1 DEF OpRecord
  <2> HIDE DEF next
  <2>3. Holds(next, users, groups, misled)
    BY <1>1, <2>2 DEF Holds
  <2>4. QED
    BY <1>1, <1>2, <1>3, <2>1, <2>2, <2>3, LocalTyped
<1>6. QED
  BY <1>4, <1>5

LEMMA BootCrashTyped == ASSUME TypeInv, BootCrash PROVE TypeInv'
<1>1. CaTyped' /\ UNCHANGED ldap /\ Become(Boot, Idle)
  BY DEF BootCrash, TypeInv, CaTyped, ca
<1>2. OthersTyped' /\ misled' = misled
  BY DEF BootCrash, Fault, TypeInv, OthersTyped, bounds, history, asked
<1>3. QED
  BY <1>1, <1>2, IdleOp, Sets, LocalTyped

\* A request begins.
LEMMA ArriveTyped ==
    ASSUME TypeInv, NEW r \in Request, Arrive(r), NEW next \in OpRecord,
           Holds(next, users, groups, misled'), Become(r, next),
           UNCHANGED <<ldap, ca, served, fate>>,
           raced' \subseteq Account, misled \subseteq misled', misled' \subseteq Account,
           wanted' \in [Account -> SUBSET SUBSET Team],
           before' \in [Account -> SUBSET Team], cut' \subseteq Account
    PROVE  TypeInv'
<1>1. CaTyped' /\ UNCHANGED ldap /\ r \in Proc
  BY Sets DEF TypeInv, CaTyped, ca
<1>2. OthersTyped'
  BY DEF Arrive, TypeInv, OthersTyped
<1>3. QED
  BY <1>1, <1>2, RequestTyped

LEMMA SetCheckTyped ==
    ASSUME TypeInv, NEW r \in Request, NEW a \in Account, NEW gs \in SUBSET Tak,
           SetCheck(r, a, gs)
    PROVE  TypeInv'
<1> DEFINE next == [Idle EXCEPT !.pc = "plan", !.kind = "set", !.acct = a, !.ask = gs]
<1>1. a \in users /\ gs \in SUBSET Team
  BY DEF SetCheck, GroupsAllowed, Listed
<1>2. next \in OpRecord /\ Holds(next, users, groups, misled')
  BY <1>1, Sets DEF SetCheck, Idle, OpRecord, Holds, Types
<1>3. wanted' \in [Account -> SUBSET SUBSET Team]
  <2>1. wanted \in [Account -> SUBSET SUBSET Team]
    BY DEF TypeInv, OthersTyped
  <2>2. \E w \in {{gs}, {}, wanted[a] \cup {gs}} : wanted' = [wanted EXCEPT ![a] = w]
    BY <2>1 DEF SetCheck
  <2>3. QED
    BY <1>1, <2>1, <2>2
<1>3a. before' \in [Account -> SUBSET Team]
  <2>1. before \in [Account -> SUBSET Team]
    BY DEF TypeInv, OthersTyped
  <2>2. before' = [before EXCEPT ![a] = member[a] \cap Team] \/ before' = before
    BY DEF SetCheck
  <2>3. QED
    BY <2>1, <2>2
<1>4. /\ Arrive(r) /\ Become(r, next) /\ UNCHANGED <<ldap, ca, served, fate>>
      /\ raced' \subseteq Account
      /\ misled \subseteq misled' /\ misled' \subseteq Account /\ cut' \subseteq Account
  BY DEF SetCheck, TypeInv, OthersTyped
<1> HIDE DEF next
<1>5. QED
  BY <1>2, <1>3, <1>3a, <1>4, ArriveTyped

LEMMA CreateCheckTyped ==
    ASSUME TypeInv, NEW r \in Request, NEW a \in Account, NEW gs \in SUBSET Tak,
           NEW mode \in {"user", "svc_data", "svc_admin"}, CreateCheck(r, a, mode, gs)
    PROVE  TypeInv'
<1> DEFINE next == [Idle EXCEPT !.pc = "create", !.kind = "create", !.acct = a,
                                !.mode = mode, !.ask = gs]
<1>1. gs \in SUBSET Team /\ (a \in Person => mode = "user")
  BY AccountsAssumption DEF AccountsAssumption, CreateCheck, ModeAllowed, Listed
<1>2. next \in OpRecord /\ Holds(next, users, groups, misled')
  BY <1>1, Sets DEF CreateCheck, Idle, OpRecord, Holds, Types
<1>3. /\ wanted' \in [Account -> SUBSET SUBSET Team]
      /\ fate' \in [Account -> {"none", "ready", "failed"}]
      /\ before' \in [Account -> SUBSET Team]
      /\ cut' \subseteq Account /\ raced' \subseteq Account
      /\ misled \subseteq misled' /\ misled' \subseteq Account
  BY DEF CreateCheck, TypeInv, OthersTyped
<1>4. Arrive(r) /\ Become(r, next) /\ UNCHANGED <<ldap, ca, served>>
  BY DEF CreateCheck
<1> HIDE DEF next
<1>5. CaTyped' /\ r \in Proc
  BY <1>4, Sets DEF TypeInv, CaTyped, ca
<1>6. OthersTyped'
  BY <1>3, <1>4 DEF Arrive, TypeInv, OthersTyped
<1>7. QED
  BY <1>2, <1>3, <1>4, <1>5, <1>6, RequestTyped

LEMMA GenerateCheckTyped ==
    ASSUME TypeInv, NEW r \in Request, NEW a \in Account, GenerateCheck(r, a)
    PROVE  TypeInv'
<1> DEFINE next == [Idle EXCEPT !.pc = "csr", !.kind = "generate", !.acct = a]
<1>1. next \in OpRecord /\ Holds(next, users, groups, misled)
  BY Sets DEF Idle, OpRecord, Holds, Types, NamesRole
<1>2. /\ Arrive(r) /\ Become(r, next) /\ UNCHANGED <<ldap, ca, served, misled, fate>>
      /\ UNCHANGED asked /\ raced' \subseteq Account
  BY DEF GenerateCheck, TypeInv, OthersTyped, history
<1> HIDE DEF next
<1>3. QED
  BY <1>1, <1>2, ArriveTyped DEF TypeInv, OthersTyped, asked

LEMMA DeleteServiceTyped ==
    ASSUME TypeInv, NEW r \in Request, NEW a \in Account, DeleteService(r, a)
    PROVE  TypeInv'
<1> DEFINE next == [Idle EXCEPT !.pc = "deactivate", !.kind = "delete", !.acct = a]
<1>1. next \in OpRecord /\ Holds(next, users, groups, misled)
  <2>1. a \in Service /\ a \notin Person
    BY AccountsAssumption DEF AccountsAssumption, DeleteService
  <2>2. QED
    BY <2>1, Sets DEF Idle, OpRecord, Holds, Types, NamesRole
<1>2. /\ Arrive(r) /\ Become(r, next) /\ UNCHANGED <<ldap, ca, served, misled, fate>>
      /\ UNCHANGED asked /\ raced' \subseteq Account
  BY DEF DeleteService, TypeInv, OthersTyped, history
<1> HIDE DEF next
<1>3. QED
  BY <1>1, <1>2, ArriveTyped DEF TypeInv, OthersTyped, asked

LEMMA DownloadTyped ==
    ASSUME TypeInv, NEW r \in Request, NEW a \in Account, Download(r, a)
    PROVE  TypeInv'
<1> DEFINE next == [Idle EXCEPT !.pc = "look", !.kind = "download", !.acct = a,
                                !.crl0 = crl]
<1>1. next \in OpRecord /\ Holds(next, users, groups, misled)
  BY Sets DEF Idle, OpRecord, Holds, Types, TypeInv, CaTyped, NamesRole
<1>2. /\ Arrive(r) /\ Become(r, next) /\ UNCHANGED <<ldap, ca, served, misled, fate>>
      /\ UNCHANGED asked /\ raced' \subseteq Account
  BY DEF Download, TypeInv, OthersTyped, history
<1> HIDE DEF next
<1>3. QED
  BY <1>1, <1>2, ArriveTyped DEF TypeInv, OthersTyped, asked

\* A name stands for a tak_ group, and for the role's only if it names that.
LEMMA TakenGroups ==
    ASSUME NEW names \in SUBSET Team
    PROVE  Taken(names) \subseteq Tak /\ (RoleAdmin \in Taken(names) => NamesRole(names))
  BY AccountsAssumption, Sets DEF AccountsAssumption, Taken, NamesRole

\* Plans and looks: nothing but the handler's own record changes.
LEMMA SetPlanTyped ==
    ASSUME TypeInv, NEW r \in Request, SetPlan(r) PROVE TypeInv'
<1> DEFINE o == op[r]
           has == member[o.acct] \cap Tak
           desired == Taken(o.ask)
           rest == [o EXCEPT !.drop = has \ desired,
                             !.todo = (desired \cap groups) \ has, !.gone = {}]
<1>1. /\ o \in OpRecord /\ Holds(o, users, groups, misled) /\ o.pc = "plan" /\ r \in Proc
  BY OpOf, Sets DEF SetPlan
<1>2. rest \in OpRecord
  BY <1>1, Sets, TakenGroups DEF OpRecord
<1>2a. /\ rest.todo = (desired \cap groups) \ has
       /\ \A k \in {"kind", "acct", "mode", "ask"} : rest[k] = o[k]
  BY <1>1 DEF OpRecord
<1>2b. RoleAdmin \in rest.todo => NamesRole(o.ask)
  BY <1>1, <1>2a, TakenGroups DEF OpRecord
<1> HIDE DEF rest
<1>3. /\ rest.kind # "none" /\ rest.acct \in Account /\ rest.acct \in users
      /\ rest.acct \in Person => rest.mode = "user"
      /\ rest.todo \ rest.missing \subseteq groups \cup rest.gone
      /\ NamesRole(rest.ask) => rest.acct \in misled
      /\ RoleAdmin \in rest.todo => rest.acct = Webadmin \/ rest.acct \in misled
  BY <1>1, <1>2a, <1>2b DEF Holds
<1>4. Become(r, Grouped(rest)) /\ UNCHANGED ldap /\ CaTyped'
  BY DEF SetPlan, TypeInv, CaTyped, ca, rest
<1>5. OthersTyped' /\ misled' = misled
  BY DEF SetPlan, TypeInv, OthersTyped, bounds, history, asked
<1>6. QED
  BY <1>1, <1>2, <1>3, <1>4, <1>5, GroupedHolds, LocalTyped

LEMMA EnsureGroupsTyped ==
    ASSUME TypeInv, NEW r \in Request, EnsureGroups(r) PROVE TypeInv'
<1> DEFINE o == op[r]
           next == [o EXCEPT !.pc = "join", !.todo = Taken(o.ask),
                             !.missing = Taken(o.ask) \ groups, !.gone = {}]
<1>1. /\ o \in OpRecord /\ Holds(o, users, groups, misled) /\ o.pc = "ensure" /\ r \in Proc
  BY OpOf, Sets DEF EnsureGroups
<1>2. next \in OpRecord /\ Holds(next, users, groups, misled)
  <2>0. o.ask \subseteq Team
    BY <1>1 DEF OpRecord
  <2>1. /\ Taken(o.ask) \subseteq Group
        /\ RoleAdmin \in Taken(o.ask) => NamesRole(o.ask)
    BY <2>0, Sets, TakenGroups
  <2>2. /\ next \in OpRecord /\ next.pc = "join"
        /\ next.todo = Taken(o.ask) /\ next.missing = Taken(o.ask) \ groups
        /\ \A k \in {"kind", "acct", "mode", "ask"} : next[k] = o[k]
    BY <1>1, <2>1 DEF OpRecord
  <2> HIDE DEF next
  <2>3. QED
    BY <1>1, <2>1, <2>2 DEF Holds
<1>3. Become(r, next) /\ UNCHANGED ldap /\ CaTyped'
  BY DEF EnsureGroups, TypeInv, CaTyped, ca
<1>4. OthersTyped' /\ misled' = misled
  BY DEF EnsureGroups, TypeInv, OthersTyped, bounds, history, asked
<1> HIDE DEF next
<1>5. QED
  BY <1>1, <1>2, <1>3, <1>4, LocalTyped

LEMMA LookSerialTyped ==
    ASSUME TypeInv, NEW r \in Request, LookSerial(r) PROVE TypeInv'
<1> DEFINE o == op[r]
           next == [o EXCEPT !.pc = "check", !.seen = files[o.acct].pem.serial]
<1>1. /\ o \in OpRecord /\ Holds(o, users, groups, misled) /\ o.pc = "look" /\ r \in Proc
  BY OpOf, Sets DEF LookSerial
<1>2. o.acct \in Account
  BY <1>1 DEF Holds
<1>3. files[o.acct].pem.serial \in Nat
  BY <1>2 DEF TypeInv, CaTyped, Files
<1>4. next \in OpRecord /\ Holds(next, users, groups, misled)
  <2>1. /\ next \in OpRecord /\ next.pc = "check"
        /\ next.kind = o.kind /\ next.acct = o.acct /\ next.mode = o.mode
        /\ next.ask = o.ask
        /\ next.todo = o.todo /\ next.missing = o.missing /\ next.gone = o.gone
    BY <1>1, <1>3 DEF OpRecord
  <2> HIDE DEF next
  <2>2. QED
    BY <1>1, <2>1 DEF Holds
<1>5. Become(r, next) /\ UNCHANGED ldap /\ CaTyped'
  BY DEF LookSerial, TypeInv, CaTyped, ca
<1>6. OthersTyped' /\ misled' = misled
  BY DEF LookSerial, TypeInv, OthersTyped, bounds, history, asked
<1> HIDE DEF next
<1>7. QED
  BY <1>1, <1>4, <1>5, <1>6, LocalTyped

LEMMA CheckCrlTyped ==
    ASSUME TypeInv, NEW r \in Request, CheckCrl(r) PROVE TypeInv'
<1> DEFINE o == op[r]
           sends == [o EXCEPT !.pc = "send"]
           blindly == [o EXCEPT !.pc = "send", !.blind = TRUE]
<1>1. /\ o \in OpRecord /\ Holds(o, users, groups, misled) /\ o.pc = "check" /\ r \in Proc
  BY OpOf, Sets DEF CheckCrl
<1>2. sends \in OpRecord /\ Holds(sends, users, groups, misled)
  <2>1. /\ sends \in OpRecord /\ sends.pc = "send"
        /\ sends.kind = o.kind /\ sends.acct = o.acct /\ sends.mode = o.mode
        /\ sends.ask = o.ask
        /\ sends.todo = o.todo /\ sends.missing = o.missing /\ sends.gone = o.gone
    BY <1>1 DEF OpRecord
  <2> HIDE DEF sends
  <2>2. QED
    BY <1>1, <2>1 DEF Holds
<1>3. blindly \in OpRecord /\ Holds(blindly, users, groups, misled)
  <2>1. /\ blindly \in OpRecord /\ blindly.pc = "send"
        /\ blindly.kind = o.kind /\ blindly.acct = o.acct /\ blindly.mode = o.mode
        /\ blindly.ask = o.ask
        /\ blindly.todo = o.todo /\ blindly.missing = o.missing /\ blindly.gone = o.gone
    BY <1>1 DEF OpRecord
  <2> HIDE DEF blindly
  <2>2. QED
    BY <1>1, <2>1 DEF Holds
<1>4. UNCHANGED ldap /\ CaTyped'
  BY DEF CheckCrl, TypeInv, CaTyped, ca
<1>5. faults' \in Nat
  BY DEF CheckCrl, Fault, TypeInv, OthersTyped
<1>6. OthersTyped' /\ misled' = misled
  BY <1>5 DEF CheckCrl, TypeInv, OthersTyped, bounds, history, asked
<1>7. Become(r, Idle) \/ Become(r, sends) \/ Become(r, blindly)
  BY DEF CheckCrl
<1> HIDE DEF sends, blindly
<1>8. QED
  BY <1>1, <1>2, <1>3, <1>4, <1>6, <1>7, IdleOp, LocalTyped

LEMMA SendTyped ==
    ASSUME TypeInv, NEW r \in Request, Send(r) PROVE TypeInv'
<1>1. /\ op[r] \in OpRecord /\ Holds(op[r], users, groups, misled)
      /\ op[r].pc = "send" /\ r \in Proc
  BY OpOf, Sets DEF Send
<1>2. op[r].acct \in Account
  BY <1>1 DEF Holds
<1>3. files[op[r].acct].p12 \in Nat
  BY <1>2 DEF TypeInv, CaTyped, Files
<1>4. UNCHANGED ldap /\ CaTyped' /\ Become(r, Idle)
  BY DEF Send, TypeInv, CaTyped, ca
<1>5. OthersTyped' /\ misled' = misled
  BY <1>2, <1>3 DEF Send, TypeInv, OthersTyped, bounds, asked
<1>6. QED
  BY <1>1, <1>4, <1>5, IdleOp, LocalTyped

(***************************************************************************)
(* Certificates.                                                           *)
(***************************************************************************)
LEMMA FailedHolds ==
    ASSUME NEW o \in OpRecord, NEW U, NEW G, NEW M, Holds(o, U, G, M), o.pc # "idle"
    PROVE  Failed(o) \in OpRecord /\ Holds(Failed(o), U, G, M)
<1>1. o.kind # "none" /\ o.acct \in Account
  BY DEF Holds
<1>2. QED
  BY <1>1, PcHolds, IdleOp DEF Failed

\* A docker exec that succeeds or changes nothing.
LEMMA ExecTyped ==
    ASSUME TypeInv, NEW p \in Proc, op[p].pc # "idle", NEW next \in OpRecord,
           Holds(next, users, groups, misled), NEW ACTION effect, Exec(p, effect, next),
           effect => CaTyped'
    PROVE  TypeInv'
<1>1. op[p] \in OpRecord /\ Holds(op[p], users, groups, misled)
  BY OpOf
<1>2. /\ effect \/ UNCHANGED ca
      /\ Become(p, next) \/ Become(p, Failed(op[p]))
      /\ UNCHANGED <<ldap, bounds, history, asked, fate, disturbed>>
  BY DEF Exec
<1>3. faults' \in Nat
  BY DEF Exec, Fault, TypeInv, OthersTyped
<1>4. UNCHANGED ca => CaTyped'
  BY DEF TypeInv, CaTyped, ca
<1>5. OthersTyped' /\ misled' = misled
  BY <1>2, <1>3 DEF TypeInv, OthersTyped, bounds, history, asked
<1>6. QED
  BY <1>1, <1>2, <1>4, <1>5, FailedHolds, LocalTyped

\* The record and the files of a handler at its certificate.
LEMMA CertOp ==
    ASSUME TypeInv, NEW r \in Request,
           op[r].pc \in {"csr", "sign", "p12", "pems", "certmod", "rollback", "list",
                         "revoke", "mark", "unpem"}
    PROVE  /\ r \in Proc /\ op[r] \in OpRecord /\ Holds(op[r], users, groups, misled)
           /\ op[r].acct \in Account /\ op[r].kind # "none"
           /\ files[op[r].acct] \in Files
           /\ files[op[r].acct].key \in Nat /\ files[op[r].acct].p12 \in Nat
           /\ files[op[r].acct].pem.serial \in Nat
           /\ files[op[r].acct].pem.key \in Nat
<1>1. r \in Proc /\ op[r] \in OpRecord /\ Holds(op[r], users, groups, misled)
  BY OpOf, Sets
<1>2. op[r].acct \in Account /\ op[r].kind # "none"
  BY <1>1 DEF Holds
<1>3. files[op[r].acct] \in Files
  BY <1>2 DEF TypeInv, CaTyped
<1>4. QED
  BY <1>1, <1>2, <1>3 DEF Files

\* One file of one account is written.
LEMMA FileWritten ==
    ASSUME TypeInv, NEW a, NEW f, (a \in Account => f \in Files),
           files' = [files EXCEPT ![a] = f]
    PROVE  files' \in [Account -> Files]
  BY DEF TypeInv, CaTyped

LEMMA CsrTyped ==
    ASSUME TypeInv, NEW r \in Request, Csr(r) PROVE TypeInv'
<1> DEFINE next == [op[r] EXCEPT !.pc = "sign"]
           f == [files[op[r].acct] EXCEPT !.key = fresh + 1]
           made == /\ fresh' = fresh + 1
                   /\ files' = [files EXCEPT ![op[r].acct].key = fresh + 1]
                   /\ UNCHANGED <<crl, admins>>
<1>1. op[r].pc = "csr" /\ Exec(r, made, next)
  BY DEF Csr
<1>2. next \in OpRecord /\ Holds(next, users, groups, misled)
  BY <1>1, CertOp, PcHolds
<1>3. fresh + 1 \in Nat
  BY DEF TypeInv, CaTyped
<1>4. f \in Files
  BY <1>1, <1>3, CertOp DEF Files
<1>5. ASSUME made PROVE CaTyped'
  <2>1. files' = [files EXCEPT ![op[r].acct] = f]
    BY <1>5
  <2> HIDE DEF f
  <2>2. files' \in [Account -> Files]
    BY <1>4, <2>1, FileWritten
  <2>3. QED
    BY <1>3, <1>5, <2>2 DEF TypeInv, CaTyped
<1> HIDE DEF made, next
<1>6. QED
  BY <1>1, <1>2, <1>5, CertOp, ExecTyped

LEMMA SignTyped ==
    ASSUME TypeInv, NEW r \in Request, Sign(r) PROVE TypeInv'
<1> DEFINE next == [op[r] EXCEPT !.pc = "p12"]
           pem == [serial |-> fresh + 1, key |-> files[op[r].acct].key]
           f == [files[op[r].acct] EXCEPT !.pem = pem]
           made == /\ fresh' = fresh + 1
                   /\ files' = [files EXCEPT ![op[r].acct].pem = pem]
                   /\ UNCHANGED <<crl, admins>>
<1>1. op[r].pc = "sign" /\ Exec(r, made, next)
  BY DEF Sign
<1>2. next \in OpRecord /\ Holds(next, users, groups, misled)
  BY <1>1, CertOp, PcHolds
<1>3. fresh + 1 \in Nat
  BY DEF TypeInv, CaTyped
<1>4. f \in Files
  BY <1>1, <1>3, CertOp DEF Files
<1>5. ASSUME made PROVE CaTyped'
  <2>1. files' = [files EXCEPT ![op[r].acct] = f]
    BY <1>5
  <2> HIDE DEF f
  <2>2. files' \in [Account -> Files]
    BY <1>4, <2>1, FileWritten
  <2>3. QED
    BY <1>3, <1>5, <2>2 DEF TypeInv, CaTyped
<1> HIDE DEF made, next
<1>6. QED
  BY <1>1, <1>2, <1>5, CertOp, ExecTyped

LEMMA BundleTyped ==
    ASSUME TypeInv, NEW r \in Request, Bundle(r) PROVE TypeInv'
<1> DEFINE next == Bundled(op[r])
           f == [files[op[r].acct] EXCEPT !.p12 = files[op[r].acct].pem.serial]
           made == /\ files' = [files EXCEPT ![op[r].acct].p12 =
                                    files[op[r].acct].pem.serial]
                   /\ UNCHANGED <<crl, admins, fresh>>
<1>1. /\ op[r].pc = "p12"
      /\ Exec(r, made, next) \/ Exec(r, UNCHANGED ca, Failed(op[r]))
  BY DEF Bundle
<1>2. next \in OpRecord /\ Holds(next, users, groups, misled)
  BY <1>1, CertOp, PcHolds, IdleOp DEF Bundled
<1>3. Failed(op[r]) \in OpRecord /\ Holds(Failed(op[r]), users, groups, misled)
  BY <1>1, CertOp, FailedHolds
<1>4. f \in Files
  BY <1>1, CertOp DEF Files
<1>5. ASSUME made PROVE CaTyped'
  <2>1. files' = [files EXCEPT ![op[r].acct] = f]
    BY <1>5
  <2> HIDE DEF f
  <2>2. files' \in [Account -> Files]
    BY <1>4, <2>1, FileWritten
  <2>3. QED
    BY <1>5, <2>2 DEF TypeInv, CaTyped
<1>6. UNCHANGED ca => CaTyped'
  BY DEF TypeInv, CaTyped, ca
<1> HIDE DEF made, next
<1>7. CASE Exec(r, made, next)
  BY <1>1, <1>2, <1>5, <1>7, CertOp, ExecTyped
<1>8. CASE Exec(r, UNCHANGED ca, Failed(op[r]))
  BY <1>1, <1>3, <1>6, <1>8, CertOp, ExecTyped
<1>9. QED
  BY <1>1, <1>7, <1>8

LEMMA WritePemsTyped ==
    ASSUME TypeInv, NEW r \in Request, WritePems(r) PROVE TypeInv'
<1> DEFINE f == [files[op[r].acct] EXCEPT !.nodered = files[op[r].acct].p12]
<1>1. op[r].pc = "pems" /\ Become(r, Idle) /\ UNCHANGED ldap
  BY DEF WritePems, End
<1>2. f \in Files
  BY <1>1, CertOp DEF Files
<1>3. files' \in [Account -> Files]
  <2>1. files' = [files EXCEPT ![op[r].acct] = f] \/ files' = files
    BY DEF WritePems
  <2> HIDE DEF f
  <2>2. QED
    BY <1>2, <2>1, FileWritten DEF TypeInv, CaTyped
<1>4. CaTyped'
  BY <1>3 DEF WritePems, TypeInv, CaTyped
<1>5. faults' \in Nat
  BY DEF WritePems, Fault, TypeInv, OthersTyped
<1>6. OthersTyped' /\ misled' = misled
  BY <1>5 DEF WritePems, End, TypeInv, OthersTyped, bounds, history, asked
<1>7. QED
  BY <1>1, <1>4, <1>6, CertOp, IdleOp, LocalTyped

LEMMA RegisterAdminTyped ==
    ASSUME TypeInv, NEW r \in Request, RegisterAdmin(r) PROVE TypeInv'
<1>1. /\ op[r].pc = "certmod" /\ UNCHANGED ldap
      /\ Become(r, Idle) \/ Become(r, Failed(op[r]))
  BY DEF RegisterAdmin, End
<1>2. Failed(op[r]) \in OpRecord /\ Holds(Failed(op[r]), users, groups, misled)
  BY <1>1, CertOp, FailedHolds
<1>3. CaTyped'
  BY <1>1, CertOp DEF RegisterAdmin, TypeInv, CaTyped
<1>4. faults' \in Nat
  BY DEF RegisterAdmin, Fault, TypeInv, OthersTyped
<1>5. OthersTyped' /\ misled' = misled
  BY <1>4 DEF RegisterAdmin, End, TypeInv, OthersTyped, bounds, history, asked
<1>6. QED
  BY <1>1, <1>2, <1>3, <1>5, CertOp, IdleOp, LocalTyped

LEMMA RollbackTyped ==
    ASSUME TypeInv, NEW r \in Request, Rollback(r) PROVE TypeInv'
<1>1. op[r].pc = "rollback" /\ Become(r, Idle)
  BY DEF Rollback, End
<1>2. LdapTyped' /\ users' = users /\ groups' = groups
  BY DEF Rollback, TypeInv, LdapTyped
<1>3. CaTyped'
  BY DEF Rollback, TypeInv, CaTyped, ca
<1>4. faults' \in Nat
  BY DEF Rollback, Fault, TypeInv, OthersTyped
<1>5. fate' \in [Account -> {"none", "ready", "failed"}]
  BY DEF Rollback, End, TypeInv, OthersTyped
<1>6. OthersTyped' /\ misled' = misled
  BY <1>4, <1>5 DEF Rollback, TypeInv, OthersTyped, bounds, history, asked
<1>7. OpsTyped'
  BY <1>1, <1>2, <1>6, CertOp, IdleOp, Moves DEF Become, TypeInv
<1>8. QED
  BY <1>2, <1>3, <1>6, <1>7 DEF TypeInv

\* The deletion of a service account.
LEMMA ListCertsTyped ==
    ASSUME TypeInv, NEW r \in Request, ListCerts(r) PROVE TypeInv'
<1> DEFINE o == op[r]
           listing(listed, left) == [o EXCEPT !.pc = "revoke", !.certs = listed,
                                              !.left = left]
           over == [o EXCEPT !.pc = "unpem"]
<1>1. o.pc = "list"
  BY DEF ListCerts
<1>2. Held(o.acct) \subseteq Nat
  BY <1>1, CertOp DEF Held, Files, TypeInv, CaTyped
<1>3. ASSUME NEW listed \in SUBSET Held(o.acct), NEW left \in BOOLEAN
      PROVE  listing(listed, left) \in OpRecord /\ Holds(listing(listed, left), users, groups, misled)
  <2>1. o \in OpRecord /\ Holds(o, users, groups, misled)
    BY <1>1, CertOp
  <2>2. /\ listing(listed, left) \in OpRecord /\ listing(listed, left).pc = "revoke"
        /\ \A k \in {"kind", "acct", "mode", "ask", "todo", "missing", "gone"} :
              listing(listed, left)[k] = o[k]
    BY <1>2, <1>3, <2>1 DEF OpRecord
  <2> HIDE DEF listing
  <2>3. QED
    BY <1>1, <2>1, <2>2 DEF Holds
<1>4. over \in OpRecord /\ Holds(over, users, groups, misled)
  BY <1>1, CertOp, PcHolds
<1>5. UNCHANGED ldap /\ CaTyped'
  BY DEF ListCerts, TypeInv, CaTyped, ca
<1>6. faults' \in Nat
  <2>1. faults' = faults \/ faults' = faults + 1
    BY Zenon DEF ListCerts, Fault
  <2>2. QED
    BY <2>1 DEF TypeInv, OthersTyped
<1>7. OthersTyped' /\ misled' = misled
  BY <1>6 DEF ListCerts, TypeInv, OthersTyped, bounds, history, asked
<1>8. misled' = misled
  BY DEF ListCerts, history
<1>9. \/ \E listed \in SUBSET Held(o.acct), left \in BOOLEAN :
            Become(r, listing(listed, left))
      \/ Become(r, over) \/ Become(r, Idle)
  BY DEF ListCerts
<1> HIDE DEF listing, over
<1>10. QED
  BY <1>1, <1>3, <1>4, <1>5, <1>7, <1>8, <1>9, CertOp, IdleOp, LocalTyped

LEMMA RevokeListedTyped ==
    ASSUME TypeInv, NEW r \in Request, NEW serial \in op[r].certs, RevokeListed(r, serial)
    PROVE  TypeInv'
<1> DEFINE o == op[r]
           gone == [o EXCEPT !.certs = @ \ {serial}]
           failed == [o EXCEPT !.certs = @ \ {serial}, !.left = TRUE]
<1>1. o.pc = "revoke"
  BY DEF RevokeListed
<1>2. o \in OpRecord /\ Holds(o, users, groups, misled)
  BY <1>1, CertOp
<1>3. /\ gone \in OpRecord /\ Holds(gone, users, groups, misled)
      /\ failed \in OpRecord /\ Holds(failed, users, groups, misled)
  <2>1. /\ gone \in OpRecord /\ gone.pc = "revoke"
        /\ failed \in OpRecord /\ failed.pc = "revoke"
        /\ \A k \in {"kind", "acct", "mode", "ask", "todo", "missing", "gone"} :
              gone[k] = o[k] /\ failed[k] = o[k]
    BY <1>1, <1>2 DEF OpRecord
  <2> HIDE DEF gone, failed
  <2>2. QED
    BY <1>1, <1>2, <2>1 DEF Holds
<1>4. serial \in Nat
  BY <1>2 DEF OpRecord
<1>5. UNCHANGED ldap /\ CaTyped'
  BY <1>4 DEF RevokeListed, TypeInv, CaTyped
<1>6. faults' \in Nat
  BY DEF RevokeListed, Fault, TypeInv, OthersTyped
<1>7. OthersTyped' /\ misled' = misled
  BY <1>6 DEF RevokeListed, TypeInv, OthersTyped, bounds, history, asked
<1>8. Become(r, gone) \/ Become(r, failed)
  BY DEF RevokeListed
<1>9. misled' = misled
  BY DEF RevokeListed, history
<1> HIDE DEF gone, failed
<1>10. QED
  BY <1>1, <1>3, <1>5, <1>7, <1>8, <1>9, CertOp, LocalTyped

LEMMA MarkReadTyped ==
    ASSUME TypeInv, NEW r \in Request, MarkRead(r) PROVE TypeInv'
<1> DEFINE o == op[r]
           over == [o EXCEPT !.pc = "unpem"]
           read == [o EXCEPT !.pc = "mark", !.mode = utype[o.acct]]
<1>1. o.pc = "revoke"
  BY DEF MarkRead
<1>2. o \in OpRecord /\ Holds(o, users, groups, misled) /\ o.acct \in Account
  BY <1>1, CertOp
<1>3. o.acct \in Service /\ o.acct \notin Person /\ utype[o.acct] \in Types
  BY <1>1, <1>2, AccountsAssumption DEF AccountsAssumption, Holds, TypeInv, LdapTyped
<1>4. over \in OpRecord /\ Holds(over, users, groups, misled)
  BY <1>1, CertOp, PcHolds
<1>5. read \in OpRecord /\ Holds(read, users, groups, misled)
  <2>1. /\ read \in OpRecord /\ read.pc = "mark"
        /\ \A k \in {"kind", "acct", "ask", "todo", "missing", "gone"} : read[k] = o[k]
    BY <1>1, <1>2, <1>3 DEF OpRecord
  <2> HIDE DEF read
  <2>2. QED
    BY <1>1, <1>2, <1>3, <2>1 DEF Holds
<1>6. UNCHANGED ldap /\ CaTyped' /\ misled' = misled
  BY DEF MarkRead, TypeInv, CaTyped, ca, history
<1>7. OthersTyped' /\ misled' = misled
  BY DEF MarkRead, TypeInv, OthersTyped, bounds, history, asked
<1>8. Become(r, over) \/ Become(r, read)
  BY DEF MarkRead
<1> HIDE DEF over, read
<1>9. QED
  BY <1>1, <1>4, <1>5, <1>6, <1>7, <1>8, CertOp, LocalTyped

LEMMA MarkWriteTyped ==
    ASSUME TypeInv, NEW r \in Request, MarkWrite(r) PROVE TypeInv'
<1> DEFINE a == op[r].acct
           type == IF op[r].mode = "none" THEN utype[a] ELSE op[r].mode
           next == [op[r] EXCEPT !.pc = "unpem"]
           typed == /\ utype' = [utype EXCEPT ![a] = type]
                    /\ UNCHANGED <<groups, users, member, active, schema>>
<1>1. op[r].pc = "mark"
  BY DEF MarkWrite
<1>2. op[r] \in OpRecord /\ Holds(op[r], users, groups, misled) /\ a \in Account
  BY <1>1, CertOp
<1>3. a \notin Person
  BY <1>1, <1>2, AccountsAssumption DEF AccountsAssumption, Holds
<1>4. type \in Types
  BY <1>2 DEF OpRecord, TypeInv, LdapTyped
<1>5. next \in OpRecord /\ Holds(next, users, groups, misled)
  BY <1>1, CertOp, PcHolds
<1>6. ASSUME typed
      PROVE  /\ LdapTyped' /\ users \subseteq users'
             /\ groups \subseteq groups' /\ Holds(next, users', groups', misled)
  <2>1. LdapTyped'
    BY <1>2, <1>3, <1>4, <1>6 DEF TypeInv, LdapTyped
  <2>2. users' = users /\ groups' = groups
    BY <1>6
  <2> HIDE DEF next
  <2>3. QED
    BY <1>5, <2>1, <2>2
<1>7. Mutation(r, typed, next) /\ UNCHANGED <<ca, bounds, served, misled>>
  BY DEF MarkWrite
<1>8. /\ raced' \subseteq Account /\ UNCHANGED <<ca, starts, boots, served, misled>>
      /\ booted' \in BOOLEAN
  BY <1>2, <1>7 DEF MarkWrite, TypeInv, OthersTyped, bounds
<1> HIDE DEF typed, next
<1>9. QED
  BY <1>1, <1>5, <1>6, <1>7, <1>8, CertOp, MutationTyped

LEMMA RemovePemsTyped ==
    ASSUME TypeInv, NEW r \in Request, RemovePems(r) PROVE TypeInv'
<1> DEFINE f == [files[op[r].acct] EXCEPT !.nodered = 0]
<1>1. op[r].pc = "unpem" /\ Become(r, Idle) /\ UNCHANGED ldap
  BY DEF RemovePems
<1>2. f \in Files
  BY <1>1, CertOp DEF Files
<1>3. files' \in [Account -> Files]
  <2>1. files' = [files EXCEPT ![op[r].acct] = f] \/ files' = files
    BY DEF RemovePems
  <2> HIDE DEF f
  <2>2. QED
    BY <1>2, <2>1, FileWritten DEF TypeInv, CaTyped
<1>4. CaTyped'
  BY <1>3 DEF RemovePems, TypeInv, CaTyped
<1>5. faults' \in Nat
  BY DEF RemovePems, Fault, TypeInv, OthersTyped
<1>6. OthersTyped' /\ misled' = misled
  BY <1>5 DEF RemovePems, TypeInv, OthersTyped, bounds, history, asked
<1>7. QED
  BY <1>1, <1>4, <1>6, CertOp, IdleOp, LocalTyped

(***************************************************************************)
(* The invariant holds of every step.                                      *)
(***************************************************************************)
LEMMA TypeStep == TypeInv /\ [Next]_vars => TypeInv'
<1> SUFFICES ASSUME TypeInv, [Next]_vars PROVE TypeInv'
  OBVIOUS
<1>1. CASE BootNext
  <2>1. CASE BootStart \/ BootCrash
    BY <2>1, BootStartTyped, BootCrashTyped
  <2>2. CASE BootSchema \/ BootWebadmin \/ BootType \/ BootService \/ BootServiceType
    BY <2>2, BootSchemaTyped, BootWebadminTyped, BootTypeTyped, BootServiceTyped,
       BootServiceTypeTyped
  <2>3. ASSUME NEW g \in Group, BootLookGroup(g) \/ BootMakeGroup(g) PROVE TypeInv'
    BY <2>3, BootLookGroupTyped, BootMakeGroupTyped
  <2>4. CASE Groups(Boot)
    BY <2>4, Sets, MakeGroupTyped, JoinTyped, DropTyped DEF Groups
  <2>5. QED
    BY <1>1, <2>1, <2>2, <2>3, <2>4 DEF BootNext
<1>2. CASE Crash
  BY <1>2, CrashTyped
<1>3. ASSUME NEW g \in Tak, CreateGroup(g) \/ DeleteGroup(g) PROVE TypeInv'
  BY <1>3, CreateGroupTyped, DeleteGroupTyped
<1>4. ASSUME NEW a \in Account, RevokeByName(a) PROVE TypeInv'
  BY <1>4, RevokeByNameTyped
<1>5. ASSUME NEW r \in Request, ArriveAny(r) PROVE TypeInv'
  BY <1>5, SetCheckTyped, CreateCheckTyped, GenerateCheckTyped, DeleteServiceTyped,
     DownloadTyped DEF ArriveAny
<1>6. ASSUME NEW r \in Request, Step(r) PROVE TypeInv'
  <2>1. CASE Groups(r)
    BY <2>1, Sets, MakeGroupTyped, JoinTyped, DropTyped DEF Groups
  <2>2. CASE SetPlan(r) \/ CreateUser(r) \/ CreateAttrs(r) \/ EnsureGroups(r)
    BY <2>2, SetPlanTyped, CreateUserTyped, CreateAttrsTyped, EnsureGroupsTyped
  <2>3. CASE Csr(r) \/ Sign(r) \/ Bundle(r) \/ WritePems(r) \/ RegisterAdmin(r)
    BY <2>3, CsrTyped, SignTyped, BundleTyped, WritePemsTyped, RegisterAdminTyped
  <2>4. CASE \/ Rollback(r) \/ Deactivate(r) \/ RemovePems(r)
             \/ \E serial \in op[r].certs : RevokeListed(r, serial)
             \/ ListCerts(r) \/ MarkRead(r) \/ MarkWrite(r)
    BY <2>4, RollbackTyped, DeactivateTyped, RemovePemsTyped, ListCertsTyped,
       RevokeListedTyped, MarkReadTyped, MarkWriteTyped
  <2>5. CASE LookSerial(r) \/ CheckCrl(r) \/ Send(r)
    BY <2>5, LookSerialTyped, CheckCrlTyped, SendTyped
  <2>6. QED
    BY <1>6, <2>1, <2>2, <2>3, <2>4, <2>5 DEF Step
<1>7. CASE UNCHANGED vars
  <2>1. UNCHANGED <<ldap, ca, bounds, history, op, faults, asked, fate, disturbed>>
    BY <1>7 DEF vars
  <2>2. LdapTyped' /\ CaTyped'
    BY <2>1 DEF TypeInv, LdapTyped, CaTyped, ldap, ca
  <2>3. OthersTyped'
    BY <2>1 DEF TypeInv, OthersTyped, bounds, history, asked
  <2>4. OpsTyped'
    BY <2>1 DEF TypeInv, OpsTyped, ldap, history
  <2>5. QED
    BY <2>2, <2>3, <2>4 DEF TypeInv
<1>8. QED
  BY <1>1, <1>2, <1>3, <1>4, <1>5, <1>6, <1>7 DEF Next

LEMMA TypeInvariant == Spec => []TypeInv
  BY TypeInit, TypeStep, PTL DEF Spec

\* Types, with what they say of groups and accounts: memberships are of groups
\* and accounts LLDAP has, whatever is deleted while a request holds its id,
\* and no deletion's write-back types a person as a service account.
THEOREM TypeCorrect == Spec => []TypeOK
  BY TypeInvariant, TypeInvTypeOK, PTL

(***************************************************************************)
(* The role group.  A membership in it comes about in Join only, and there *)
(* the invariant says whose it is.                                         *)
(***************************************************************************)
LEMMA MemberSteps ==
    ASSUME TypeInv, [Next]_vars
    PROVE  \/ \A a \in Account : member'[a] \subseteq member[a]
           \/ \E p \in Proc, g \in Group :
                /\ g \in op[p].todo
                /\ member' = [member EXCEPT ![op[p].acct] = @ \cup {g}]
<1> DEFINE Fewer == \A a \in Account : member'[a] \subseteq member[a]
<1>1. member' = member => Fewer
  OBVIOUS
<1>2. ASSUME NEW p \in Proc, NEW g \in Group, MakeGroup(p, g) PROVE member' = member
  BY <1>2 DEF MakeGroup, Mutation, Refused, ldap
<1>3. ASSUME NEW p \in Proc, NEW g \in Group, Drop(p, g) PROVE Fewer
  BY <1>3 DEF Drop, Mutation, Refused, ldap, TypeInv, LdapTyped
<1>4. ASSUME NEW p \in Proc, NEW g \in Group, Join(p, g)
      PROVE  Fewer \/ (g \in op[p].todo /\
                       member' = [member EXCEPT ![op[p].acct] = @ \cup {g}])
  BY <1>4 DEF Join, Mutation, Refused, ldap
<1>5. ASSUME NEW g \in Tak, DeleteGroup(g) PROVE Fewer
  BY <1>5 DEF DeleteGroup
<1>6. CASE BootStart \/ BootCrash \/ (\E g \in Group : BootLookGroup(g))
  BY <1>1, <1>6 DEF BootStart, BootCrash, BootLookGroup, ldap
<1>7. CASE \/ BootSchema \/ BootWebadmin \/ BootType \/ BootService \/ BootServiceType
           \/ \E g \in Group : BootMakeGroup(g)
  BY <1>1, <1>7 DEF BootSchema, BootWebadmin, BootType, BootService, BootServiceType,
                   BootMakeGroup, SetType, Mutation, Refused, ldap
<1>8. CASE Crash \/ UNCHANGED vars \/ (\E g \in Tak : CreateGroup(g))
             \/ (\E a \in Account : RevokeByName(a))
  BY <1>1, <1>8 DEF Crash, CreateGroup, RevokeByName, vars, ldap
<1>9. ASSUME NEW r \in Request, ArriveAny(r) PROVE member' = member
  BY <1>9 DEF ArriveAny, SetCheck, CreateCheck, GenerateCheck, DeleteService, Download, ldap
<1>10. ASSUME NEW r \in Request, Step(r), ~Groups(r) PROVE member' = member
  <2>1. CASE SetPlan(r) \/ EnsureGroups(r) \/ LookSerial(r) \/ CheckCrl(r) \/ Send(r)
    BY <2>1 DEF SetPlan, EnsureGroups, LookSerial, CheckCrl, Send, ldap
  <2>2. CASE CreateUser(r) \/ CreateAttrs(r) \/ Deactivate(r) \/ Rollback(r)
    BY <2>2 DEF CreateUser, CreateAttrs, Deactivate, Rollback, Mutation, ldap
  <2>3. CASE Csr(r) \/ Sign(r) \/ Bundle(r)
    BY <2>3 DEF Csr, Sign, Bundle, Exec, ldap
  <2>4. CASE WritePems(r) \/ RegisterAdmin(r) \/ RemovePems(r)
    BY <2>4 DEF WritePems, RegisterAdmin, RemovePems, ldap
  <2>4a. CASE \/ \E serial \in op[r].certs : RevokeListed(r, serial)
              \/ ListCerts(r) \/ MarkRead(r) \/ MarkWrite(r)
    BY <2>4a DEF ListCerts, RevokeListed, MarkRead, MarkWrite, Mutation, ldap
  <2>5. QED
    BY <1>10, <2>1, <2>2, <2>3, <2>4, <2>4a DEF Step
<1> HIDE DEF Fewer
<1>11. ASSUME NEW p \in Proc, Groups(p)
       PROVE  Fewer \/ \E g \in Group :
                 /\ g \in op[p].todo
                 /\ member' = [member EXCEPT ![op[p].acct] = @ \cup {g}]
  BY <1>1, <1>2, <1>3, <1>4, <1>11 DEF Groups
<1>12. CASE BootNext
  BY <1>6, <1>7, <1>11, <1>12, Sets DEF BootNext, Fewer
<1>13. ASSUME NEW r \in Request, ArriveAny(r) \/ Step(r)
       PROVE  Fewer \/ \E p \in Proc, g \in Group :
                 /\ g \in op[p].todo
                 /\ member' = [member EXCEPT ![op[p].acct] = @ \cup {g}]
  BY <1>1, <1>9, <1>10, <1>11, <1>13, Sets
<1>14. QED
  BY <1>5, <1>8, <1>12, <1>13 DEF Next, Fewer

\* No account is struck from `misled`.
LEMMA MisledGrows == ASSUME [Next]_vars PROVE misled \subseteq misled'
<1>1. CASE BootNext
  <2>1. ASSUME NEW g \in Group, BootLookGroup(g) \/ BootMakeGroup(g) PROVE misled' = misled
    BY <2>1 DEF BootLookGroup, BootMakeGroup, history
  <2>2. CASE Groups(Boot)
    BY <2>2 DEF Groups, MakeGroup, Join, Drop, history
  <2>3. QED
    BY <1>1, <2>1, <2>2 DEF BootNext, BootStart, BootCrash, BootSchema, BootWebadmin,
       BootType, BootService, BootServiceType, SetType, history
<1>2. CASE Crash \/ UNCHANGED vars
  BY <1>2 DEF Crash, vars, history
<1>3. ASSUME NEW g \in Tak, CreateGroup(g) \/ DeleteGroup(g) PROVE misled' = misled
  BY <1>3 DEF CreateGroup, DeleteGroup, history
<1>4. ASSUME NEW a \in Account, RevokeByName(a) PROVE misled' = misled
  BY <1>4 DEF RevokeByName, history
<1>5. ASSUME NEW r \in Request, ArriveAny(r) PROVE misled \subseteq misled'
  BY <1>5 DEF ArriveAny, SetCheck, CreateCheck, GenerateCheck, DeleteService, Download, history
<1>6. ASSUME NEW r \in Request, Step(r) PROVE misled' = misled
  <2>1. CASE Groups(r)
    BY <2>1 DEF Groups, MakeGroup, Join, Drop, history
  <2>2. CASE SetPlan(r) \/ EnsureGroups(r) \/ LookSerial(r) \/ CheckCrl(r) \/ Send(r)
    BY <2>2 DEF SetPlan, EnsureGroups, LookSerial, CheckCrl, Send, history
  <2>3. CASE CreateUser(r) \/ CreateAttrs(r) \/ Deactivate(r) \/ Rollback(r)
    BY <2>3 DEF CreateUser, CreateAttrs, Deactivate, Rollback, history
  <2>4. CASE Csr(r) \/ Sign(r) \/ Bundle(r)
    BY <2>4 DEF Csr, Sign, Bundle, Exec, history
  <2>5. CASE WritePems(r) \/ RegisterAdmin(r) \/ RemovePems(r)
    BY <2>5 DEF WritePems, RegisterAdmin, RemovePems, history
  <2>6. CASE \/ \E serial \in op[r].certs : RevokeListed(r, serial)
             \/ ListCerts(r) \/ MarkRead(r) \/ MarkWrite(r)
    BY <2>6 DEF ListCerts, RevokeListed, MarkRead, MarkWrite, history
  <2>7. QED
    BY <1>6, <2>1, <2>2, <2>3, <2>4, <2>5, <2>6 DEF Step
<1>7. QED
  BY <1>1, <1>2, <1>3, <1>4, <1>5, <1>6 DEF Next

LEMMA RoleStep == TypeInv /\ RoleReserved /\ [Next]_vars => RoleReserved'
<1> SUFFICES ASSUME TypeInv, RoleReserved, [Next]_vars PROVE RoleReserved'
  OBVIOUS
<1>0. misled \subseteq misled'
  BY MisledGrows
<1>1. CASE \A a \in Account : member'[a] \subseteq member[a]
  BY <1>0, <1>1 DEF RoleReserved
<1>2. ASSUME NEW p \in Proc, NEW g \in Group, g \in op[p].todo,
             member' = [member EXCEPT ![op[p].acct] = @ \cup {g}]
      PROVE  RoleReserved'
  <2>1. g = RoleAdmin => op[p].acct = Webadmin \/ op[p].acct \in misled
    BY <1>2, OpOf DEF Holds
  <2>2. QED
    BY <1>0, <1>2, <2>1 DEF RoleReserved, TypeInv, LdapTyped
<1>3. QED
  BY <1>1, <1>2, MemberSteps

\* Only webadmin is ever in tak_ROLE_ADMIN, however the group is created,
\* deleted and looked up while accounts are created, groups are set and the
\* bootstrap is cut off and run again - save accounts a request named a group
\* for whose listed name is taken for the role's group.
THEOREM RoleIsReserved == Spec => []RoleReserved
<1>1. Init => RoleReserved
  BY Sets DEF Init, RoleReserved
<1>2. QED
  BY <1>1, TypeInvariant, RoleStep, PTL DEF Spec
=============================================================================
