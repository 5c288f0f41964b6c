------------------------ MODULE UserRevocationProofs ------------------------
(***************************************************************************)
(* Proofs about UserRevocation, for any users, certificates, request       *)
(* handlers, PATCH bodies and failures.                                    *)
(***************************************************************************)
EXTENDS UserRevocation, TLAPS

(***************************************************************************)
(* Types.  TypeOK alone is not inductive: a step on behalf of a user needs *)
(* the operation to name one, and a step on a certificate needs a target.  *)
(***************************************************************************)
GoodOp ==
    {o \in OpRecord :
        /\ o.pc # "idle" => o.user \in User
        /\ o.pc \in {"save", "gencrl", "flag", "sign"} => o.target \in Cert}

TypeInv == TypeOK /\ op \in [Proc -> GoodOp]

\* The empty operation is a good one.
LEMMA IdleType == Idle \in GoodOp
<1>1. NoBody \in Body
  BY DEF NoBody, Body
<1>2. NoRead \in Attrs
  BY DEF NoRead, Attrs, Flag
<1>3. QED
  BY <1>1, <1>2 DEF Idle, OpRecord, GoodOp

\* So is a fresh one, for a user.
LEMMA StartType ==
    ASSUME NEW kind \in {"patch", "delete", "sweep", "revoke", "generate",
                         "enroll"},
           NEW u \in User,
           NEW pc \in {"patch_write", "deactivate", "list_disk", "revoke",
                       "mint"}
    PROVE  Start(kind, u, pc) \in GoodOp
<1>1. NoBody \in Body
  BY DEF NoBody, Body
<1>2. NoRead \in Attrs
  BY DEF NoRead, Attrs, Flag
<1>3. QED
  BY <1>1, <1>2 DEF Start, Idle, OpRecord, GoodOp

\* Nor does what a PATCH adds to it spoil it.
LEMMA PatchStartType ==
    ASSUME NEW u \in User, NEW b \in Body, NEW a \in Attrs,
           NEW e \in Nat \cup {Unset, Keep}
    PROVE  [Start("patch", u, "patch_write") EXCEPT
              !.body = b, !.read = a, !.ttlEnd = e] \in GoodOp
<1> DEFINE o == Start("patch", u, "patch_write")
<1>1. o \in GoodOp
  BY StartType
<1>2. o \in OpRecord /\ o.user \in User /\ o.pc = "patch_write"
  BY <1>1 DEF GoodOp, Start, Idle
<1> HIDE DEF o
<1>3. [o EXCEPT !.body = b, !.read = a, !.ttlEnd = e] \in GoodOp
  BY <1>2 DEF GoodOp, OpRecord
<1>4. QED
  BY <1>3 DEF o

\* The bookkeeping at the end of a certificate keeps the record good.
LEMMA AdvanceType ==
    ASSUME NEW o \in OpRecord, o.user \in User
    PROVE  /\ Advance(o) \in GoodOp
           /\ Done(o) \in GoodOp
           /\ Failed(o) \in GoodOp
<1>1. ASSUME NEW x \in OpRecord, x.user \in User PROVE Advance(x) \in GoodOp
  BY <1>1, IdleType, ConstantsAssumption
     DEF Advance, OpRecord, GoodOp, ConstantsAssumption
<1>2. /\ [o EXCEPT !.todo = @ \ {o.target}] \in OpRecord
      /\ [o EXCEPT !.todo = @ \ {o.target}].user \in User
  BY DEF OpRecord
<1>3. /\ [o EXCEPT !.todo = @ \ {o.target}, !.ok = FALSE] \in OpRecord
      /\ [o EXCEPT !.todo = @ \ {o.target}, !.ok = FALSE].user \in User
  BY DEF OpRecord
<1>4. QED
  BY <1>1, <1>2, <1>3 DEF Done, Failed

\* Replacing one process's operation by a good one keeps the type of op.
LEMMA BecomeType ==
    ASSUME op \in [Proc -> GoodOp], NEW p \in Proc, NEW o \in GoodOp,
           Become(p, o)
    PROVE  op' \in [Proc -> GoodOp] /\ op' \in [Proc -> OpRecord]
BY DEF Become, GoodOp

\* What may be sent to LLDAP: a value for each attribute, or nothing.
SentAttrs == [is_active : Flag \cup {Keep}, expires : Nat \cup {Unset, Keep},
              certs_revoked : Flag \cup {Keep}]

\* A mutation keeps the types of what it touches, however it ends.
LEMMA MutateType ==
    ASSUME TypeInv, NEW p \in Proc, NEW sent \in SentAttrs, NEW o \in GoodOp,
           Mutate(p, sent, o)
    PROVE  /\ attrs' \in [User -> Attrs]
           /\ op' \in [Proc -> GoodOp]
           /\ op' \in [Proc -> OpRecord]
           /\ faults' \in 0..MaxFaults
<1>1. ASSUME NEW a \in Attrs PROVE ApplyAttrs(a, sent) \in Attrs
  BY DEF ApplyAttrs, Merged, Attrs, SentAttrs, Flag
<1>2. [attrs EXCEPT ![op[p].user] = ApplyAttrs(@, sent)] \in [User -> Attrs]
  BY <1>1 DEF TypeInv, TypeOK
<1>3. attrs' \in [User -> Attrs]
  BY <1>2 DEF Mutate, TypeInv, TypeOK
<1>4. op' \in [Proc -> GoodOp] /\ op' \in [Proc -> OpRecord]
  <2>1. CASE Become(p, o)
    BY <2>1, BecomeType DEF TypeInv
  <2>2. CASE Become(p, Idle)
    BY <2>2, BecomeType, IdleType DEF TypeInv
  <2>3. CASE UNCHANGED op
    BY <2>3 DEF TypeInv, TypeOK
  <2>4. QED
    BY <2>1, <2>2, <2>3 DEF Mutate
<1>5. faults' \in 0..MaxFaults
  BY ConstantsAssumption
     DEF Mutate, Fault, TypeInv, TypeOK, ConstantsAssumption
<1>6. QED
  BY <1>3, <1>4, <1>5

\* What a PATCH sends is well typed.
LEMMA PatchSendsType ==
    ASSUME NEW o \in OpRecord
    PROVE  PatchSends(o) \in SentAttrs
BY DEF PatchSends, Change, Sent, SentAttrs, OpRecord, Body, Attrs, Flag

\* What mark_certs_revoked sends is well typed.
LEMMA MarkSendsType ==
    ASSUME NEW o \in OpRecord
    PROVE  MarkSends(o) \in SentAttrs
BY DEF MarkSends, Sent, SentAttrs, OpRecord, Attrs, Flag

LEMMA SchedIsProc == Sched \in Proc
BY DEF Proc

LEMMA RequestIsProc == \A r \in Request : r \in Proc
BY DEF Proc

\* A failure is counted, and the count stays below its bound.
LEMMA FaultType ==
    ASSUME TypeInv, NEW kind, Fault(kind)
    PROVE  faults' \in 0..MaxFaults
BY ConstantsAssumption DEF Fault, TypeInv, TypeOK, ConstantsAssumption

\* Every initial state is well typed.
LEMMA InitType == Init => TypeInv
<1> SUFFICES ASSUME Init PROVE TypeInv
  OBVIOUS
<1>1. /\ attrs \in [User -> Attrs]
      /\ issued \subseteq Cert
      /\ now \in 0..MaxTime
      /\ faults \in 0..MaxFaults
  BY ConstantsAssumption DEF Init, ConstantsAssumption
<1>2. op \in [Proc -> GoodOp] /\ op \in [Proc -> OpRecord]
  BY IdleType DEF Init, GoodOp
<1>3. QED
  BY <1>1, <1>2 DEF Init, TypeInv, TypeOK

\* Every step keeps the types.
LEMMA StepType == TypeInv /\ [Next]_vars => TypeInv'
<1> SUFFICES ASSUME TypeInv, [Next]_vars PROVE TypeInv'
  OBVIOUS
<1> USE DEF TypeInv
<1>1. ASSUME Tick PROVE TypeInv'
  BY <1>1, ConstantsAssumption DEF Tick, TypeOK, ConstantsAssumption
<1>2. ASSUME NEW c \in Cert, DeviceEnroll(c) PROVE TypeInv'
  BY <1>2 DEF DeviceEnroll, TypeOK
<1>3. ASSUME NEW u \in User, TokenExpires(u) PROVE TypeInv'
  BY <1>3 DEF TokenExpires, TypeOK
<1>4. ASSUME Crash PROVE TypeInv'
  <2>1. op' \in [Proc -> GoodOp] /\ op' \in [Proc -> OpRecord]
    BY <1>4, IdleType DEF Crash, GoodOp
  <2>2. QED
    BY <1>4, <2>1, FaultType DEF Crash, TypeOK
<1>5. ASSUME NEW r \in Request, NEW u \in User, PatchRead(r, u) PROVE TypeInv'
  <2>1. PICK b \in Patches \ {NoBody} :
          Become(r, [Start("patch", u, "patch_write") EXCEPT
                      !.body = b, !.read = attrs[u],
                      !.ttlEnd = IF b.ttl \in {Unset, Keep} THEN b.ttl
                                                            ELSE now + b.ttl])
    BY <1>5 DEF PatchRead
  <2>2. b \in Body /\ attrs[u] \in Attrs /\ now \in Nat
    BY ConstantsAssumption DEF ConstantsAssumption, TypeOK
  <2>3. (IF b.ttl \in {Unset, Keep} THEN b.ttl ELSE now + b.ttl)
           \in Nat \cup {Unset, Keep}
    BY <2>2 DEF Body
  <2>4. [Start("patch", u, "patch_write") EXCEPT
           !.body = b, !.read = attrs[u],
           !.ttlEnd = IF b.ttl \in {Unset, Keep} THEN b.ttl
                                                 ELSE now + b.ttl] \in GoodOp
    BY <2>2, <2>3, PatchStartType
  <2>5. op' \in [Proc -> GoodOp] /\ op' \in [Proc -> OpRecord]
    BY <2>1, <2>4, RequestIsProc, BecomeType
  <2>6. QED
    BY <1>5, <2>5 DEF PatchRead, TypeOK
<1>6. ASSUME NEW p \in Proc, PatchWrite(p) PROVE TypeInv'
  <2>1. PatchSends(op[p]) \in SentAttrs
    BY PatchSendsType DEF TypeOK
  <2>2. Idle \in GoodOp
    BY <1>6, IdleType DEF PatchWrite, GoodOp, OpRecord
  <2>3. /\ attrs' \in [User -> Attrs]
        /\ op' \in [Proc -> GoodOp] /\ op' \in [Proc -> OpRecord]
        /\ faults' \in 0..MaxFaults
    BY <1>6, <2>1, <2>2, MutateType DEF PatchWrite
  <2>4. revived' \subseteq User
    <3>1. op[p].user \in User
      BY <1>6 DEF PatchWrite, GoodOp
    <3>2. revived' \in {revived, revived \cup {op[p].user}} /\ revived \subseteq User
      BY <1>6 DEF PatchWrite, TypeOK
    <3>3. QED
      BY <3>1, <3>2
  <2>5. QED
    BY <1>6, <2>3, <2>4 DEF PatchWrite, TypeOK
<1>7. ASSUME NEW r \in Request, NEW u \in User, DeleteStart(r, u) PROVE TypeInv'
  <2>1. Start("delete", u, "deactivate") \in GoodOp
    BY StartType
  <2>2. op' \in [Proc -> GoodOp] /\ op' \in [Proc -> OpRecord]
    BY <1>7, <2>1, RequestIsProc, BecomeType DEF DeleteStart
  <2>3. QED
    BY <1>7, <2>2 DEF DeleteStart, CertsOf, TypeOK
<1>8. ASSUME SchedPoll PROVE TypeInv'
  <2>1. queue' \subseteq User \X BOOLEAN
    <3> SUFFICES ASSUME NEW q \in queue' PROVE q \in User \X BOOLEAN
      OBVIOUS
    <3>1. PICK u \in User : q = <<u, attrs[u].is_active # "false">>
      BY <1>8, Zenon DEF SchedPoll
    <3>2. (attrs[u].is_active # "false") \in BOOLEAN
      OBVIOUS
    <3> DEFINE active == (attrs[u].is_active # "false")
    <3>3. active \in BOOLEAN
      BY <3>2
    <3>4. q = <<u, active>>
      BY <3>1
    <3> HIDE DEF active
    <3>5. QED
      BY <3>3, <3>4
  <2>2. condemned' \subseteq Cert
    BY <1>8 DEF SchedPoll, TypeOK
  <2>3. QED
    BY <1>8, <2>1, <2>2 DEF SchedPoll, TypeOK
<1>9. ASSUME NEW u \in User, NEW active \in BOOLEAN, SchedNext(u, active) PROVE TypeInv'
  <2>1. (IF active THEN Start("sweep", u, "deactivate")
         ELSE IF tak = "none" THEN Idle
         ELSE Start("sweep", u, "list_disk")) \in GoodOp
    BY StartType, IdleType
  <2>2. op' \in [Proc -> GoodOp] /\ op' \in [Proc -> OpRecord]
    BY <1>9, <2>1, SchedIsProc, BecomeType DEF SchedNext
  <2>3. QED
    BY <1>9, <2>2 DEF SchedNext, TypeOK
<1>10. ASSUME NEW p \in Proc, Deactivate(p) PROVE TypeInv'
  <2>1. [is_active |-> "false", expires |-> Keep, certs_revoked |-> Keep] \in SentAttrs
    BY DEF SentAttrs, Flag
  <2>2. (IF tak = "none" THEN Idle ELSE [op[p] EXCEPT !.pc = "list_disk"]) \in GoodOp
    BY <1>10, IdleType DEF Deactivate, GoodOp, OpRecord
  <2>3. /\ attrs' \in [User -> Attrs]
        /\ op' \in [Proc -> GoodOp] /\ op' \in [Proc -> OpRecord]
        /\ faults' \in 0..MaxFaults
    BY <1>10, <2>1, <2>2, MutateType DEF Deactivate
  <2>4. QED
    BY <1>10, <2>3 DEF Deactivate, TypeOK
<1>11. ASSUME NEW p \in Proc, ListDisk(p) PROVE TypeInv'
  <2> DEFINE found == Glob[op[p].user] \cap issued
  <2>1. op[p] \in OpRecord /\ op[p].user \in User
    BY <1>11 DEF ListDisk, GoodOp
  <2>2. /\ [op[p] EXCEPT !.todo = found, !.listed = found] \in OpRecord
        /\ [op[p] EXCEPT !.todo = found, !.listed = found].user \in User
        /\ [op[p] EXCEPT !.ok = FALSE] \in OpRecord
        /\ [op[p] EXCEPT !.ok = FALSE].user \in User
    BY <2>1 DEF OpRecord, TypeOK
  <2>3. op' \in [Proc -> GoodOp] /\ op' \in [Proc -> OpRecord]
    BY <1>11, <2>2, AdvanceType, BecomeType DEF ListDisk
  <2>4. QED
    BY <1>11, <2>3, FaultType DEF ListDisk, TypeOK
<1>12. ASSUME NEW p \in Proc, ListAdmin(p) PROVE TypeInv'
  <2> DEFINE found == {c \in (Enrolled \cap issued) \ flagged :
                              Owner[c] = op[p].user}
             o == [op[p] EXCEPT !.phase = "admin"]
             oo == [o EXCEPT !.todo = found, !.listed = @ \cup found]
  <2>1. op[p] \in OpRecord /\ op[p].user \in User
    BY <1>12 DEF ListAdmin, GoodOp
  <2>2. o \in OpRecord /\ o.user \in User
    BY <2>1 DEF OpRecord
  <2>3. oo \in OpRecord /\ oo.user \in User
    BY <2>1 DEF OpRecord, TypeOK
  <2>4. Advance(o) \in GoodOp /\ Advance(oo) \in GoodOp
    BY <2>2, <2>3, AdvanceType
  <2>5. op' \in [Proc -> GoodOp] /\ op' \in [Proc -> OpRecord]
    BY <1>12, <2>4, IdleType, BecomeType DEF ListAdmin
  <2>6. QED
    BY <1>12, <2>5, FaultType DEF ListAdmin, TypeOK
<1>13. ASSUME NEW p \in Proc, NEW c \in Cert, RevokeLoad(p, c) PROVE TypeInv'
  <2> DEFINE o == [op[p] EXCEPT !.target = c]
             oo == [o EXCEPT !.pc = "save", !.idx = index]
  <2>1. op[p] \in OpRecord /\ op[p].user \in User
    BY <1>13 DEF RevokeLoad, GoodOp
  <2>2. o \in OpRecord /\ o.user \in User
    BY <2>1 DEF OpRecord
  <2>3. oo \in GoodOp
    BY <2>1 DEF OpRecord, GoodOp, TypeOK
  <2>4. Failed(o) \in GoodOp
    BY <2>2, AdvanceType
  <2>5. op' \in [Proc -> GoodOp] /\ op' \in [Proc -> OpRecord]
    BY <1>13, <2>3, <2>4, BecomeType DEF RevokeLoad
  <2>6. QED
    BY <1>13, <2>5, FaultType DEF RevokeLoad, TypeOK
<1>14. ASSUME NEW p \in Proc, RevokeSave(p) PROVE TypeInv'
  <2>1. op[p] \in GoodOp /\ op[p].target \in Cert /\ op[p].idx \subseteq Cert
    BY <1>14 DEF RevokeSave, GoodOp, OpRecord
  <2>2. [op[p] EXCEPT !.pc = "gencrl", !.idx = {}] \in GoodOp
    BY <1>14, <2>1 DEF RevokeSave, OpRecord, GoodOp
  <2>3. op' \in [Proc -> GoodOp] /\ op' \in [Proc -> OpRecord]
    BY <1>14, <2>2, BecomeType DEF RevokeSave
  <2>4. QED
    BY <1>14, <2>1, <2>3 DEF RevokeSave, TypeOK
<1>15. ASSUME NEW p \in Proc, RevokeGencrl(p) PROVE TypeInv'
  <2>1. op[p] \in OpRecord /\ op[p].user \in User
    BY <1>15 DEF RevokeGencrl, GoodOp
  <2>2. op' \in [Proc -> GoodOp] /\ op' \in [Proc -> OpRecord]
    BY <1>15, <2>1, AdvanceType, BecomeType DEF RevokeGencrl
  <2>3. QED
    BY <1>15, <2>2, FaultType DEF RevokeGencrl, TypeOK
<1>16. ASSUME NEW p \in Proc, MarkRead(p) PROVE TypeInv'
  <2>1. op[p] \in GoodOp /\ op[p].user \in User
    BY <1>16 DEF MarkRead, GoodOp
  <2>2. [op[p] EXCEPT !.pc = "mark_write", !.read = attrs[op[p].user]] \in GoodOp
    BY <2>1 DEF OpRecord, GoodOp, TypeOK
  <2>3. op' \in [Proc -> GoodOp] /\ op' \in [Proc -> OpRecord]
    BY <1>16, <2>2, IdleType, BecomeType DEF MarkRead
  <2>4. QED
    BY <1>16, <2>3, FaultType DEF MarkRead, TypeOK
<1>17. ASSUME NEW p \in Proc, MarkWrite(p) PROVE TypeInv'
  <2>1. MarkSends(op[p]) \in SentAttrs
    BY MarkSendsType DEF TypeOK
  <2>2. Idle \in GoodOp
    BY <1>17, IdleType DEF MarkWrite, GoodOp, OpRecord
  <2>3. /\ attrs' \in [User -> Attrs]
        /\ op' \in [Proc -> GoodOp] /\ op' \in [Proc -> OpRecord]
        /\ faults' \in 0..MaxFaults
    BY <1>17, <2>1, <2>2, MutateType DEF MarkWrite
  <2>4. QED
    BY <1>17, <2>3 DEF MarkWrite, TypeOK
<1>18. ASSUME NEW r \in Request, NEW c \in Cert, RevokeStart(r, c) PROVE TypeInv'
  <2>1. Owner[c] \in User
    BY ConstantsAssumption DEF ConstantsAssumption
  <2>2. Start("revoke", Owner[c], "revoke") \in GoodOp
    BY <2>1, StartType
  <2>3. [Start("revoke", Owner[c], "revoke") EXCEPT !.todo = {c}] \in GoodOp
    BY <2>2 DEF GoodOp, OpRecord
  <2>4. op' \in [Proc -> GoodOp] /\ op' \in [Proc -> OpRecord]
    BY <1>18, <2>3, RequestIsProc, BecomeType DEF RevokeStart
  <2>5. QED
    BY <1>18, <2>4 DEF RevokeStart, TypeOK
<1>19. ASSUME NEW p \in Proc, FlagAdmin(p) PROVE TypeInv'
  <2>1. op[p] \in GoodOp /\ op[p].target \in Cert
    BY <1>19 DEF FlagAdmin, GoodOp
  <2>2. [op[p] EXCEPT !.pc = "tokens"] \in GoodOp
    BY <1>19, <2>1 DEF FlagAdmin, OpRecord, GoodOp
  <2>3. op' \in [Proc -> GoodOp] /\ op' \in [Proc -> OpRecord]
    BY <1>19, <2>2, BecomeType DEF FlagAdmin
  <2>4. QED
    BY <1>19, <2>1, <2>3, FaultType DEF FlagAdmin, TypeOK
<1>20. ASSUME NEW p \in Proc, DropTokens(p) PROVE TypeInv'
  <2>1. op' \in [Proc -> GoodOp] /\ op' \in [Proc -> OpRecord]
    BY <1>20, IdleType, BecomeType DEF DropTokens
  <2>2. QED
    BY <1>20, <2>1 DEF DropTokens, TypeOK, GoodOp
<1>21. ASSUME NEW p \in Proc, GenerateSign(p) PROVE TypeInv'
  <2>1. op' \in [Proc -> GoodOp] /\ op' \in [Proc -> OpRecord]
    BY <1>21, IdleType, BecomeType DEF GenerateSign
  <2>2. QED
    BY <1>21, <2>1, FaultType DEF GenerateSign, TypeOK, GoodOp
<1>22. ASSUME NEW p \in Proc, EnrollMint(p) PROVE TypeInv'
  <2>1. op' \in [Proc -> GoodOp] /\ op' \in [Proc -> OpRecord]
    BY <1>22, IdleType, BecomeType DEF EnrollMint
  <2>2. QED
    BY <1>22, <2>1 DEF EnrollMint, TypeOK, GoodOp
<1>23. ASSUME NEW r \in Request, NEW c \in Cert, GenerateCheck(r, c) PROVE TypeInv'
  <2> DEFINE o == [Start("generate", Owner[c], "sign") EXCEPT !.target = c]
  <2>1. Owner[c] \in User
    BY ConstantsAssumption DEF ConstantsAssumption
  <2>2. o \in GoodOp
    BY <2>1, IdleType DEF Start, GoodOp, OpRecord
  <2>3. op' \in [Proc -> GoodOp] /\ op' \in [Proc -> OpRecord]
    BY <1>23, <2>2, RequestIsProc, BecomeType DEF GenerateCheck
  <2>4. QED
    BY <1>23, <2>3 DEF GenerateCheck, TypeOK
<1>24. ASSUME NEW r \in Request, NEW u \in User, EnrollCheck(r, u) PROVE TypeInv'
  <2>1. op' \in [Proc -> GoodOp] /\ op' \in [Proc -> OpRecord]
    BY <1>24, StartType, RequestIsProc, BecomeType DEF EnrollCheck
  <2>2. QED
    BY <1>24, <2>1 DEF EnrollCheck, TypeOK
<1>25. CASE UNCHANGED vars
  BY <1>25 DEF vars, TypeOK
<1>26. QED
  BY <1>1, <1>2, <1>3, <1>4, <1>5, <1>6, <1>7, <1>8, <1>9, <1>10, <1>11, <1>12, <1>13, <1>14, <1>15, <1>16, <1>17, <1>18, <1>19, <1>20, <1>21, <1>22, <1>23, <1>24, <1>25,
     SchedIsProc, RequestIsProc
     DEF Next, Outside, SchedStep, Arrive, Step

\* Type correctness: the variables have their types in every reachable state.
THEOREM TypeCorrect == Spec => []TypeOK
<1>1. Spec => []TypeInv
  BY InitType, StepType, PTL DEF Spec
<1>2. TypeInv => TypeOK
  BY DEF TypeInv
<1>3. QED
  BY <1>1, <1>2, PTL

(***************************************************************************)
(* The expiry job's sweep is complete.  The theorem is about deployments   *)
(* in which three things hold that the code does not enforce:              *)
(***************************************************************************)
\* no request revokes while the job does (openssl's index has one writer),
SingleRevoker == Kinds \cap {"delete", "revoke"} = {}

\* the file-name pattern finds at least the user's own files,
OwnFilesFound == \A u \in User : CertsOf(u) \ Enrolled \subseteq Glob[u]

\* and certadmin answers when it is asked.
CertadminAnswers == "certadmin" \notin FaultKinds

\* What the sources looked at so far should have brought.
Covered(o) == IF o.phase = "disk" THEN CertsOf(o.user) \ Enrolled
                                  ELSE CertsOf(o.user)

\* The job's operation o, given the index i and the CRL r: as long as no
\* certificate failed, what it covered is in the CRL or still to be done.
GoodSweep(o, i, r) ==
    /\ o.pc \in {"idle", "deactivate", "list_disk", "list_admin", "revoke",
                 "save", "gencrl", "mark_read", "mark_write"}
    /\ o.pc # "idle" => o.kind = "sweep"
    /\ o.pc \in {"deactivate", "list_disk", "list_admin"} => o.phase = "disk"
    /\ o.pc = "list_admin" => o.todo = {}
    /\ o.pc = "save" => o.idx = i
    /\ o.pc = "gencrl" => o.target \in i
    /\ o.pc \in {"mark_read", "mark_write"} =>
         o.todo = {} /\ o.ok /\ o.phase = "admin"
    /\ o.ok /\ o.pc \in {"list_admin", "revoke", "save", "gencrl", "mark_read",
                         "mark_write"} =>
         Covered(o) \cap InitIssued \subseteq r \cup o.todo

\* The requests of such a deployment never come near the certificate files.
HarmlessRequests ==
    \A r \in Request : op[r].pc \in {"idle", "patch_write", "sign", "mint"}

SweepInv ==
    /\ TypeInv
    /\ flagged = {}
    /\ crl \subseteq index
    /\ InitIssued \subseteq issued
    /\ HarmlessRequests
    /\ GoodSweep(op[Sched], index, crl)


\* Going on after a certificate, or after a source, keeps the job's operation
\* good when nothing covered has been lost.
LEMMA AdvanceGood ==
    ASSUME NEW o \in OpRecord, o.kind = "sweep", NEW i, NEW r,
           o.ok => Covered(o) \cap InitIssued \subseteq r \cup o.todo
    PROVE  GoodSweep(Advance(o), i, r)
<1>1. CASE o.todo # {}
  BY <1>1 DEF Advance, GoodSweep, OpRecord, Covered
<1>2. CASE o.todo = {} /\ o.phase = "disk"
  BY <1>2 DEF Advance, GoodSweep, OpRecord, Covered
<1>3. CASE o.todo = {} /\ o.phase # "disk" /\ o.ok
  BY <1>3 DEF Advance, GoodSweep, OpRecord, Covered
<1>4. CASE o.todo = {} /\ o.phase # "disk" /\ ~o.ok
  BY <1>4 DEF Advance, GoodSweep, OpRecord, Idle
<1>5. QED
  BY <1>1, <1>2, <1>3, <1>4

\* The empty operation is good whatever the files hold.
LEMMA IdleGood == \A i, r : GoodSweep(Idle, i, r)
BY DEF GoodSweep, Idle

\* A failed certificate needs nothing any more.
LEMMA FailedGood ==
    ASSUME NEW o \in OpRecord, o.kind = "sweep", NEW i, NEW r
    PROVE  GoodSweep(Failed(o), i, r)
<1> DEFINE x == [o EXCEPT !.todo = @ \ {o.target}, !.ok = FALSE]
<1>1. x \in OpRecord /\ x.kind = "sweep" /\ ~x.ok
  BY DEF OpRecord
<1> HIDE DEF x
<1>2. GoodSweep(Advance(x), i, r)
  BY <1>1, AdvanceGood
<1>3. QED
  BY <1>2 DEF Failed, x

\* Only the job touches the job's operation.
LEMMA OtherOp ==
    ASSUME op \in [Proc -> OpRecord], NEW r \in Request, NEW o, Become(r, o)
    PROVE  /\ op'[Sched] = op[Sched]
           /\ op'[r] = o
           /\ \A q \in Request : q # r => op'[q] = op[q]
BY ConstantsAssumption DEF Become, Proc, ConstantsAssumption

LEMMA SchedOp ==
    ASSUME op \in [Proc -> OpRecord], NEW o, Become(Sched, o)
    PROVE  /\ op'[Sched] = o
           /\ \A q \in Request : op'[q] = op[q]
BY ConstantsAssumption DEF Become, Proc, ConstantsAssumption

\* A step of a request that leaves the certificate files alone and the
\* request in a harmless place keeps the invariant.
LEMMA RequestKeeps ==
    ASSUME SweepInv, TypeInv', NEW r \in Request, NEW o, Become(r, o),
           o.pc \in {"idle", "patch_write", "sign", "mint"},
           issued \subseteq issued', UNCHANGED <<flagged, index, crl>>
    PROVE  SweepInv'
<1>1. op \in [Proc -> OpRecord]
  BY DEF SweepInv, TypeInv, TypeOK
<1>2. HarmlessRequests'
  BY <1>1, OtherOp DEF SweepInv, HarmlessRequests
<1>3. op'[Sched] = op[Sched]
  BY <1>1, OtherOp
<1>4. QED
  BY <1>2, <1>3 DEF SweepInv

\* A step of the job that leaves its operation good keeps the invariant.
LEMMA JobKeeps ==
    ASSUME SweepInv, TypeInv', NEW o, Become(Sched, o),
           GoodSweep(o, index', crl'), crl' \subseteq index',
           UNCHANGED <<flagged, issued>>
    PROVE  SweepInv'
<1>1. op \in [Proc -> OpRecord]
  BY DEF SweepInv, TypeInv, TypeOK
<1>2. HarmlessRequests'
  BY <1>1, SchedOp DEF SweepInv, HarmlessRequests
<1>3. op'[Sched] = o
  BY <1>1, SchedOp
<1>4. QED
  BY <1>2, <1>3 DEF SweepInv

\* Initially nothing has been claimed.
LEMMA SweepInit == Init => SweepInv
<1> SUFFICES ASSUME Init PROVE SweepInv
  OBVIOUS
<1>1. TypeInv
  BY InitType
<1>2. op[Sched] = Idle /\ \A r \in Request : op[r] = Idle
  BY SchedIsProc, RequestIsProc DEF Init
<1>3. GoodSweep(op[Sched], index, crl)
  BY <1>2, IdleGood
<1>4. HarmlessRequests
  BY <1>2 DEF HarmlessRequests, Idle
<1>5. QED
  BY <1>1, <1>3, <1>4 DEF Init, SweepInv

\* The steps that finish what the job has begun.
LEMMA JobStep ==
    ASSUME OwnFilesFound, CertadminAnswers,
           SweepInv, TypeInv', Step(Sched)
    PROVE  SweepInv'
<1> DEFINE o == op[Sched]
<1>1. o \in OpRecord /\ GoodSweep(o, index, crl) /\ crl \subseteq index
  BY SchedIsProc DEF SweepInv, TypeInv, TypeOK
<1>2. CASE Deactivate(Sched)
  <2> DEFINE n == IF tak = "none" THEN Idle ELSE [o EXCEPT !.pc = "list_disk"]
  <2>1. GoodSweep(n, index, crl)
    BY <1>1, <1>2, IdleGood DEF Deactivate, GoodSweep, OpRecord
  <2>2. UNCHANGED <<flagged, issued, index, crl>>
    BY <1>2 DEF Deactivate
  <2>3. \/ Become(Sched, n)
        \/ UNCHANGED op
        \/ Become(Sched, Idle)
    BY <1>2 DEF Deactivate, Mutate
  <2>4. CASE UNCHANGED op
    BY <2>4, <2>2 DEF SweepInv, HarmlessRequests
  <2> HIDE DEF n
  <2>5. QED
    BY <1>1, <2>1, <2>2, <2>3, <2>4, JobKeeps, IdleGood
<1>3. CASE ListDisk(Sched)
  <2> DEFINE found == Glob[o.user] \cap issued
             x == [o EXCEPT !.todo = found, !.listed = found]
             y == [o EXCEPT !.ok = FALSE]
  <2>1. o.pc = "list_disk" /\ o.kind = "sweep" /\ o.phase = "disk"
        /\ o.user \in User
    BY <1>1, <1>3, SchedIsProc
       DEF ListDisk, GoodSweep, SweepInv, TypeInv, GoodOp
  <2>2. CertsOf(o.user) \ Enrolled \subseteq Glob[o.user]
    BY <2>1 DEF OwnFilesFound
  <2>3. x \in OpRecord /\ x.kind = "sweep" /\ x.todo = found
        /\ x.phase = "disk" /\ x.user = o.user
    BY <1>1, <2>1 DEF OpRecord, SweepInv, TypeInv, TypeOK
  <2>4. Covered(x) \cap InitIssued \subseteq x.todo
    BY <2>2, <2>3 DEF Covered, SweepInv
  <2>5. y \in OpRecord /\ y.kind = "sweep" /\ ~y.ok
    BY <1>1, <2>1 DEF OpRecord
  <2>6. UNCHANGED <<flagged, issued, index, crl>>
    BY <1>3 DEF ListDisk
  <2>7. Become(Sched, Advance(x)) \/ Become(Sched, Advance(y))
    BY <1>3 DEF ListDisk
  <2> HIDE DEF x, y
  <2>8. GoodSweep(Advance(x), index, crl) /\ GoodSweep(Advance(y), index, crl)
    BY <2>3, <2>4, <2>5, AdvanceGood
  <2>9. QED
    BY <1>1, <2>6, <2>7, <2>8, JobKeeps
<1>4. CASE ListAdmin(Sched)
  <2> DEFINE found == {c \in (Enrolled \cap issued) \ flagged :
                          Owner[c] = o.user}
             x == [[o EXCEPT !.phase = "admin"]
                      EXCEPT !.todo = found, !.listed = @ \cup found]
  <2>1. o.pc = "list_admin" /\ o.kind = "sweep" /\ o.phase = "disk"
        /\ o.todo = {}
        /\ (o.ok => Covered(o) \cap InitIssued \subseteq crl)
    BY <1>1, <1>4 DEF ListAdmin, GoodSweep
  <2>2. x \in OpRecord /\ x.kind = "sweep" /\ x.todo = found
        /\ x.phase = "admin" /\ x.user = o.user /\ x.ok = o.ok
    BY <1>1, <2>1 DEF OpRecord, SweepInv, TypeInv, TypeOK
  <2>3. x.ok => Covered(x) \cap InitIssued \subseteq crl \cup x.todo
    BY <2>1, <2>2 DEF Covered, CertsOf, SweepInv
  <2>4. UNCHANGED <<flagged, issued, index, crl>>
    BY <1>4 DEF ListAdmin
  <2>5. Become(Sched, Advance(x)) \/ Become(Sched, Idle)
    BY <1>4 DEF ListAdmin, CertadminAnswers, Fault
  <2> HIDE DEF x
  <2>6. GoodSweep(Advance(x), index, crl)
    BY <2>2, <2>3, AdvanceGood
  <2>7. QED
    BY <1>1, <2>4, <2>5, <2>6, JobKeeps, IdleGood
<1>5. ASSUME NEW c \in Cert, RevokeLoad(Sched, c) PROVE SweepInv'
  <2> DEFINE x == [o EXCEPT !.target = c]
             y == [x EXCEPT !.pc = "save", !.idx = index]
  <2>1. o.pc = "revoke" /\ o.kind = "sweep"
        /\ (o.ok => Covered(o) \cap InitIssued \subseteq crl \cup o.todo)
    BY <1>1, <1>5 DEF RevokeLoad, GoodSweep
  <2>2. x \in OpRecord /\ x.kind = "sweep"
    BY <1>1, <2>1 DEF OpRecord
  <2>3. GoodSweep(y, index, crl)
    BY <1>1, <2>1 DEF GoodSweep, Covered, OpRecord
  <2>4. UNCHANGED <<flagged, issued, index, crl>>
    BY <1>5 DEF RevokeLoad
  <2>5. Become(Sched, y) \/ Become(Sched, Failed(x))
    BY <1>5 DEF RevokeLoad
  <2> HIDE DEF x, y
  <2>6. GoodSweep(Failed(x), index, crl)
    BY <2>2, FailedGood
  <2>7. QED
    BY <1>1, <2>3, <2>4, <2>5, <2>6, JobKeeps
<1>6. CASE RevokeSave(Sched)
  <2> DEFINE x == [o EXCEPT !.pc = "gencrl", !.idx = {}]
  <2>1. o.pc = "save" /\ o.kind = "sweep" /\ o.idx = index
        /\ (o.ok => Covered(o) \cap InitIssued \subseteq crl \cup o.todo)
    BY <1>1, <1>6 DEF RevokeSave, GoodSweep
  <2>2. index' = index \cup {o.target} /\ UNCHANGED <<flagged, issued, crl>>
    BY <1>6, <2>1 DEF RevokeSave
  <2>3. GoodSweep(x, index', crl')
    BY <1>1, <2>1, <2>2 DEF GoodSweep, Covered, OpRecord
  <2>4. Become(Sched, x)
    BY <1>6 DEF RevokeSave
  <2> HIDE DEF x
  <2>5. QED
    BY <1>1, <2>2, <2>3, <2>4, JobKeeps
<1>7. CASE RevokeGencrl(Sched)
  <2> DEFINE x == [o EXCEPT !.todo = @ \ {o.target}]
  <2>1. o.pc = "gencrl" /\ o.kind = "sweep" /\ o.target \in index
        /\ (o.ok => Covered(o) \cap InitIssued \subseteq crl \cup o.todo)
    BY <1>1, <1>7 DEF RevokeGencrl, GoodSweep
  <2>2. UNCHANGED <<flagged, issued, index>>
    BY <1>7 DEF RevokeGencrl
  <2>3. CASE crl' = index /\ Become(Sched, Done(o))
    <3>1. x \in OpRecord /\ x.kind = "sweep" /\ x.ok = o.ok
          /\ x.todo = o.todo \ {o.target} /\ Covered(x) = Covered(o)
      BY <1>1, <2>1 DEF OpRecord, Covered
    <3>2. x.ok => Covered(x) \cap InitIssued \subseteq crl' \cup x.todo
      BY <1>1, <2>1, <2>3, <3>1
    <3> HIDE DEF x
    <3>3. GoodSweep(Advance(x), index', crl')
      BY <3>1, <3>2, AdvanceGood
    <3>4. Become(Sched, Advance(x))
      BY <2>3 DEF Done, x
    <3>5. QED
      BY <2>2, <2>3, <3>3, <3>4, JobKeeps
  <2>4. CASE Become(Sched, Failed(o)) /\ UNCHANGED crl
    <3>1. GoodSweep(Failed(o), index', crl')
      BY <1>1, <2>1, FailedGood
    <3>2. QED
      BY <1>1, <2>2, <2>4, <3>1, JobKeeps
  <2>5. QED
    BY <1>7, <2>3, <2>4 DEF RevokeGencrl
<1>8. CASE MarkRead(Sched)
  <2> DEFINE x == [o EXCEPT !.pc = "mark_write", !.read = attrs[o.user]]
  <2>1. o.pc = "mark_read"
    BY <1>8 DEF MarkRead
  <2>2. GoodSweep(x, index, crl)
    BY <1>1, <2>1 DEF GoodSweep, Covered, OpRecord
  <2>3. UNCHANGED <<flagged, issued, index, crl>>
    BY <1>8 DEF MarkRead
  <2>4. Become(Sched, x) \/ Become(Sched, Idle)
    BY <1>8 DEF MarkRead
  <2> HIDE DEF x
  <2>5. QED
    BY <1>1, <2>2, <2>3, <2>4, JobKeeps, IdleGood
<1>9. CASE MarkWrite(Sched)
  <2>1. UNCHANGED <<flagged, issued, index, crl>>
    BY <1>9 DEF MarkWrite
  <2>2. Become(Sched, Idle) \/ UNCHANGED op
    BY <1>9 DEF MarkWrite, Mutate
  <2>3. CASE UNCHANGED op
    BY <2>1, <2>3 DEF SweepInv, HarmlessRequests
  <2>4. QED
    BY <1>1, <2>1, <2>2, <2>3, JobKeeps, IdleGood
<1>10. o.pc \notin {"patch_write", "flag", "tokens", "sign", "mint"}
  BY <1>1 DEF GoodSweep
<1>11. QED
  BY <1>2, <1>3, <1>4, <1>5, <1>6, <1>7, <1>8, <1>9, <1>10
     DEF Step, PatchWrite, FlagAdmin, DropTokens, GenerateSign, EnrollMint

\* Every step keeps the invariant.
LEMMA SweepStep ==
    ASSUME SingleRevoker, OwnFilesFound, CertadminAnswers
    PROVE  SweepInv /\ TypeInv' /\ [Next]_vars => SweepInv'
<1> SUFFICES ASSUME SweepInv, TypeInv', [Next]_vars PROVE SweepInv'
  OBVIOUS
<1>1. CASE Outside
  <2>1. CASE Crash
    <3>1. op'[Sched] = Idle /\ \A r \in Request : op'[r] = Idle
      BY <2>1, SchedIsProc, RequestIsProc DEF Crash
    <3>2. GoodSweep(op'[Sched], index', crl')
      BY <3>1, IdleGood
    <3>3. HarmlessRequests'
      BY <3>1 DEF HarmlessRequests, Idle
    <3>4. QED
      BY <2>1, <3>2, <3>3 DEF Crash, SweepInv
  <2>2. CASE Tick
    BY <2>2 DEF Tick, SweepInv, HarmlessRequests
  <2>3. ASSUME NEW c \in Cert, DeviceEnroll(c) PROVE SweepInv'
    BY <2>3 DEF DeviceEnroll, SweepInv, HarmlessRequests
  <2>4. ASSUME NEW u \in User, TokenExpires(u) PROVE SweepInv'
    BY <2>4 DEF TokenExpires, SweepInv, HarmlessRequests
  <2>5. QED
    BY <1>1, <2>1, <2>2, <2>3, <2>4 DEF Outside
<1>2. CASE SchedPoll
  BY <1>2 DEF SchedPoll, SweepInv, HarmlessRequests
<1>3. ASSUME NEW u \in User, NEW active \in BOOLEAN, SchedNext(u, active)
      PROVE  SweepInv'
  <2> DEFINE n == IF active THEN Start("sweep", u, "deactivate")
                  ELSE IF tak = "none" THEN Idle
                  ELSE Start("sweep", u, "list_disk")
  <2>1. GoodSweep(n, index, crl)
    BY IdleGood DEF GoodSweep, Start, Idle
  <2>2. Become(Sched, n) /\ UNCHANGED <<flagged, issued, index, crl>>
    BY <1>3 DEF SchedNext
  <2>3. crl \subseteq index
    BY DEF SweepInv
  <2> HIDE DEF n
  <2>4. QED
    BY <2>1, <2>2, <2>3, JobKeeps
<1>4. CASE Step(Sched)
  BY <1>4, JobStep
<1>5. ASSUME NEW r \in Request, Step(r) PROVE SweepInv'
  <2>1. op[r].pc \in {"idle", "patch_write", "sign", "mint"}
    BY DEF SweepInv, HarmlessRequests
  <2>2. CASE PatchWrite(r)
    <3>1. UNCHANGED <<issued, flagged, index, crl>>
      BY <2>2 DEF PatchWrite
    <3>2. Become(r, Idle) \/ UNCHANGED op
      BY <2>2 DEF PatchWrite, Mutate
    <3>3. CASE UNCHANGED op
      BY <3>1, <3>3 DEF SweepInv, HarmlessRequests
    <3>4. QED
      BY <3>1, <3>2, <3>3, RequestKeeps DEF Idle
  <2>3. CASE GenerateSign(r)
    BY <2>3, RequestKeeps DEF GenerateSign, Idle
  <2>4. CASE EnrollMint(r)
    BY <2>4, RequestKeeps DEF EnrollMint, Idle
  <2>5. QED
    BY <1>5, <2>1, <2>2, <2>3, <2>4
       DEF Step, Deactivate, ListDisk, ListAdmin, RevokeLoad, RevokeSave,
           RevokeGencrl, MarkRead, MarkWrite, FlagAdmin, DropTokens
<1>6. ASSUME NEW r \in Request, Arrive(r) PROVE SweepInv'
  <2>1. ASSUME NEW u \in User, PatchRead(r, u) PROVE SweepInv'
    <3>1. PICK b \in Patches \ {NoBody} :
            Become(r, [Start("patch", u, "patch_write") EXCEPT
                        !.body = b, !.read = attrs[u],
                        !.ttlEnd = IF b.ttl \in {Unset, Keep} THEN b.ttl
                                                              ELSE now + b.ttl])
      BY <2>1 DEF PatchRead
    <3> DEFINE e == IF b.ttl \in {Unset, Keep} THEN b.ttl ELSE now + b.ttl
               n == [Start("patch", u, "patch_write") EXCEPT
                        !.body = b, !.read = attrs[u], !.ttlEnd = e]
    <3>3. Become(r, n)
      BY <3>1
    <3> HIDE DEF e
    <3>2. n.pc = "patch_write"
      BY DEF Start, Idle
    <3> HIDE DEF n
    <3>4. QED
      BY <2>1, <3>2, <3>3, RequestKeeps DEF PatchRead
  <2>2. ASSUME NEW u \in User, EnrollCheck(r, u) PROVE SweepInv'
    <3>1. Start("enroll", u, "mint").pc = "mint"
      BY DEF Start, Idle
    <3>2. QED
      BY <2>2, <3>1, RequestKeeps DEF EnrollCheck
  <2>3. ASSUME NEW c \in Cert, GenerateCheck(r, c) PROVE SweepInv'
    <3> DEFINE n == [Start("generate", Owner[c], "sign") EXCEPT !.target = c]
    <3>1. n.pc = "sign"
      BY DEF Start, Idle
    <3>2. Become(r, n)
      BY <2>3 DEF GenerateCheck
    <3> HIDE DEF n
    <3>3. QED
      BY <2>3, <3>1, <3>2, RequestKeeps DEF GenerateCheck
  <2>4. QED
    BY <1>6, <2>1, <2>2, <2>3 DEF Arrive, DeleteStart, RevokeStart, SingleRevoker
<1>7. CASE UNCHANGED vars
  BY <1>7 DEF vars, SweepInv, HarmlessRequests
<1>8. QED
  BY <1>1, <1>2, <1>3, <1>4, <1>5, <1>6, <1>7 DEF Next, SchedStep

\* revoke_all_user_certs says "Returns True only if every cert was successfully
\* revoked": with one revoker at a time, own files found and certadmin
\* answering, the job marks no user whose certificates are not all in the CRL.
THEOREM SweepIsComplete ==
    ASSUME SingleRevoker, OwnFilesFound, CertadminAnswers
    PROVE  Spec => []SweepComplete
<1>1. Init => SweepInv
  BY SweepInit
<1>2. SweepInv /\ [Next]_vars => SweepInv'
  BY SweepStep, StepType DEF SweepInv
<1>3. SweepInv => SweepComplete
  BY DEF SweepInv, SweepComplete, GoodSweep, HarmlessRequests, Proc, Covered
<1>4. QED
  BY <1>1, <1>2, <1>3, PTL DEF Spec
(***************************************************************************)
(* Nothing leaves the CRL.  Of the three conditions above only the first   *)
(* is needed: the index the job writes back is the one it has read.        *)
(***************************************************************************)
IndexKept(o, i) ==
    /\ o.pc \in {"idle", "deactivate", "list_disk", "list_admin", "revoke",
                 "save", "gencrl", "mark_read", "mark_write"}
    /\ o.pc # "idle" => o.kind = "sweep"
    /\ o.pc = "save" => o.idx = i

IndexInv ==
    /\ TypeInv
    /\ crl \subseteq index
    /\ HarmlessRequests
    /\ IndexKept(op[Sched], index)

LEMMA IdleKept == \A i : IndexKept(Idle, i)
BY DEF IndexKept, Idle

\* Neither the next certificate nor the end of a list holds an index.
LEMMA AdvanceKept ==
    ASSUME NEW o \in OpRecord, o.kind = "sweep", NEW i
    PROVE  IndexKept(Advance(o), i) /\ IndexKept(Done(o), i) /\ IndexKept(Failed(o), i)
<1>1. ASSUME NEW x \in OpRecord, x.kind = "sweep" PROVE IndexKept(Advance(x), i)
  BY <1>1 DEF Advance, IndexKept, OpRecord, Idle
<1> DEFINE d == [o EXCEPT !.todo = @ \ {o.target}]
           f == [o EXCEPT !.todo = @ \ {o.target}, !.ok = FALSE]
<1>2. d \in OpRecord /\ d.kind = "sweep" /\ f \in OpRecord /\ f.kind = "sweep"
  BY DEF OpRecord
<1> HIDE DEF d, f
<1>3. IndexKept(Advance(d), i) /\ IndexKept(Advance(f), i)
  BY <1>1, <1>2
<1>4. IndexKept(Advance(o), i)
  BY <1>1
<1>5. QED
  BY <1>3, <1>4 DEF Done, Failed, d, f

\* A step of the job that leaves its operation in such a place.
LEMMA JobKeepsIndex ==
    ASSUME IndexInv, TypeInv', NEW o, Become(Sched, o), IndexKept(o, index'),
           crl \subseteq crl', crl' \subseteq index'
    PROVE  IndexInv' /\ crl \subseteq crl'
<1>1. op \in [Proc -> OpRecord]
  BY DEF IndexInv, TypeInv, TypeOK
<1>2. HarmlessRequests' /\ op'[Sched] = o
  BY <1>1, SchedOp DEF IndexInv, HarmlessRequests
<1>3. QED
  BY <1>2 DEF IndexInv

\* A step of a request that stays away from the certificate files.
LEMMA RequestKeepsIndex ==
    ASSUME IndexInv, TypeInv', NEW r \in Request, NEW o, Become(r, o),
           o.pc \in {"idle", "patch_write", "sign", "mint"}, UNCHANGED <<index, crl>>
    PROVE  IndexInv' /\ crl \subseteq crl'
<1>1. op \in [Proc -> OpRecord]
  BY DEF IndexInv, TypeInv, TypeOK
<1>2. HarmlessRequests' /\ op'[Sched] = op[Sched]
  BY <1>1, OtherOp DEF IndexInv, HarmlessRequests
<1>3. QED
  BY <1>2 DEF IndexInv

\* The job's own steps keep the index, and take nothing from the CRL.
LEMMA JobIndex ==
    ASSUME IndexInv, TypeInv', Step(Sched)
    PROVE  IndexInv' /\ crl \subseteq crl'
<1> DEFINE o == op[Sched]
<1>1. /\ o \in OpRecord /\ crl \subseteq index /\ IndexKept(o, index)
  BY SchedIsProc DEF IndexInv, TypeInv, TypeOK
<1>2. ASSUME UNCHANGED <<op, index, crl>> PROVE IndexInv' /\ crl \subseteq crl'
  BY <1>2 DEF IndexInv, HarmlessRequests
<1>3. ASSUME NEW x \in OpRecord, x.kind = "sweep", UNCHANGED <<index, crl>>,
             Become(Sched, Advance(x)) \/ Become(Sched, Failed(x))
      PROVE  IndexInv' /\ crl \subseteq crl'
  BY <1>1, <1>3, AdvanceKept, JobKeepsIndex
<1>4. ASSUME NEW x, Become(Sched, x), IndexKept(x, index), UNCHANGED <<index, crl>>
      PROVE  IndexInv' /\ crl \subseteq crl'
  BY <1>1, <1>4, JobKeepsIndex
<1>5. CASE Deactivate(Sched)
  <2> DEFINE n == IF tak = "none" THEN Idle ELSE [o EXCEPT !.pc = "list_disk"]
  <2>1. IndexKept(n, index)
    BY <1>1, <1>5, IdleKept DEF Deactivate, IndexKept, OpRecord
  <2>2. Become(Sched, n) \/ UNCHANGED op \/ Become(Sched, Idle)
    BY <1>5 DEF Deactivate, Mutate
  <2>3. UNCHANGED <<index, crl>>
    BY <1>5 DEF Deactivate
  <2> HIDE DEF n
  <2>4. QED
    BY <1>2, <1>4, <2>1, <2>2, <2>3, IdleKept
<1>6. CASE ListDisk(Sched)
  <2> DEFINE found == Glob[o.user] \cap issued
             x == [o EXCEPT !.todo = found, !.listed = found]
             y == [o EXCEPT !.ok = FALSE]
  <2>1. x \in OpRecord /\ x.kind = "sweep" /\ y \in OpRecord /\ y.kind = "sweep"
    BY <1>1, <1>6 DEF ListDisk, IndexKept, OpRecord, IndexInv, TypeInv, TypeOK
  <2>2. Become(Sched, Advance(x)) \/ Become(Sched, Advance(y))
    BY <1>6 DEF ListDisk
  <2>3. UNCHANGED <<index, crl>>
    BY <1>6 DEF ListDisk
  <2> HIDE DEF x, y
  <2>4. QED
    BY <1>3, <2>1, <2>2, <2>3
<1>7. CASE ListAdmin(Sched)
  <2> DEFINE found == {c \in (Enrolled \cap issued) \ flagged : Owner[c] = o.user}
             y == [o EXCEPT !.phase = "admin"]
             x == [y EXCEPT !.todo = found, !.listed = @ \cup found]
  <2>1. x \in OpRecord /\ x.kind = "sweep" /\ y \in OpRecord /\ y.kind = "sweep"
    BY <1>1, <1>7 DEF ListAdmin, IndexKept, OpRecord, IndexInv, TypeInv, TypeOK
  <2>2. Become(Sched, Advance(x)) \/ Become(Sched, Advance(y)) \/ Become(Sched, Idle)
    BY <1>7 DEF ListAdmin
  <2>3. UNCHANGED <<index, crl>>
    BY <1>7 DEF ListAdmin
  <2> HIDE DEF x, y
  <2>4. QED
    BY <1>3, <1>4, <2>1, <2>2, <2>3, IdleKept
<1>8. ASSUME NEW c \in Cert, RevokeLoad(Sched, c) PROVE IndexInv' /\ crl \subseteq crl'
  <2> DEFINE x == [o EXCEPT !.target = c]
             y == [x EXCEPT !.pc = "save", !.idx = index]
  <2>1. x \in OpRecord /\ x.kind = "sweep"
    BY <1>1, <1>8 DEF RevokeLoad, IndexKept, OpRecord
  <2>2. IndexKept(y, index)
    BY <1>1, <1>8 DEF RevokeLoad, IndexKept, OpRecord
  <2>3. Become(Sched, y) \/ Become(Sched, Failed(x))
    BY <1>8 DEF RevokeLoad
  <2>4. UNCHANGED <<index, crl>>
    BY <1>8 DEF RevokeLoad
  <2> HIDE DEF x, y
  <2>5. QED
    BY <1>3, <1>4, <2>1, <2>2, <2>3, <2>4
<1>9. CASE RevokeSave(Sched)
  <2> DEFINE x == [o EXCEPT !.pc = "gencrl", !.idx = {}]
  <2>1. index' = index \cup {o.target} /\ UNCHANGED crl /\ Become(Sched, x)
    BY <1>1, <1>9 DEF RevokeSave, IndexKept
  <2>2. IndexKept(x, index')
    BY <1>1, <1>9 DEF RevokeSave, IndexKept, OpRecord
  <2> HIDE DEF x
  <2>3. QED
    BY <1>1, <2>1, <2>2, JobKeepsIndex
<1>10. CASE RevokeGencrl(Sched)
  <2>1. /\ crl' \in {index, crl} /\ UNCHANGED index
        /\ Become(Sched, Done(o)) \/ Become(Sched, Failed(o))
    BY <1>10 DEF RevokeGencrl
  <2>2. IndexKept(Done(o), index') /\ IndexKept(Failed(o), index')
    BY <1>1, <1>10, AdvanceKept DEF RevokeGencrl, IndexKept
  <2>3. QED
    BY <1>1, <2>1, <2>2, JobKeepsIndex
<1>11. CASE MarkRead(Sched)
  <2> DEFINE x == [o EXCEPT !.pc = "mark_write", !.read = attrs[o.user]]
  <2>1. IndexKept(x, index)
    BY <1>1, <1>11 DEF MarkRead, IndexKept, OpRecord
  <2>2. Become(Sched, x) \/ Become(Sched, Idle)
    BY <1>11 DEF MarkRead
  <2>3. UNCHANGED <<index, crl>>
    BY <1>11 DEF MarkRead
  <2> HIDE DEF x
  <2>4. QED
    BY <1>4, <2>1, <2>2, <2>3, IdleKept
<1>12. CASE MarkWrite(Sched)
  <2>1. Become(Sched, Idle) \/ UNCHANGED op
    BY <1>12 DEF MarkWrite, Mutate
  <2>2. UNCHANGED <<index, crl>>
    BY <1>12 DEF MarkWrite
  <2>3. QED
    BY <1>2, <1>4, <2>1, <2>2, IdleKept
<1>13. o.pc \notin {"patch_write", "flag", "tokens", "sign", "mint"}
  BY <1>1 DEF IndexKept
<1>14. QED
  BY <1>5, <1>6, <1>7, <1>8, <1>9, <1>10, <1>11, <1>12, <1>13
     DEF Step, PatchWrite, FlagAdmin, DropTokens, GenerateSign, EnrollMint

\* No step of such a deployment shrinks the CRL.
LEMMA IndexStep ==
    ASSUME SingleRevoker
    PROVE  IndexInv /\ TypeInv' /\ [Next]_vars => IndexInv' /\ crl \subseteq crl'
<1> SUFFICES ASSUME IndexInv, TypeInv', [Next]_vars
             PROVE  IndexInv' /\ crl \subseteq crl'
  OBVIOUS
<1>0. ASSUME UNCHANGED <<op, index, crl>> PROVE IndexInv' /\ crl \subseteq crl'
  BY <1>0 DEF IndexInv, HarmlessRequests
<1>1. CASE Crash
  <2>1. op'[Sched] = Idle /\ \A r \in Request : op'[r] = Idle
    BY <1>1, SchedIsProc, RequestIsProc DEF Crash
  <2>2. IndexKept(op'[Sched], index')
    BY <2>1, IdleKept
  <2>3. HarmlessRequests'
    BY <2>1 DEF HarmlessRequests, Idle
  <2>4. QED
    BY <1>1, <2>2, <2>3 DEF Crash, IndexInv
<1>2. CASE \/ Tick \/ SchedPoll \/ UNCHANGED vars
           \/ \E c \in Cert : DeviceEnroll(c)
           \/ \E u \in User : TokenExpires(u)
  BY <1>0, <1>2 DEF Tick, SchedPoll, DeviceEnroll, TokenExpires, vars
<1>3. ASSUME NEW u \in User, NEW active \in BOOLEAN, SchedNext(u, active)
      PROVE  IndexInv' /\ crl \subseteq crl'
  <2>1. PICK n \in {Start("sweep", u, "deactivate"), Idle,
                    Start("sweep", u, "list_disk")} : Become(Sched, n)
    BY <1>3 DEF SchedNext
  <2>2. /\ IndexKept(Start("sweep", u, "deactivate"), index)
        /\ IndexKept(Start("sweep", u, "list_disk"), index)
    BY DEF IndexKept, Start, Idle
  <2>3. IndexKept(n, index)
    BY <2>1, <2>2, IdleKept
  <2>4. QED
    BY <1>3, <2>1, <2>3, JobKeepsIndex DEF SchedNext, IndexInv
<1>4. CASE Step(Sched)
  BY <1>4, JobIndex
<1>5. ASSUME NEW r \in Request, Step(r) PROVE IndexInv' /\ crl \subseteq crl'
  <2>1. op[r].pc \in {"idle", "patch_write", "sign", "mint"}
    BY DEF IndexInv, HarmlessRequests
  <2>2. PatchWrite(r) \/ GenerateSign(r) \/ EnrollMint(r)
    BY <1>5, <2>1
       DEF Step, Deactivate, ListDisk, ListAdmin, RevokeLoad, RevokeSave,
           RevokeGencrl, MarkRead, MarkWrite, FlagAdmin, DropTokens
  <2>3. UNCHANGED <<index, crl>> /\ (Become(r, Idle) \/ UNCHANGED op)
    BY <2>2 DEF PatchWrite, Mutate, GenerateSign, EnrollMint
  <2>4. Idle.pc = "idle"
    BY DEF Idle
  <2>5. QED
    BY <1>0, <2>3, <2>4, RequestKeepsIndex
<1>6. ASSUME NEW r \in Request, Arrive(r) PROVE IndexInv' /\ crl \subseteq crl'
  <2>1. ASSUME NEW u \in User, PatchRead(r, u) PROVE IndexInv' /\ crl \subseteq crl'
    <3>1. PICK b, a, e :
            Become(r, [Start("patch", u, "patch_write") EXCEPT
                        !.body = b, !.read = a, !.ttlEnd = e])
      BY <2>1 DEF PatchRead
    <3>2. [Start("patch", u, "patch_write") EXCEPT
             !.body = b, !.read = a, !.ttlEnd = e].pc = "patch_write"
      BY DEF Start, Idle
    <3>3. QED
      BY <2>1, <3>1, <3>2, RequestKeepsIndex DEF PatchRead
  <2>2. ASSUME NEW u \in User, EnrollCheck(r, u) PROVE IndexInv' /\ crl \subseteq crl'
    <3>1. Start("enroll", u, "mint").pc = "mint"
      BY DEF Start, Idle
    <3>2. QED
      BY <2>2, <3>1, RequestKeepsIndex DEF EnrollCheck
  <2>3. ASSUME NEW c \in Cert, GenerateCheck(r, c) PROVE IndexInv' /\ crl \subseteq crl'
    <3>1. [Start("generate", Owner[c], "sign") EXCEPT !.target = c].pc = "sign"
      BY DEF Start, Idle
    <3>2. QED
      BY <2>3, <3>1, RequestKeepsIndex DEF GenerateCheck
  <2>4. QED
    BY <1>6, <2>1, <2>2, <2>3 DEF Arrive, DeleteStart, RevokeStart, SingleRevoker
<1>7. QED
  BY <1>1, <1>2, <1>3, <1>4, <1>5, <1>6 DEF Next, Outside, SchedStep

LEMMA IndexInit == Init => IndexInv
<1> SUFFICES ASSUME Init PROVE IndexInv
  OBVIOUS
<1>1. TypeInv
  BY InitType
<1>2. op[Sched] = Idle /\ \A r \in Request : op[r] = Idle
  BY SchedIsProc, RequestIsProc DEF Init
<1>3. IndexKept(op[Sched], index)
  BY <1>2, IdleKept
<1>4. HarmlessRequests
  BY <1>2 DEF HarmlessRequests, Idle
<1>5. QED
  BY <1>1, <1>3, <1>4 DEF Init, IndexInv

\* "Revocation is immediate - TAK Server rejects revoked certs on next
\* connection attempt": with one revoker at a time no step, a crash or a failed
\* -gencrl included, takes a serial out of ca.crl again.
THEOREM RevokedStayRevoked ==
    ASSUME SingleRevoker
    PROVE  Spec => RevokedStaysRevoked
<1>1. IndexInv /\ [Next]_vars => IndexInv' /\ [crl \subseteq crl']_vars
  BY IndexStep, StepType DEF IndexInv
<1>2. QED
  BY <1>1, IndexInit, PTL DEF Spec, RevokedStaysRevoked

(***************************************************************************)
(* What was listed is revoked.  Again only the first condition is needed:  *)
(* a source that leaves a certificate out, or one that does not answer,    *)
(* makes the list shorter, but nothing on it is passed over.               *)
(***************************************************************************)
\* As long as no certificate failed, what o listed is in the CRL or to be done.
ListedKept(o, i, r) ==
    /\ o.pc = "list_admin" => o.todo = {}
    /\ o.pc = "gencrl" => o.target \in i
    /\ o.pc \in {"mark_read", "mark_write"} => o.ok /\ o.todo = {}
    /\ o.ok /\ o.pc \in {"list_admin", "revoke", "save", "gencrl", "mark_read",
                         "mark_write"} => o.listed \subseteq r \cup o.todo

ListedInv == IndexInv /\ ListedKept(op[Sched], index, crl)

LEMMA IdleListed == \A i, r : ListedKept(Idle, i, r)
BY DEF ListedKept, Idle

LEMMA AdvanceListed ==
    ASSUME NEW o \in OpRecord, o.kind = "sweep", NEW i, NEW r,
           o.ok => o.listed \subseteq r \cup o.todo
    PROVE  ListedKept(Advance(o), i, r)
<1>1. CASE o.todo # {}
  BY <1>1 DEF Advance, ListedKept, OpRecord
<1>2. CASE o.todo = {} /\ o.phase = "disk"
  BY <1>2 DEF Advance, ListedKept, OpRecord
<1>3. CASE o.todo = {} /\ o.phase # "disk" /\ o.ok
  BY <1>3 DEF Advance, ListedKept, OpRecord
<1>4. CASE o.todo = {} /\ o.phase # "disk" /\ ~o.ok
  BY <1>4, IdleListed DEF Advance
<1>5. QED
  BY <1>1, <1>2, <1>3, <1>4

LEMMA FailedListed ==
    ASSUME NEW o \in OpRecord, o.kind = "sweep", NEW i, NEW r
    PROVE  ListedKept(Failed(o), i, r)
<1> DEFINE x == [o EXCEPT !.todo = @ \ {o.target}, !.ok = FALSE]
<1>1. x \in OpRecord /\ x.kind = "sweep" /\ ~x.ok
  BY DEF OpRecord
<1> HIDE DEF x
<1>2. ListedKept(Advance(x), i, r)
  BY <1>1, AdvanceListed
<1>3. QED
  BY <1>2 DEF Failed, x

\* The job's own steps.
LEMMA JobListed ==
    ASSUME ListedInv, Step(Sched)
    PROVE  ListedKept(op'[Sched], index', crl')
<1> DEFINE o == op[Sched]
<1>1. /\ o \in OpRecord /\ op \in [Proc -> OpRecord] /\ crl \subseteq index
      /\ IndexKept(o, index) /\ ListedKept(o, index, crl) /\ issued \subseteq Cert
  BY SchedIsProc DEF ListedInv, IndexInv, TypeInv, TypeOK
<1>2. \A n : Become(Sched, n) => op'[Sched] = n
  BY <1>1, SchedOp
<1>3. CASE Deactivate(Sched)
  <2> DEFINE n == [o EXCEPT !.pc = "list_disk"]
  <2>1. UNCHANGED <<index, crl>>
    BY <1>3 DEF Deactivate
  <2>2. n.pc = "list_disk"
    BY <1>1 DEF OpRecord
  <2>3. Become(Sched, n) \/ Become(Sched, Idle) \/ UNCHANGED op
    BY <1>3 DEF Deactivate, Mutate
  <2> HIDE DEF n
  <2>4. ListedKept(n, index, crl)
    BY <2>2 DEF ListedKept
  <2>5. QED
    BY <1>1, <1>2, <2>1, <2>3, <2>4, IdleListed
<1>4. CASE ListDisk(Sched)
  <2> DEFINE found == Glob[o.user] \cap issued
             x == [o EXCEPT !.todo = found, !.listed = found]
             y == [o EXCEPT !.ok = FALSE]
  <2>1. o.kind = "sweep" /\ UNCHANGED <<index, crl>>
    BY <1>1, <1>4 DEF ListDisk, IndexKept
  <2>2. found \subseteq Cert
    BY <1>1
  <2>3. x \in OpRecord /\ x.kind = "sweep" /\ x.listed = x.todo
    BY <1>1, <2>1, <2>2 DEF OpRecord
  <2>4. y \in OpRecord /\ y.kind = "sweep" /\ ~y.ok
    BY <1>1, <2>1 DEF OpRecord
  <2>5. Become(Sched, Advance(x)) \/ Become(Sched, Advance(y))
    BY <1>4 DEF ListDisk
  <2> HIDE DEF x, y
  <2>6. ListedKept(Advance(x), index, crl) /\ ListedKept(Advance(y), index, crl)
    BY <2>3, <2>4, AdvanceListed
  <2>7. QED
    BY <1>2, <2>1, <2>5, <2>6
<1>5. CASE ListAdmin(Sched)
  <2> DEFINE found == {c \in (Enrolled \cap issued) \ flagged : Owner[c] = o.user}
             y == [o EXCEPT !.phase = "admin"]
             x == [y EXCEPT !.todo = found, !.listed = @ \cup found]
  <2>1. /\ o.kind = "sweep" /\ o.todo = {} /\ UNCHANGED <<index, crl>>
        /\ o.ok => o.listed \subseteq crl
    BY <1>1, <1>5 DEF ListAdmin, IndexKept, ListedKept
  <2>2. found \subseteq Cert
    BY <1>1
  <2>3. /\ y \in OpRecord /\ y.kind = "sweep" /\ y.listed = o.listed
        /\ y.ok = o.ok /\ y.todo = {}
    BY <1>1, <2>1 DEF OpRecord
  <2>4. Become(Sched, Advance(x)) \/ Become(Sched, Advance(y)) \/ Become(Sched, Idle)
    BY <1>5 DEF ListAdmin
  <2> HIDE DEF y, found
  <2>5. /\ x \in OpRecord /\ x.kind = "sweep" /\ x.ok = o.ok
        /\ x.listed = o.listed \cup found /\ x.todo = found
    BY <2>2, <2>3 DEF OpRecord
  <2> HIDE DEF x
  <2>6. ListedKept(Advance(x), index, crl) /\ ListedKept(Advance(y), index, crl)
    BY <2>1, <2>3, <2>5, AdvanceListed
  <2>7. QED
    BY <1>2, <2>1, <2>4, <2>6, IdleListed
<1>6. ASSUME NEW c \in Cert, RevokeLoad(Sched, c)
      PROVE  ListedKept(op'[Sched], index', crl')
  <2> DEFINE x == [o EXCEPT !.target = c]
             y == [x EXCEPT !.pc = "save", !.idx = index]
  <2>1. /\ o.pc = "revoke" /\ o.kind = "sweep" /\ UNCHANGED <<index, crl>>
        /\ o.ok => o.listed \subseteq crl \cup o.todo
    BY <1>1, <1>6 DEF RevokeLoad, IndexKept, ListedKept
  <2>2. x \in OpRecord /\ x.kind = "sweep"
    BY <1>1, <2>1 DEF OpRecord
  <2>3. y.pc = "save" /\ y.ok = o.ok /\ y.listed = o.listed /\ y.todo = o.todo
    BY <1>1 DEF OpRecord
  <2>4. Become(Sched, y) \/ Become(Sched, Failed(x))
    BY <1>6 DEF RevokeLoad
  <2> HIDE DEF x, y
  <2>5. ListedKept(y, index, crl)
    BY <2>1, <2>3 DEF ListedKept
  <2>6. QED
    BY <1>2, <2>1, <2>2, <2>4, <2>5, FailedListed
<1>7. CASE RevokeSave(Sched)
  <2> DEFINE x == [o EXCEPT !.pc = "gencrl", !.idx = {}]
  <2>1. /\ index' = o.idx \cup {o.target} /\ UNCHANGED crl
        /\ o.ok => o.listed \subseteq crl \cup o.todo
    BY <1>1, <1>7 DEF RevokeSave, ListedKept
  <2>2. /\ x.pc = "gencrl" /\ x.ok = o.ok /\ x.listed = o.listed
        /\ x.todo = o.todo /\ x.target = o.target
    BY <1>1 DEF OpRecord
  <2>3. Become(Sched, x)
    BY <1>7 DEF RevokeSave
  <2> HIDE DEF x
  <2>4. ListedKept(x, index', crl')
    BY <2>1, <2>2 DEF ListedKept
  <2>5. QED
    BY <1>2, <2>3, <2>4
<1>8. CASE RevokeGencrl(Sched)
  <2> DEFINE x == [o EXCEPT !.todo = @ \ {o.target}]
  <2>1. /\ o.kind = "sweep" /\ o.target \in index /\ UNCHANGED index
        /\ o.ok => o.listed \subseteq crl \cup o.todo
    BY <1>1, <1>8 DEF RevokeGencrl, IndexKept, ListedKept
  <2>2. CASE crl' = index /\ Become(Sched, Done(o))
    <3>1. /\ x \in OpRecord /\ x.kind = "sweep" /\ x.ok = o.ok
          /\ x.listed = o.listed /\ x.todo = o.todo \ {o.target}
      BY <1>1, <2>1 DEF OpRecord
    <3>2. Done(o) = Advance(x)
      BY DEF Done
    <3> HIDE DEF x
    <3>3. x.ok => x.listed \subseteq crl' \cup x.todo
      BY <1>1, <2>1, <2>2, <3>1
    <3>4. ListedKept(Advance(x), index', crl')
      BY <3>1, <3>3, AdvanceListed
    <3>5. QED
      BY <1>2, <2>2, <3>2, <3>4
  <2>3. CASE Become(Sched, Failed(o))
    BY <1>1, <1>2, <2>1, <2>3, FailedListed
  <2>4. QED
    BY <1>8, <2>2, <2>3 DEF RevokeGencrl
<1>9. CASE MarkRead(Sched)
  <2> DEFINE x == [o EXCEPT !.pc = "mark_write", !.read = attrs[o.user]]
  <2>1. o.pc = "mark_read" /\ UNCHANGED <<index, crl>>
    BY <1>9 DEF MarkRead
  <2>2. x.pc = "mark_write" /\ x.ok = o.ok /\ x.listed = o.listed /\ x.todo = o.todo
    BY <1>1 DEF OpRecord
  <2>3. Become(Sched, x) \/ Become(Sched, Idle)
    BY <1>9 DEF MarkRead
  <2> HIDE DEF x
  <2>4. ListedKept(x, index, crl)
    BY <1>1, <2>1, <2>2 DEF ListedKept
  <2>5. QED
    BY <1>2, <2>1, <2>3, <2>4, IdleListed
<1>10. CASE MarkWrite(Sched)
  <2>1. UNCHANGED <<index, crl>> /\ (Become(Sched, Idle) \/ UNCHANGED op)
    BY <1>10 DEF MarkWrite, Mutate
  <2>2. QED
    BY <1>1, <1>2, <2>1, IdleListed
<1>11. o.pc \notin {"patch_write", "flag", "tokens", "sign", "mint"}
  BY <1>1 DEF IndexKept
<1>12. QED
  BY <1>3, <1>4, <1>5, <1>6, <1>7, <1>8, <1>9, <1>10, <1>11
     DEF Step, PatchWrite, FlagAdmin, DropTokens, GenerateSign, EnrollMint

LEMMA ListedStep ==
    ASSUME SingleRevoker
    PROVE  ListedInv /\ TypeInv' /\ [Next]_vars => ListedInv'
<1> SUFFICES ASSUME ListedInv, TypeInv', [Next]_vars PROVE ListedInv'
  OBVIOUS
<1>1. op \in [Proc -> OpRecord] /\ ListedKept(op[Sched], index, crl)
  BY DEF ListedInv, IndexInv, TypeInv, TypeOK
<1>2. IndexInv'
  BY IndexStep DEF ListedInv
<1>3. ASSUME op'[Sched] = op[Sched], UNCHANGED <<index, crl>> PROVE ListedInv'
  BY <1>1, <1>2, <1>3 DEF ListedInv
<1>4. CASE Crash
  <2>1. op'[Sched] = Idle
    BY <1>4, SchedIsProc DEF Crash
  <2>2. QED
    BY <1>2, <2>1, IdleListed DEF ListedInv
<1>5. CASE \/ Tick \/ SchedPoll \/ UNCHANGED vars
           \/ \E c \in Cert : DeviceEnroll(c)
           \/ \E u \in User : TokenExpires(u)
  BY <1>3, <1>5 DEF Tick, SchedPoll, DeviceEnroll, TokenExpires, vars
<1>6. ASSUME NEW u \in User, NEW active \in BOOLEAN, SchedNext(u, active)
      PROVE  ListedInv'
  <2>1. PICK n \in {Start("sweep", u, "deactivate"), Idle,
                    Start("sweep", u, "list_disk")} : Become(Sched, n)
    BY <1>6 DEF SchedNext
  <2>2. /\ ListedKept(Start("sweep", u, "deactivate"), index', crl')
        /\ ListedKept(Start("sweep", u, "list_disk"), index', crl')
    BY DEF ListedKept, Start, Idle
  <2>3. op'[Sched] = n
    BY <1>1, <2>1, SchedOp
  <2>4. QED
    BY <1>2, <2>1, <2>2, <2>3, IdleListed DEF ListedInv
<1>7. CASE Step(Sched)
  BY <1>2, <1>7, JobListed DEF ListedInv
<1>8. ASSUME NEW r \in Request, Step(r) PROVE ListedInv'
  <2>1. op[r].pc \in {"idle", "patch_write", "sign", "mint"}
    BY DEF ListedInv, IndexInv, HarmlessRequests
  <2>2. PatchWrite(r) \/ GenerateSign(r) \/ EnrollMint(r)
    BY <1>8, <2>1
       DEF Step, Deactivate, ListDisk, ListAdmin, RevokeLoad, RevokeSave,
           RevokeGencrl, MarkRead, MarkWrite, FlagAdmin, DropTokens
  <2>3. UNCHANGED <<index, crl>> /\ (Become(r, Idle) \/ UNCHANGED op)
    BY <2>2 DEF PatchWrite, Mutate, GenerateSign, EnrollMint
  <2>4. QED
    BY <1>1, <1>3, <2>3, OtherOp
<1>9. ASSUME NEW r \in Request, Arrive(r) PROVE ListedInv'
  <2>1. UNCHANGED <<index, crl>> /\ \E n : Become(r, n)
    BY <1>9 DEF Arrive, PatchRead, DeleteStart, EnrollCheck, RevokeStart,
                GenerateCheck
  <2>2. QED
    BY <1>1, <1>3, <2>1, OtherOp
<1>10. QED
  BY <1>4, <1>5, <1>6, <1>7, <1>8, <1>9 DEF Next, Outside, SchedStep

\* What revoke_all_user_certs covers without knowing that its sources are
\* complete: with one revoker at a time the job marks no user while a
\* certificate it has listed is outside the CRL.
THEOREM ListedIsRevoked ==
    ASSUME SingleRevoker
    PROVE  Spec => []ListedRevoked
<1>1. Init => ListedInv
  BY IndexInit, SchedIsProc, IdleListed DEF Init, ListedInv
<1>2. ListedInv /\ [Next]_vars => ListedInv'
  BY ListedStep, StepType DEF ListedInv, IndexInv
<1>3. ListedInv => ListedRevoked
  BY DEF ListedInv, IndexInv, ListedRevoked, ListedKept, HarmlessRequests, Proc
<1>4. QED
  BY <1>1, <1>2, <1>3, PTL DEF Spec

(***************************************************************************)
(* Nobody else's sweep.  condemned only grows, so what an operation holds  *)
(* stays condemned whatever other operations do in between.  The pattern   *)
(* find gets may match too little, but nothing of anybody else: a user     *)
(* name that begins with another one and a dash would break that.          *)
(***************************************************************************)
PatternsOwn == \A u \in User : Glob[u] \subseteq CertsOf(u)

\* An operation works on certificates of cs only: the ones it has listed, the
\* index it has loaded and, for a whole user, all of the user's.
Sentenced(o, cs) ==
    /\ o.todo \subseteq cs
    /\ o.idx \subseteq cs
    /\ o.pc \in {"save", "gencrl"} => o.target \in cs
    /\ o.kind \in {"delete", "sweep"} => CertsOf(o.user) \subseteq cs
    /\ o.pc \in {"deactivate", "list_disk", "list_admin", "mark_read",
                 "mark_write"} => o.kind \in {"delete", "sweep"}
    /\ o.pc \in {"revoke", "save", "gencrl"} =>
           o.kind \in {"delete", "sweep", "revoke"}

CondemnInv ==
    /\ TypeInv
    /\ index \cup crl \subseteq condemned
    /\ \A p \in Proc : Sentenced(op[p], condemned)
    /\ \A q \in queue : CertsOf(q[1]) \subseteq condemned

LEMMA IdleSentenced == \A cs : Sentenced(Idle, cs)
BY DEF Sentenced, Idle

\* Condemning more certificates acquits none.
LEMMA SentenceStays ==
    ASSUME NEW o, NEW cs, NEW ds, Sentenced(o, cs), cs \subseteq ds
    PROVE  Sentenced(o, ds)
BY DEF Sentenced

\* A fresh operation on a whole user whose certificates are condemned.
LEMMA StartSentenced ==
    ASSUME NEW kind \in {"delete", "sweep"}, NEW u, NEW cs,
           NEW pc \in {"deactivate", "list_disk"}, CertsOf(u) \subseteq cs
    PROVE  Sentenced(Start(kind, u, pc), cs)
<1>1. /\ Start(kind, u, pc).kind = kind
      /\ Start(kind, u, pc).user = u
      /\ Start(kind, u, pc).pc = pc
      /\ Start(kind, u, pc).todo = {}
      /\ Start(kind, u, pc).idx = {}
  BY DEF Start, Idle
<1>2. QED
  BY <1>1 DEF Sentenced

\* The next certificate, the next source and the end of a revocation.
LEMMA AdvanceSentenced ==
    ASSUME NEW o \in OpRecord, NEW cs, Sentenced(o, cs),
           o.kind \in {"delete", "sweep", "revoke"}
    PROVE  /\ Sentenced(Advance(o), cs)
           /\ Sentenced(Done(o), cs)
           /\ Sentenced(Failed(o), cs)
<1> DEFINE Listed(x) == /\ x \in OpRecord
                        /\ x.todo \subseteq cs
                        /\ x.idx \subseteq cs
                        /\ x.kind \in {"delete", "sweep", "revoke"}
                        /\ x.kind # "revoke" => CertsOf(x.user) \subseteq cs
<1>1. ASSUME NEW x, Listed(x) PROVE Sentenced(Advance(x), cs)
  <2>1. \A pc \in {"revoke", "flag", "tokens"} : Sentenced([x EXCEPT !.pc = pc], cs)
    BY <1>1 DEF Sentenced, OpRecord
  <2>2. x.kind # "revoke" =>
            \A pc \in {"list_admin", "mark_read"} : Sentenced([x EXCEPT !.pc = pc], cs)
    BY <1>1 DEF Sentenced, OpRecord
  <2>3. QED
    BY <2>1, <2>2, IdleSentenced DEF Advance
<1> DEFINE d == [o EXCEPT !.todo = @ \ {o.target}]
           f == [o EXCEPT !.todo = @ \ {o.target}, !.ok = FALSE]
<1>2. Listed(o) /\ Listed(d) /\ Listed(f)
  BY DEF OpRecord, Sentenced
<1> HIDE DEF Listed, d, f
<1>3. /\ Sentenced(Advance(o), cs)
      /\ Sentenced(Advance(d), cs)
      /\ Sentenced(Advance(f), cs)
  BY <1>1, <1>2
<1>4. QED
  BY <1>3 DEF Done, Failed, d, f

\* A step that puts such an operation in place and condemns what it revokes.
LEMMA BecomeSentenced ==
    ASSUME CondemnInv, TypeInv', NEW p \in Proc, NEW o, Become(p, o),
           Sentenced(o, condemned'), condemned \subseteq condemned',
           index' \cup crl' \subseteq condemned', queue' \subseteq queue
    PROVE  CondemnInv'
<1>1. op \in [Proc -> OpRecord]
  BY DEF CondemnInv, TypeInv, TypeOK
<1>2. ASSUME NEW q \in Proc PROVE Sentenced(op'[q], condemned')
  <2>1. CASE q = p
    BY <1>1, <2>1 DEF Become
  <2>2. CASE q # p
    BY <1>1, <2>2, SentenceStays DEF Become, CondemnInv
  <2>3. QED
    BY <2>1, <2>2
<1>3. QED
  BY <1>2 DEF CondemnInv

\* So is a step that changes neither an operation nor the files.
LEMMA UntouchedSentenced ==
    ASSUME CondemnInv, TypeInv', UNCHANGED <<op, index, crl, condemned, queue>>
    PROVE  CondemnInv'
BY DEF CondemnInv

\* Every step of an operation in progress keeps to what was condemned.
LEMMA StepCondemn ==
    ASSUME PatternsOwn, CondemnInv, TypeInv', NEW p \in Proc, Step(p)
    PROVE  CondemnInv'
<1> DEFINE o == op[p]
<1>1. o \in GoodOp /\ o \in OpRecord /\ Sentenced(o, condemned)
  BY DEF CondemnInv, TypeInv, TypeOK
<1>2. ASSUME NEW x, Become(p, x), Sentenced(x, condemned),
             UNCHANGED <<index, crl, condemned, queue>>
      PROVE  CondemnInv'
  BY <1>2, BecomeSentenced DEF CondemnInv
<1>3. CASE \/ PatchWrite(p) \/ MarkWrite(p)
           \/ DropTokens(p) \/ GenerateSign(p) \/ EnrollMint(p)
  <2>1. Become(p, Idle) \/ UNCHANGED op
    BY <1>3 DEF PatchWrite, MarkWrite, Mutate, DropTokens, GenerateSign, EnrollMint
  <2>2. UNCHANGED <<index, crl, condemned, queue>>
    BY <1>3 DEF PatchWrite, MarkWrite, DropTokens, GenerateSign, EnrollMint
  <2>3. QED
    BY <1>2, <2>1, <2>2, IdleSentenced, UntouchedSentenced
<1>4. CASE Deactivate(p)
  <2> DEFINE x == [o EXCEPT !.pc = "list_disk"]
  <2>1. Sentenced(x, condemned)
    BY <1>1, <1>4 DEF Sentenced, OpRecord, Deactivate
  <2>2. Become(p, x) \/ Become(p, Idle) \/ UNCHANGED op
    BY <1>4 DEF Deactivate, Mutate
  <2>3. UNCHANGED <<index, crl, condemned, queue>>
    BY <1>4 DEF Deactivate
  <2> HIDE DEF x
  <2>4. QED
    BY <1>2, <2>1, <2>2, <2>3, IdleSentenced, UntouchedSentenced
<1>5. CASE ListDisk(p)
  <2> DEFINE found == Glob[o.user] \cap issued
             x == [o EXCEPT !.todo = found, !.listed = found]
             y == [o EXCEPT !.ok = FALSE]
  <2>1. o.pc = "list_disk" /\ o.user \in User /\ o.kind \in {"delete", "sweep"}
    BY <1>1, <1>5 DEF ListDisk, GoodOp, Sentenced
  <2>2. found \subseteq condemned /\ found \in SUBSET Cert
    BY <1>1, <2>1 DEF Sentenced, PatternsOwn, CertsOf
  <2> HIDE DEF found
  <2>3. x \in OpRecord /\ Sentenced(x, condemned) /\ x.kind = o.kind
    BY <1>1, <2>1, <2>2 DEF Sentenced, OpRecord
  <2>4. y \in OpRecord /\ Sentenced(y, condemned) /\ y.kind = o.kind
    BY <1>1, <2>1 DEF Sentenced, OpRecord
  <2>5. Become(p, Advance(x)) \/ Become(p, Advance(y))
    BY <1>5 DEF ListDisk, found
  <2>6. UNCHANGED <<index, crl, condemned, queue>>
    BY <1>5 DEF ListDisk
  <2> HIDE DEF x, y
  <2>7. Sentenced(Advance(x), condemned) /\ Sentenced(Advance(y), condemned)
    BY <2>1, <2>3, <2>4, AdvanceSentenced
  <2>8. QED
    BY <1>2, <2>5, <2>6, <2>7
<1>6. CASE ListAdmin(p)
  <2> DEFINE found == {c \in (Enrolled \cap issued) \ flagged : Owner[c] = o.user}
             y == [o EXCEPT !.phase = "admin"]
             x == [y EXCEPT !.todo = found, !.listed = @ \cup found]
  <2>1. o.pc = "list_admin" /\ o.kind \in {"delete", "sweep"}
    BY <1>1, <1>6 DEF ListAdmin, Sentenced
  <2>2. found \subseteq condemned /\ found \in SUBSET Cert
    BY <1>1, <2>1 DEF Sentenced, CertsOf, CondemnInv, TypeInv, TypeOK
  <2> HIDE DEF found
  <2>3. y \in OpRecord /\ Sentenced(y, condemned) /\ y.kind = o.kind /\ y.user = o.user
    BY <1>1, <2>1 DEF Sentenced, OpRecord
  <2>4. x \in OpRecord /\ Sentenced(x, condemned) /\ x.kind = o.kind
    BY <1>1, <2>1, <2>2 DEF Sentenced, OpRecord
  <2>5. Become(p, Advance(x)) \/ Become(p, Advance(y)) \/ Become(p, Idle)
    BY <1>6 DEF ListAdmin, found
  <2>6. UNCHANGED <<index, crl, condemned, queue>>
    BY <1>6 DEF ListAdmin
  <2> HIDE DEF x, y
  <2>7. Sentenced(Advance(x), condemned) /\ Sentenced(Advance(y), condemned)
    BY <2>1, <2>3, <2>4, AdvanceSentenced
  <2>8. QED
    BY <1>2, <2>5, <2>6, <2>7, IdleSentenced
<1>7. ASSUME NEW c \in Cert, RevokeLoad(p, c) PROVE CondemnInv'
  <2> DEFINE y == [o EXCEPT !.target = c]
             x == [y EXCEPT !.pc = "save", !.idx = index]
  <2>1. o.pc = "revoke" /\ c \in o.todo
    BY <1>7 DEF RevokeLoad
  <2>2. index \subseteq condemned /\ index \in SUBSET Cert
    BY DEF CondemnInv, TypeInv, TypeOK
  <2>3. y \in OpRecord /\ Sentenced(y, condemned) /\ y.kind = o.kind
    BY <1>1, <2>1 DEF Sentenced, OpRecord
  <2>4. Sentenced(x, condemned)
    BY <1>1, <2>1, <2>2 DEF Sentenced, OpRecord
  <2>5. Become(p, x) \/ Become(p, Failed(y))
    BY <1>7 DEF RevokeLoad
  <2>6. UNCHANGED <<index, crl, condemned, queue>>
    BY <1>7 DEF RevokeLoad
  <2>7. o.kind \in {"delete", "sweep", "revoke"}
    BY <1>1, <2>1 DEF Sentenced
  <2> HIDE DEF x, y
  <2>8. Sentenced(Failed(y), condemned)
    BY <2>3, <2>7, AdvanceSentenced
  <2>9. QED
    BY <1>2, <2>4, <2>5, <2>6, <2>8
<1>8. CASE RevokeSave(p)
  <2> DEFINE x == [o EXCEPT !.pc = "gencrl", !.idx = {}]
  <2>1. Sentenced(x, condemned)
    BY <1>1, <1>8 DEF Sentenced, OpRecord, RevokeSave
  <2>2. /\ Become(p, x) /\ UNCHANGED <<crl, condemned, queue>>
        /\ index' = o.idx \cup {o.target}
    BY <1>8 DEF RevokeSave
  <2>3. index' \cup crl' \subseteq condemned'
    BY <1>1, <1>8, <2>2 DEF RevokeSave, Sentenced, CondemnInv
  <2> HIDE DEF x
  <2>4. QED
    BY <2>1, <2>2, <2>3, BecomeSentenced
<1>9. CASE RevokeGencrl(p)
  <2>1. o.kind \in {"delete", "sweep", "revoke"}
    BY <1>1, <1>9 DEF Sentenced, RevokeGencrl
  <2>2. Sentenced(Done(o), condemned) /\ Sentenced(Failed(o), condemned)
    BY <1>1, <2>1, AdvanceSentenced
  <2>3. /\ Become(p, Done(o)) \/ Become(p, Failed(o))
        /\ crl' \in {index, crl} /\ UNCHANGED <<index, condemned, queue>>
    BY <1>9 DEF RevokeGencrl
  <2>4. QED
    BY <2>2, <2>3, BecomeSentenced DEF CondemnInv
<1>10. CASE MarkRead(p)
  <2> DEFINE x == [o EXCEPT !.pc = "mark_write", !.read = attrs[o.user]]
  <2>1. Sentenced(x, condemned)
    BY <1>1, <1>10 DEF Sentenced, OpRecord, MarkRead
  <2>2. Become(p, x) \/ Become(p, Idle)
    BY <1>10 DEF MarkRead
  <2>3. UNCHANGED <<index, crl, condemned, queue>>
    BY <1>10 DEF MarkRead
  <2> HIDE DEF x
  <2>4. QED
    BY <1>2, <2>1, <2>2, <2>3, IdleSentenced
<1>11. CASE FlagAdmin(p)
  <2> DEFINE x == [o EXCEPT !.pc = "tokens"]
  <2>1. Sentenced(x, condemned)
    BY <1>1, <1>11 DEF Sentenced, OpRecord, FlagAdmin
  <2>2. Become(p, x) /\ UNCHANGED <<index, crl, condemned, queue>>
    BY <1>11 DEF FlagAdmin
  <2> HIDE DEF x
  <2>3. QED
    BY <1>2, <2>1, <2>2
<1>12. QED
  BY <1>3, <1>4, <1>5, <1>6, <1>7, <1>8, <1>9, <1>10, <1>11 DEF Step

\* So does every new request: it works on what it has condemned, or on no
\* certificate that exists.
LEMMA ArriveCondemn ==
    ASSUME CondemnInv, TypeInv', NEW r \in Request, Arrive(r)
    PROVE  CondemnInv'
<1>0. r \in Proc /\ index \cup crl \subseteq condemned
  BY RequestIsProc DEF CondemnInv
<1>1. ASSUME NEW u \in User, PatchRead(r, u) PROVE CondemnInv'
  <2>1. PICK b, a, e :
          Become(r, [Start("patch", u, "patch_write") EXCEPT
                      !.body = b, !.read = a, !.ttlEnd = e])
    BY <1>1 DEF PatchRead
  <2> DEFINE x == [Start("patch", u, "patch_write") EXCEPT
                     !.body = b, !.read = a, !.ttlEnd = e]
  <2>2. x.todo = {} /\ x.idx = {} /\ x.kind = "patch" /\ x.pc = "patch_write"
    BY DEF Start, Idle
  <2>3. Become(r, x)
    BY <2>1
  <2> HIDE DEF x
  <2>4. Sentenced(x, condemned)
    BY <2>2 DEF Sentenced
  <2>5. QED
    BY <1>0, <1>1, <2>3, <2>4, BecomeSentenced DEF PatchRead
<1>2. ASSUME NEW u \in User, DeleteStart(r, u) PROVE CondemnInv'
  <2>1. Sentenced(Start("delete", u, "deactivate"), condemned')
    BY <1>2, StartSentenced DEF DeleteStart
  <2>2. QED
    BY <1>0, <1>2, <2>1, BecomeSentenced DEF DeleteStart
<1>3. ASSUME NEW u \in User, EnrollCheck(r, u) PROVE CondemnInv'
  <2> DEFINE x == Start("enroll", u, "mint")
  <2>1. x.todo = {} /\ x.idx = {} /\ x.kind = "enroll" /\ x.pc = "mint"
    BY DEF Start, Idle
  <2>2. Become(r, x)
    BY <1>3 DEF EnrollCheck
  <2> HIDE DEF x
  <2>3. Sentenced(x, condemned)
    BY <2>1 DEF Sentenced
  <2>4. QED
    BY <1>0, <1>3, <2>2, <2>3, BecomeSentenced DEF EnrollCheck
<1>4. ASSUME NEW c \in Cert, RevokeStart(r, c) PROVE CondemnInv'
  <2> DEFINE x == [Start("revoke", Owner[c], "revoke") EXCEPT !.todo = {c}]
  <2>1. x.todo = {c} /\ x.idx = {} /\ x.kind = "revoke" /\ x.pc = "revoke"
    BY DEF Start, Idle
  <2>2. Become(r, x) /\ condemned' = condemned \cup {c}
    BY <1>4 DEF RevokeStart
  <2> HIDE DEF x
  <2>3. Sentenced(x, condemned')
    BY <2>1, <2>2 DEF Sentenced
  <2>4. QED
    BY <1>0, <1>4, <2>2, <2>3, BecomeSentenced DEF RevokeStart
<1>5. ASSUME NEW c \in Cert, GenerateCheck(r, c) PROVE CondemnInv'
  <2> DEFINE x == [Start("generate", Owner[c], "sign") EXCEPT !.target = c]
  <2>1. x.todo = {} /\ x.idx = {} /\ x.kind = "generate" /\ x.pc = "sign"
    BY DEF Start, Idle
  <2>2. Become(r, x)
    BY <1>5 DEF GenerateCheck
  <2> HIDE DEF x
  <2>3. Sentenced(x, condemned)
    BY <2>1 DEF Sentenced
  <2>4. QED
    BY <1>0, <1>5, <2>2, <2>3, BecomeSentenced DEF GenerateCheck
<1>6. QED
  BY <1>1, <1>2, <1>3, <1>4, <1>5 DEF Arrive

\* Every step keeps the invariant.
LEMMA CondemnStep ==
    ASSUME PatternsOwn
    PROVE  CondemnInv /\ TypeInv' /\ [Next]_vars => CondemnInv'
<1> SUFFICES ASSUME CondemnInv, TypeInv', [Next]_vars PROVE CondemnInv'
  OBVIOUS
<1>1. CASE Crash
  <2>1. \A p \in Proc : op'[p] = Idle
    BY <1>1 DEF Crash
  <2>2. \A p \in Proc : Sentenced(op'[p], condemned')
    BY <2>1, IdleSentenced
  <2>3. QED
    BY <1>1, <2>2 DEF Crash, CondemnInv
<1>2. CASE \/ Tick \/ UNCHANGED vars
           \/ \E c \in Cert : DeviceEnroll(c)
           \/ \E u \in User : TokenExpires(u)
  BY <1>2, UntouchedSentenced DEF Tick, DeviceEnroll, TokenExpires, vars
<1>3. CASE SchedPoll
  <2>1. condemned \subseteq condemned' /\ UNCHANGED <<op, index, crl>>
    BY <1>3 DEF SchedPoll
  <2>2. \A p \in Proc : Sentenced(op'[p], condemned')
    BY <2>1, SentenceStays DEF CondemnInv
  <2>3. ASSUME NEW q \in queue' PROVE CertsOf(q[1]) \subseteq condemned'
    <3>1. PICK u \in User : Pending(u) /\ q = <<u, attrs[u].is_active # "false">>
      BY <1>3 DEF SchedPoll
    <3>2. Expired(u) /\ q[1] = u
      BY <3>1 DEF Pending
    <3>3. QED
      BY <1>3, <3>2 DEF SchedPoll, CertsOf
  <2>4. QED
    BY <2>1, <2>2, <2>3 DEF CondemnInv
<1>4. ASSUME NEW u \in User, NEW active \in BOOLEAN, SchedNext(u, active)
      PROVE  CondemnInv'
  <2>1. PICK n \in {Start("sweep", u, "deactivate"), Idle,
                    Start("sweep", u, "list_disk")} : Become(Sched, n)
    BY <1>4 DEF SchedNext
  <2>2. CertsOf(u) \subseteq condemned
    BY <1>4 DEF SchedNext, CondemnInv
  <2>3. Sentenced(n, condemned)
    BY <2>1, <2>2, StartSentenced, IdleSentenced
  <2>4. QED
    BY <1>4, <2>1, <2>3, BecomeSentenced, SchedIsProc DEF SchedNext, CondemnInv
<1>5. CASE Step(Sched)
  BY <1>5, StepCondemn, SchedIsProc
<1>6. ASSUME NEW r \in Request, Arrive(r) \/ Step(r) PROVE CondemnInv'
  BY <1>6, StepCondemn, ArriveCondemn, RequestIsProc
<1>7. QED
  BY <1>1, <1>2, <1>3, <1>4, <1>5, <1>6 DEF Next, Outside, SchedStep

\* A certificate is revoked only when its own user was deleted or had expired,
\* or when a request named it, for any interleaving of the job with any number
\* of deletions and revocations, crashes included, as long as the file pattern
\* of a user matches no other user's files.
THEOREM NobodyElsesCertificate ==
    ASSUME PatternsOwn
    PROVE  Spec => []OnlyCondemned
<1>1. Init => CondemnInv
  <2> SUFFICES ASSUME Init PROVE CondemnInv
    OBVIOUS
  <2>1. TypeInv
    BY InitType
  <2>2. \A p \in Proc : op[p] = Idle
    BY DEF Init
  <2>3. \A p \in Proc : Sentenced(op[p], condemned)
    BY <2>2, IdleSentenced
  <2>4. QED
    BY <2>1, <2>3 DEF Init, CondemnInv
<1>2. CondemnInv /\ [Next]_vars => CondemnInv'
  BY CondemnStep, StepType DEF CondemnInv
<1>3. CondemnInv => OnlyCondemned
  BY DEF CondemnInv, OnlyCondemned
<1>4. QED
  BY <1>1, <1>2, <1>3, PTL DEF Spec

(***************************************************************************)
(* Whoever is done with is inactive.  A PATCH sends back what it has read, *)
(* so an is_active "true" of an old reading may reach LLDAP after          *)
(* anything; a user to whom that happens between the deactivation and the  *)
(* end of the sweep is in revived.  A delete or a sweep past the           *)
(* deactivation therefore works on an inactive user or on a revived one,   *)
(* and reads no "true" to send back with the flag unless the user is       *)
(* revived.  A PATCH itself never leaves the flag beside an active user:   *)
(* it clears the flag unless it sets is_active to false.                   *)
(***************************************************************************)
\* A user the directory starts with is not marked and active at once.
InitiallySettled ==
    \A a \in InitAttrs : a.certs_revoked = "true" => a.is_active = "false"

Out(u, at, rv) == u \in rv \/ at[u].is_active = "false"

\* The operation has the deactivation of its user behind it.
Past(o) == o.kind \in {"delete", "sweep"} /\ o.pc # "deactivate"

Settled(o, at, rv) ==
    /\ Past(o) => o.user \in User /\ Out(o.user, at, rv)
    /\ o.pc \in {"list_disk", "list_admin", "mark_read", "mark_write"} => Past(o)
    /\ o.pc \in {"revoke", "save", "gencrl"} => o.kind = "revoke" \/ Past(o)
    /\ o.pc = "deactivate" => o.kind \in {"delete", "sweep"}
    /\ o.pc = "patch_write" => o.kind = "patch" /\ o.body # NoBody
    /\ o.pc = "mark_write" => o.user \in rv \/ o.read.is_active # "true"

GoodAttrs(at, rv) ==
    \A u \in User : at[u].certs_revoked = "true" => Out(u, at, rv)

InactiveInv ==
    /\ TypeInv
    /\ GoodAttrs(attrs, revived)
    /\ \A q \in queue : q[2] \/ Out(q[1], attrs, revived)
    /\ \A p \in Proc : Settled(op[p], attrs, revived)

LEMMA IdleSettled == \A at, rv : Settled(Idle, at, rv)
BY DEF Settled, Past, Idle

\* The next certificate, the next source and the end of a revocation.
LEMMA AdvanceSettled ==
    ASSUME NEW o \in OpRecord, NEW at, NEW rv, Settled(o, at, rv),
           o.kind = "revoke" \/ Past(o)
    PROVE  Settled(Advance(o), at, rv) /\ Settled(Done(o), at, rv) /\ Settled(Failed(o), at, rv)
<1> DEFINE Held(x) == /\ x \in OpRecord
                      /\ \/ x.kind = "revoke"
                         \/ /\ x.kind \in {"delete", "sweep"}
                            /\ x.user \in User /\ Out(x.user, at, rv)
<1>1. ASSUME NEW x, Held(x) PROVE Settled(Advance(x), at, rv)
  <2>1. Settled([x EXCEPT !.pc = "revoke"], at, rv)
    BY <1>1 DEF Settled, Past, OpRecord
  <2>2. x.kind = "revoke" => \A pc \in {"flag", "tokens"} : Settled([x EXCEPT !.pc = pc], at, rv)
    BY <1>1 DEF Settled, Past, OpRecord
  <2>3. x.kind # "revoke" =>
            \A pc \in {"list_admin", "mark_read"} : Settled([x EXCEPT !.pc = pc], at, rv)
    BY <1>1 DEF Settled, Past, OpRecord
  <2>4. QED
    BY <2>1, <2>2, <2>3, IdleSettled DEF Advance
<1> DEFINE d == [o EXCEPT !.todo = @ \ {o.target}]
           f == [o EXCEPT !.todo = @ \ {o.target}, !.ok = FALSE]
<1>2. Held(o) /\ Held(d) /\ Held(f)
  <2>1. Held(o)
    BY DEF Settled, Past
  <2>2. d \in OpRecord /\ d.kind = o.kind /\ d.user = o.user
    BY DEF OpRecord
  <2>3. f \in OpRecord /\ f.kind = o.kind /\ f.user = o.user
    BY DEF OpRecord
  <2> HIDE DEF d, f
  <2>4. QED
    BY <2>1, <2>2, <2>3
<1> HIDE DEF Held, d, f
<1>3. /\ Settled(Advance(o), at, rv)
      /\ Settled(Advance(d), at, rv)
      /\ Settled(Advance(f), at, rv)
  BY <1>1, <1>2
<1>4. QED
  BY <1>3 DEF Done, Failed, d, f

\* A step that puts a settled operation in place, and reactivates nobody who is
\* being deleted or swept without saying so.
LEMMA BecomeSettled ==
    ASSUME InactiveInv, TypeInv', NEW p \in Proc,
           UNCHANGED op \/ \E o : Become(p, o) /\ Settled(o, attrs', revived'),
           \A u \in User : Leaving(u) /\ Out(u, attrs, revived) => Out(u, attrs', revived'),
           revived \subseteq revived',
           GoodAttrs(attrs', revived'), queue' \subseteq queue
    PROVE  InactiveInv'
<1>1. op \in [Proc -> GoodOp] /\ queue \subseteq User \X BOOLEAN
  BY DEF InactiveInv, TypeInv, TypeOK
<1>2. ASSUME NEW q \in Proc PROVE Settled(op'[q], attrs', revived')
  <2>1. Settled(op[q], attrs, revived) /\ op[q] \in GoodOp
    BY <1>1 DEF InactiveInv
  <2>2. Past(op[q]) => Leaving(op[q].user) /\ op[q].user \in User
    BY <2>1 DEF Past, Leaving, GoodOp, Settled
  <2>3. Settled(op[q], attrs', revived')
    BY <2>1, <2>2 DEF Settled
  <2>4. op'[q] = op[q] \/ Settled(op'[q], attrs', revived')
    BY <1>1 DEF Become
  <2>5. QED
    BY <2>3, <2>4
<1>3. ASSUME NEW q \in queue' PROVE q[2] \/ Out(q[1], attrs', revived')
  <2>1. q \in queue /\ q[1] \in User /\ q = <<q[1], q[2]>> /\ q[2] \in BOOLEAN
    BY <1>1
  <2>2. q[2] \/ (Leaving(q[1]) /\ Out(q[1], attrs, revived))
    BY <2>1 DEF Leaving, InactiveInv
  <2>3. QED
    BY <2>1, <2>2
<1>4. QED
  BY <1>2, <1>3 DEF InactiveInv

\* A mutation after which its own user is as the invariant has it.
LEMMA MutateSettled ==
    ASSUME InactiveInv, TypeInv', NEW p \in Proc, NEW sent \in SentAttrs, NEW o,
           op[p].user \in User, Mutate(p, sent, o),
           revived \subseteq revived', UNCHANGED queue,
           Leaving(op[p].user) /\ Out(op[p].user, attrs, revived)
               => Out(op[p].user, attrs', revived'),
           attrs'[op[p].user].certs_revoked = "true" => Out(op[p].user, attrs', revived'),
           Settled(o, [attrs EXCEPT ![op[p].user] = ApplyAttrs(@, sent)], revived')
    PROVE  InactiveInv'
<1> DEFINE u == op[p].user
           at == [attrs EXCEPT ![u] = ApplyAttrs(@, sent)]
<1>1. attrs \in [User -> Attrs]
  BY DEF InactiveInv, TypeInv, TypeOK
<1>2. attrs' = at \/ attrs' = attrs
  BY DEF Mutate
<1>3. \A v \in User \ {u} : attrs'[v] = attrs[v]
  BY <1>1, <1>2
<1>4. \A v \in User : Leaving(v) /\ Out(v, attrs, revived) => Out(v, attrs', revived')
  BY <1>3 DEF Out
<1>5. GoodAttrs(attrs', revived')
  <2>1. \A v \in User : attrs[v].certs_revoked = "true" => Out(v, attrs, revived)
    BY DEF InactiveInv, GoodAttrs
  <2>2. QED
    BY <1>3, <2>1 DEF GoodAttrs, Out
<1>6. UNCHANGED op \/ \E x : Become(p, x) /\ Settled(x, attrs', revived')
  BY IdleSettled DEF Mutate
<1>7. QED
  BY <1>4, <1>5, <1>6, BecomeSettled

\* Every step of an operation in progress keeps the users so.
LEMMA StepSettled ==
    ASSUME InactiveInv, TypeInv', NEW p \in Proc, Step(p)
    PROVE  InactiveInv'
<1> DEFINE o == op[p]
           u == o.user
<1>1. o \in GoodOp /\ o \in OpRecord /\ Settled(o, attrs, revived)
  BY DEF InactiveInv, TypeInv, TypeOK
<1>2. ASSUME NEW x, Become(p, x), Settled(x, attrs, revived), UNCHANGED <<attrs, queue, revived>>
      PROVE  InactiveInv'
  BY <1>2, BecomeSettled DEF InactiveInv
<1>3. Keep \notin {"true", "false"} /\ Unset \notin {"true", "false"} /\ Unset # Keep
  BY ConstantsAssumption DEF ConstantsAssumption
<1>4. attrs \in [User -> Attrs]
  BY DEF InactiveInv, TypeInv, TypeOK
<1>5. CASE DropTokens(p) \/ GenerateSign(p) \/ EnrollMint(p)
  <2>1. Become(p, Idle) /\ UNCHANGED <<attrs, queue, revived>>
    BY <1>5 DEF DropTokens, GenerateSign, EnrollMint
  <2>2. QED
    BY <1>2, <2>1, IdleSettled
<1>6. CASE PatchWrite(p)
  <2> DEFINE s == PatchSends(o)
             at == [attrs EXCEPT ![u] = ApplyAttrs(@, s)]
  <2>1. s \in SentAttrs
    BY <1>1, PatchSendsType
  <2>2. o.pc = "patch_write" /\ u \in User /\ o.body # NoBody /\ o.body \in Body
    BY <1>1, <1>6 DEF PatchWrite, GoodOp, Settled, OpRecord
  <2>3. s.is_active = "false" \/ s.certs_revoked \in {"false", Unset}
    <3>1. CASE o.body.ttl # Keep
      <4>1. Change(o).certs_revoked \in {"false", Unset}
        BY <3>1 DEF Change
      <4>2. QED
        BY <1>3, <4>1 DEF PatchSends, Sent
    <3>2. CASE o.body.ttl = Keep
      <4>1. o.body.is_active \in {"true", "false"}
        BY <2>2, <3>2 DEF Body, NoBody
      <4>2. CASE o.body.is_active = "true"
        <5>1. Change(o).certs_revoked = "false"
          BY <1>3, <3>2, <4>2 DEF Change
        <5>2. QED
          BY <1>3, <5>1 DEF PatchSends, Sent
      <4>3. CASE o.body.is_active = "false"
        BY <1>3, <4>3 DEF PatchSends, Change, Sent
      <4>4. QED
        BY <4>1, <4>2, <4>3
    <3>3. QED
      BY <3>1, <3>2
  <2>4. Mutate(p, s, Idle) /\ UNCHANGED queue
    BY <1>6 DEF PatchWrite
  <2>5. attrs' = at \/ attrs' = attrs
    BY <2>4 DEF Mutate
  <2> HIDE DEF s
  <2>6. revived' = IF Leaving(u) /\ attrs'[u].is_active # "false" THEN revived \cup {u} ELSE revived
    BY <1>6 DEF PatchWrite
  <2>7. revived \subseteq revived'
    BY <2>6
  <2>8. Leaving(u) => Out(u, attrs', revived')
    BY <2>6 DEF Out
  <2>9. attrs'[u].certs_revoked = "true" => Out(u, attrs', revived')
    <3>1. CASE attrs' = attrs
      BY <2>2, <2>7, <3>1 DEF InactiveInv, GoodAttrs, Out
    <3>2. CASE attrs' = at
      <4>1. at[u] = ApplyAttrs(attrs[u], s)
        BY <1>4, <2>2
      <4>2. at[u].is_active = "false" \/ at[u].certs_revoked # "true"
        BY <1>3, <2>3, <4>1 DEF ApplyAttrs, Merged
      <4>3. QED
        BY <3>2, <4>2 DEF Out
    <3>3. QED
      BY <2>5, <3>1, <3>2
  <2> HIDE DEF at
  <2>10. QED
    BY <2>1, <2>2, <2>4, <2>7, <2>8, <2>9, IdleSettled, MutateSettled
<1>7. CASE Deactivate(p)
  <2> DEFINE s == [is_active |-> "false", expires |-> Keep, certs_revoked |-> Keep]
             at == [attrs EXCEPT ![u] = ApplyAttrs(@, s)]
             x == [o EXCEPT !.pc = "list_disk"]
             n == IF tak = "none" THEN Idle ELSE x
  <2>1. s \in SentAttrs
    BY DEF SentAttrs, Flag
  <2>2. o.pc = "deactivate" /\ u \in User /\ Mutate(p, s, n) /\ UNCHANGED <<queue, revived>>
    BY <1>1, <1>7 DEF Deactivate, GoodOp
  <2>3. at[u].is_active = "false"
    BY <1>3, <1>4, <2>2 DEF ApplyAttrs, Merged
  <2>4. attrs' = at \/ attrs' = attrs
    BY <2>2 DEF Mutate
  <2>5. Leaving(u) /\ Out(u, attrs, revived) => Out(u, attrs', revived')
    BY <2>2, <2>3, <2>4 DEF Out
  <2>6. attrs'[u].certs_revoked = "true" => Out(u, attrs', revived')
    BY <2>2, <2>3, <2>4 DEF Out, InactiveInv, GoodAttrs
  <2> HIDE DEF at
  <2>7. Settled(x, at, revived')
    BY <1>1, <2>2, <2>3 DEF Settled, Past, Out, OpRecord
  <2> HIDE DEF x
  <2>8. Settled(n, at, revived')
    BY <2>7, IdleSettled
  <2> HIDE DEF s, n
  <2>9. QED
    BY <2>1, <2>2, <2>5, <2>6, <2>8, MutateSettled DEF at
<1>8. CASE MarkWrite(p)
  <2> DEFINE s == MarkSends(o)
             at == [attrs EXCEPT ![u] = ApplyAttrs(@, s)]
  <2>1. s \in SentAttrs
    BY <1>1, MarkSendsType
  <2>2. /\ o.pc = "mark_write" /\ u \in User /\ Out(u, attrs, revived)
        /\ u \in revived \/ o.read.is_active # "true"
    BY <1>1, <1>8 DEF MarkWrite, GoodOp, Settled
  <2>3. o.read.is_active \in {"true", "false", Unset}
    BY <1>1 DEF OpRecord, Attrs, Flag
  <2>4. u \in revived \/ s.is_active \in {"false", Keep}
    BY <1>3, <2>2, <2>3 DEF MarkSends, Sent
  <2>5. Mutate(p, s, Idle) /\ UNCHANGED <<queue, revived>>
    BY <1>8 DEF MarkWrite
  <2>6. attrs' = at \/ attrs' = attrs
    BY <2>5 DEF Mutate
  <2> HIDE DEF s
  <2>7. Out(u, at, revived)
    BY <1>3, <1>4, <2>2, <2>4 DEF Out, ApplyAttrs, Merged
  <2>8. Out(u, attrs', revived')
    BY <2>2, <2>5, <2>6, <2>7
  <2> HIDE DEF at
  <2>9. QED
    BY <2>1, <2>2, <2>5, <2>8, IdleSettled, MutateSettled
<1>9. CASE ListDisk(p)
  <2> DEFINE found == Glob[u] \cap issued
             x == [o EXCEPT !.todo = found, !.listed = found]
             y == [o EXCEPT !.ok = FALSE]
  <2>1. o.pc = "list_disk" /\ Past(o)
    BY <1>1, <1>9 DEF ListDisk, Settled
  <2>2. found \in SUBSET Cert
    BY DEF InactiveInv, TypeInv, TypeOK
  <2> HIDE DEF found
  <2>3. x \in OpRecord /\ Settled(x, attrs, revived) /\ Past(x)
    BY <1>1, <2>1, <2>2 DEF Settled, Past, OpRecord
  <2>4. y \in OpRecord /\ Settled(y, attrs, revived) /\ Past(y)
    BY <1>1, <2>1 DEF Settled, Past, OpRecord
  <2>5. Become(p, Advance(x)) \/ Become(p, Advance(y))
    BY <1>9 DEF ListDisk, found
  <2>6. UNCHANGED <<attrs, queue, revived>>
    BY <1>9 DEF ListDisk
  <2> HIDE DEF x, y
  <2>7. Settled(Advance(x), attrs, revived) /\ Settled(Advance(y), attrs, revived)
    BY <2>3, <2>4, AdvanceSettled
  <2>8. QED
    BY <1>2, <2>5, <2>6, <2>7
<1>10. CASE ListAdmin(p)
  <2> DEFINE found == {c \in (Enrolled \cap issued) \ flagged : Owner[c] = o.user}
             y == [o EXCEPT !.phase = "admin"]
             x == [y EXCEPT !.todo = found, !.listed = @ \cup found]
  <2>1. Past(o) /\ o.pc = "list_admin"
    BY <1>1, <1>10 DEF ListAdmin, Settled
  <2>2. found \in SUBSET Cert
    BY DEF InactiveInv, TypeInv, TypeOK
  <2> HIDE DEF found
  <2>3. y \in OpRecord /\ Settled(y, attrs, revived) /\ Past(y)
    BY <1>1, <2>1 DEF Settled, Past, OpRecord
  <2>4. x \in OpRecord /\ Settled(x, attrs, revived) /\ Past(x)
    BY <1>1, <2>1, <2>2 DEF Settled, Past, OpRecord
  <2>5. Become(p, Advance(x)) \/ Become(p, Advance(y)) \/ Become(p, Idle)
    BY <1>10 DEF ListAdmin, found
  <2>6. UNCHANGED <<attrs, queue, revived>>
    BY <1>10 DEF ListAdmin
  <2> HIDE DEF x, y
  <2>7. Settled(Advance(x), attrs, revived) /\ Settled(Advance(y), attrs, revived)
    BY <2>3, <2>4, AdvanceSettled
  <2>8. QED
    BY <1>2, <2>5, <2>6, <2>7, IdleSettled
<1>11. ASSUME NEW c \in Cert, RevokeLoad(p, c) PROVE InactiveInv'
  <2> DEFINE y == [o EXCEPT !.target = c]
             x == [y EXCEPT !.pc = "save", !.idx = index]
  <2>1. o.pc = "revoke" /\ (o.kind = "revoke" \/ Past(o))
    BY <1>1, <1>11 DEF RevokeLoad, Settled
  <2>2. /\ y \in OpRecord /\ Settled(y, attrs, revived)
        /\ y.kind = "revoke" \/ Past(y)
    BY <1>1, <2>1 DEF Settled, Past, OpRecord
  <2>3. Settled(x, attrs, revived)
    BY <1>1, <2>1 DEF Settled, Past, OpRecord
  <2>4. Become(p, x) \/ Become(p, Failed(y))
    BY <1>11 DEF RevokeLoad
  <2>5. UNCHANGED <<attrs, queue, revived>>
    BY <1>11 DEF RevokeLoad
  <2> HIDE DEF x, y
  <2>6. QED
    BY <1>2, <2>2, <2>3, <2>4, <2>5, AdvanceSettled
<1>12. CASE RevokeSave(p)
  <2> DEFINE x == [o EXCEPT !.pc = "gencrl", !.idx = {}]
  <2>1. Settled(x, attrs, revived)
    BY <1>1, <1>12 DEF Settled, Past, OpRecord, RevokeSave
  <2>2. Become(p, x) /\ UNCHANGED <<attrs, queue, revived>>
    BY <1>12 DEF RevokeSave
  <2> HIDE DEF x
  <2>3. QED
    BY <1>2, <2>1, <2>2
<1>13. CASE RevokeGencrl(p)
  <2>1. o.kind = "revoke" \/ Past(o)
    BY <1>1, <1>13 DEF Settled, RevokeGencrl
  <2>2. Become(p, Done(o)) \/ Become(p, Failed(o))
    BY <1>13 DEF RevokeGencrl
  <2>3. UNCHANGED <<attrs, queue, revived>>
    BY <1>13 DEF RevokeGencrl
  <2>4. QED
    BY <1>1, <1>2, <2>1, <2>2, <2>3, AdvanceSettled
<1>14. CASE MarkRead(p)
  <2> DEFINE a == attrs[u]
             x == [o EXCEPT !.pc = "mark_write", !.read = a]
  <2>1. Past(o) /\ (u \in revived \/ a.is_active # "true")
    BY <1>1, <1>14 DEF MarkRead, Settled, Out
  <2> HIDE DEF a
  <2>2. Settled(x, attrs, revived)
    BY <1>1, <2>1 DEF Settled, Past, OpRecord
  <2>3. Become(p, x) \/ Become(p, Idle)
    BY <1>14 DEF MarkRead, a
  <2>4. UNCHANGED <<attrs, queue, revived>>
    BY <1>14 DEF MarkRead
  <2> HIDE DEF x
  <2>5. QED
    BY <1>2, <2>2, <2>3, <2>4, IdleSettled
<1>15. CASE FlagAdmin(p)
  <2> DEFINE x == [o EXCEPT !.pc = "tokens"]
  <2>1. o.pc = "flag"
    BY <1>15 DEF FlagAdmin
  <2>2. Settled(x, attrs, revived)
    BY <1>1, <2>1 DEF Settled, Past, OpRecord
  <2>3. Become(p, x) /\ UNCHANGED <<attrs, queue, revived>>
    BY <1>15 DEF FlagAdmin
  <2> HIDE DEF x
  <2>4. QED
    BY <1>2, <2>2, <2>3
<1>16. QED
  BY <1>5, <1>6, <1>7, <1>8, <1>9, <1>10, <1>11, <1>12, <1>13, <1>14, <1>15 DEF Step

\* So does every new request.
LEMMA ArriveSettled ==
    ASSUME InactiveInv, TypeInv', NEW r \in Request, Arrive(r)
    PROVE  InactiveInv'
<1>1. ASSUME NEW x, Become(r, x), Settled(x, attrs, revived), UNCHANGED <<attrs, queue, revived>>
      PROVE  InactiveInv'
  BY <1>1, BecomeSettled, RequestIsProc DEF InactiveInv
<1>2. ASSUME NEW u \in User, PatchRead(r, u) PROVE InactiveInv'
  <2>1. PICK b \in Patches \ {NoBody} :
          Become(r, [Start("patch", u, "patch_write") EXCEPT
                      !.body = b, !.read = attrs[u],
                      !.ttlEnd = IF b.ttl \in {Unset, Keep} THEN b.ttl ELSE now + b.ttl])
    BY <1>2 DEF PatchRead
  <2> DEFINE a == attrs[u]
             e == IF b.ttl \in {Unset, Keep} THEN b.ttl ELSE now + b.ttl
             x == [Start("patch", u, "patch_write") EXCEPT
                     !.body = b, !.read = a, !.ttlEnd = e]
  <2>2. Become(r, x)
    BY <2>1
  <2> HIDE DEF a, e
  <2>3. x.body = b /\ x.kind = "patch" /\ x.pc = "patch_write"
    BY DEF Start, Idle
  <2> HIDE DEF x
  <2>4. Settled(x, attrs, revived)
    BY <2>3 DEF Settled, Past
  <2>5. QED
    BY <1>1, <1>2, <2>2, <2>4 DEF PatchRead
<1>3. ASSUME NEW u
      PROVE  /\ Settled(Start("delete", u, "deactivate"), attrs, revived)
             /\ Settled(Start("enroll", u, "mint"), attrs, revived)
  BY DEF Settled, Past, Start, Idle
<1>4. ASSUME NEW u \in User, DeleteStart(r, u) \/ EnrollCheck(r, u) PROVE InactiveInv'
  <2>1. \/ Become(r, Start("delete", u, "deactivate"))
        \/ Become(r, Start("enroll", u, "mint"))
    BY <1>4 DEF DeleteStart, EnrollCheck
  <2>2. UNCHANGED <<attrs, queue, revived>>
    BY <1>4 DEF DeleteStart, EnrollCheck
  <2>3. QED
    BY <1>1, <1>3, <2>1, <2>2
<1>5. ASSUME NEW c \in Cert, RevokeStart(r, c) PROVE InactiveInv'
  <2> DEFINE x == [Start("revoke", Owner[c], "revoke") EXCEPT !.todo = {c}]
  <2>1. Settled(x, attrs, revived)
    BY DEF Settled, Past, Start, Idle
  <2>2. Become(r, x) /\ UNCHANGED <<attrs, queue, revived>>
    BY <1>5 DEF RevokeStart
  <2> HIDE DEF x
  <2>3. QED
    BY <1>1, <2>1, <2>2
<1>6. ASSUME NEW c \in Cert, GenerateCheck(r, c) PROVE InactiveInv'
  <2> DEFINE x == [Start("generate", Owner[c], "sign") EXCEPT !.target = c]
  <2>1. Settled(x, attrs, revived)
    BY DEF Settled, Past, Start, Idle
  <2>2. Become(r, x) /\ UNCHANGED <<attrs, queue, revived>>
    BY <1>6 DEF GenerateCheck
  <2> HIDE DEF x
  <2>3. QED
    BY <1>1, <2>1, <2>2
<1>7. QED
  BY <1>2, <1>4, <1>5, <1>6 DEF Arrive

\* Every step keeps the invariant.
LEMMA InactiveStep == InactiveInv /\ TypeInv' /\ [Next]_vars => InactiveInv'
<1> SUFFICES ASSUME InactiveInv, TypeInv', [Next]_vars PROVE InactiveInv'
  OBVIOUS
<1>1. CASE Crash
  <2>1. \A p \in Proc : op'[p] = Idle
    BY <1>1 DEF Crash
  <2>2. \A p \in Proc : Settled(op'[p], attrs', revived')
    BY <2>1, IdleSettled
  <2>3. UNCHANGED <<attrs, revived>> /\ queue' = {}
    BY <1>1 DEF Crash
  <2>4. QED
    BY <2>2, <2>3 DEF InactiveInv
<1>2. CASE \/ Tick \/ UNCHANGED vars
           \/ \E c \in Cert : DeviceEnroll(c)
           \/ \E u \in User : TokenExpires(u)
  <2>1. UNCHANGED <<attrs, revived, queue, op>>
    BY <1>2 DEF Tick, DeviceEnroll, TokenExpires, vars
  <2>2. QED
    BY <2>1 DEF InactiveInv
<1>3. CASE SchedPoll
  <2>1. UNCHANGED <<op, attrs, revived>>
    BY <1>3 DEF SchedPoll
  <2>2. ASSUME NEW q \in queue' PROVE q[2] \/ Out(q[1], attrs, revived)
    <3>1. PICK u \in User : q = <<u, attrs[u].is_active # "false">>
      BY <1>3 DEF SchedPoll
    <3>2. q[1] = u /\ q[2] = (attrs[u].is_active # "false")
      BY <3>1
    <3>3. QED
      BY <3>2 DEF Out
  <2>3. QED
    BY <2>1, <2>2 DEF InactiveInv
<1>4. ASSUME NEW u \in User, NEW active \in BOOLEAN, SchedNext(u, active)
      PROVE  InactiveInv'
  <2>1. \/ Become(Sched, Start("sweep", u, "deactivate"))
        \/ Become(Sched, Idle)
        \/ ~active /\ Become(Sched, Start("sweep", u, "list_disk"))
    BY <1>4 DEF SchedNext
  <2>2. ~active => Out(u, attrs, revived)
    BY <1>4 DEF SchedNext, InactiveInv
  <2>3. Settled(Start("sweep", u, "deactivate"), attrs, revived)
    BY DEF Settled, Past, Start, Idle
  <2>4. ~active => Settled(Start("sweep", u, "list_disk"), attrs, revived)
    BY <2>2 DEF Settled, Past, Start, Idle
  <2>5. UNCHANGED <<attrs, revived>> /\ queue' \subseteq queue
    BY <1>4 DEF SchedNext
  <2>6. QED
    BY <2>1, <2>3, <2>4, <2>5, IdleSettled, BecomeSettled, SchedIsProc DEF InactiveInv
<1>5. CASE Step(Sched)
  BY <1>5, StepSettled, SchedIsProc
<1>6. ASSUME NEW r \in Request, Arrive(r) \/ Step(r) PROVE InactiveInv'
  BY <1>6, StepSettled, ArriveSettled, RequestIsProc
<1>7. QED
  BY <1>1, <1>2, <1>3, <1>4, <1>5, <1>6 DEF Next, Outside, SchedStep

\* A user whom fastak_certs_revoked hides from the expiry job is inactive, for
\* any interleaving of the job with PATCHes and deletions that send back what
\* they have read, unless a PATCH wrote is_active true between the user's
\* deactivation and the end of the sweep.  The directory the monitor starts
\* with has no user who is marked as revoked and active.
THEOREM RevokedUsersInactive ==
    ASSUME InitiallySettled
    PROVE  Spec => []RevokedUserInactive
<1>1. Init => InactiveInv
  <2> SUFFICES ASSUME Init PROVE InactiveInv
    OBVIOUS
  <2>1. TypeInv
    BY InitType
  <2>2. \A p \in Proc : op[p] = Idle
    BY DEF Init
  <2>3. \A p \in Proc : Settled(op[p], attrs, revived)
    BY <2>2, IdleSettled
  <2>4. GoodAttrs(attrs, revived)
    BY DEF Init, GoodAttrs, InitiallySettled, Out
  <2>5. QED
    BY <2>1, <2>3, <2>4 DEF Init, InactiveInv
<1>2. InactiveInv /\ [Next]_vars => InactiveInv'
  BY InactiveStep, StepType DEF InactiveInv
<1>3. InactiveInv => RevokedUserInactive
  BY DEF InactiveInv, GoodAttrs, Out, RevokedUserInactive
<1>4. QED
  BY <1>1, <1>2, <1>3, PTL DEF Spec

=============================================================================
