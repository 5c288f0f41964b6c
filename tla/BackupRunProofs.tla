--------------------------- MODULE BackupRunProofs ---------------------------
(***************************************************************************)
(* Proofs about BackupRun, for any number of handlers and commands and any *)
(* retention.                                                              *)
(***************************************************************************)
EXTENDS BackupRun, FiniteSetTheorems, WellFoundedInduction, TLAPS

(***************************************************************************)
(* Types, and the lock.  TypeOK is inductive: each step changes the record *)
(* of one process, which holds the lock after it exactly if it did before  *)
(* or took it.                                                             *)
(***************************************************************************)
\* What a step of p does to its record o and to the lock.
Moved(p, o) ==
    /\ o \in OpRecord
    /\ op' = [op EXCEPT ![p] = o]
    /\ ByHand(o)
    /\ Holding(o) <=> lock' = p
    /\ \/ lock' = lock
       \/ lock \in {None, p} /\ lock' \in {None, p}

LEMMA MovedOps ==
    ASSUME TypeOK, NEW p \in Proc, NEW o, Moved(p, o)
    PROVE  /\ op' \in [Proc -> OpRecord]
           /\ lock' \in Proc \cup {None}
           /\ \A q \in Proc : ByHand(op'[q]) /\ (Holding(op'[q]) <=> lock' = q)
<1> USE DEF TypeOK, Moved
<1>1. op'[p] = o /\ \A q \in Proc : q # p => op'[q] = op[q]
  OBVIOUS
<1>2. op' \in [Proc -> OpRecord] /\ lock' \in Proc \cup {None}
  OBVIOUS
<1>3. ASSUME NEW q \in Proc, q # p
      PROVE  ByHand(op'[q]) /\ (Holding(op'[q]) <=> lock' = q)
  BY <1>1, <1>3, BackupAssumption DEF BackupAssumption
<1>4. QED
  BY <1>1, <1>2, <1>3

\* The record before a step, and the field updates used below, keep the type.
LEMMA RecordTyped ==
    ASSUME NEW o \in OpRecord, NEW pc \in {"idle", "preflight", "release",
               "refused", "beaten", "stamp", "lock", "read", "write", "key",
               "keygen", "dump", "stream", "rename", "sidecar", "cleanup",
               "unlock", "prune", "unlink", "copy"}
    PROVE  /\ [o EXCEPT !.pc = pc] \in OpRecord
           /\ [o EXCEPT !.pc = pc].pc = pc
           /\ [o EXCEPT !.pc = pc].why = o.why
           /\ [o EXCEPT !.pc = pc].kind = o.kind
BY DEF OpRecord

\* Going to a step, and beginning to save, as the record they leave.
LEMMA GoTyped ==
    ASSUME TypeOK, NEW p \in Proc, NEW pc \in {"idle", "preflight", "release",
               "refused", "beaten", "stamp", "lock", "read", "write", "key",
               "keygen", "dump", "stream", "rename", "sidecar", "cleanup",
               "unlock", "prune", "unlink", "copy"}, Go(p, pc)
    PROVE  \E o \in OpRecord : /\ o.pc = pc /\ o.why = op[p].why
                              /\ o.kind = op[p].kind
                              /\ op' = [op EXCEPT ![p] = o]
<1>1. op[p] \in OpRecord
  BY DEF TypeOK
<1> DEFINE new == [op[p] EXCEPT !.pc = pc]
<1>2. new \in OpRecord /\ new.pc = pc /\ new.why = op[p].why
      /\ new.kind = op[p].kind
  BY <1>1 DEF OpRecord
<1>3. op' = [op EXCEPT ![p] = new]
  BY DEF Go, Become
<1> HIDE DEF new
<1>4. QED
  BY <1>2, <1>3

LEMMA SaveTyped ==
    ASSUME TypeOK, NEW p \in Proc,
           NEW why \in {"running", "success", "failed", "lost", "key"},
           Save(p, why)
    PROVE  \E o \in OpRecord : /\ o.pc = "read" /\ o.why = why
                              /\ o.kind = op[p].kind
                              /\ op' = [op EXCEPT ![p] = o]
<1>1. op[p] \in OpRecord
  BY DEF TypeOK
<1> DEFINE new == [op[p] EXCEPT !.pc = "read", !.why = why]
<1>2. new \in OpRecord /\ new.pc = "read" /\ new.why = why
      /\ new.kind = op[p].kind
  BY <1>1 DEF OpRecord
<1>3. op' = [op EXCEPT ![p] = new]
  BY DEF Save, Become
<1> HIDE DEF new
<1>4. QED
  BY <1>2, <1>3

LEMMA IdleTyped == Idle \in OpRecord /\ ~Holding(Idle) /\ ByHand(Idle)
BY DEF ByHand, Idle, OpRecord, NoFile, Identity, State0, State, NoRun, Holding, Working

LEMMA TypeInit == Init => TypeOK
<1> SUFFICES ASSUME Init PROVE TypeOK
  OBVIOUS
<1>1. \A p \in Proc : op[p] = Idle
  BY DEF Init
<1>2. State0 \in State /\ NoFile \in Identity
  BY DEF State0, NoRun, State, NoFile, Identity
<1>3. QED
  BY <1>1, <1>2, IdleTyped, BackupAssumption
     DEF Init, TypeOK, BackupAssumption

\* The steps that leave everything but one record and the lock alone.
LEMMA TypeOps ==
    ASSUME TypeOK, NEW p \in Proc, NEW o, Moved(p, o),
           now' \in Nat, state' \in State, identity' \in Identity,
           archives' \subseteq [taken : Nat, gen : Nat],
           partials' \subseteq [taken : Nat, mtime : Nat],
           sidecars' \subseteq Nat, starts' \in Nat, faults' \in Nat,
           made' \subseteq Nat, removed' \subseteq Nat,
           handed' \subseteq Identity
    PROVE  TypeOK'
BY MovedOps DEF TypeOK

LEMMA TypeControl ==
    ASSUME TypeOK, NEW p \in Proc,
           \/ Preflight(p) \/ Release(p) \/ Stamp(p) \/ Lock(p) \/ Refused(p)
           \/ ReadState(p) \/ CopyKey(p) \/ Unlock(p)
           \/ \E kind \in Kinds : Start(p, kind)
    PROVE  TypeOK'
<1> USE DEF TypeOK
<1>0. /\ op[p] \in OpRecord /\ (Holding(op[p]) <=> lock = p) /\ ByHand(op[p])
      /\ None \notin Proc
  BY BackupAssumption DEF BackupAssumption
<1>1. CASE Preflight(p)
  <2>1. CASE lock = None
    <3>1. PICK o \in OpRecord : /\ o.pc = "release" /\ o.kind = op[p].kind
                                /\ op' = [op EXCEPT ![p] = o]
      BY <1>1, <2>1, GoTyped DEF Preflight
    <3>2. Moved(p, o)
      BY <1>0, <1>1, <2>1, <3>1 DEF Preflight, Moved, Holding, ByHand
    <3>3. QED
      BY <1>1, <3>2, TypeOps DEF Preflight, Directory
  <2>2. CASE lock # None
    <3>1. PICK o \in OpRecord : /\ o.pc = "refused" /\ o.kind = op[p].kind
                                /\ op' = [op EXCEPT ![p] = o]
      BY <1>1, <2>2, GoTyped DEF Preflight
    <3>2. Moved(p, o)
      BY <1>0, <1>1, <2>2, <3>1 DEF Preflight, Moved, Holding, Working, ByHand
    <3>3. QED
      BY <1>1, <3>2, TypeOps DEF Preflight, Directory
  <2>3. QED
    BY <2>1, <2>2
<1>2. CASE Release(p)
  <2>1. PICK o \in OpRecord : /\ o.pc = "stamp" /\ o.kind = op[p].kind
                              /\ op' = [op EXCEPT ![p] = o]
    BY <1>2, GoTyped DEF Release
  <2>2. Moved(p, o)
    BY <1>0, <1>2, <2>1 DEF Release, Moved, Holding, Working, ByHand
  <2>3. QED
    BY <1>2, <2>2, TypeOps DEF Release, Directory
<1>3. CASE Stamp(p)
  <2> DEFINE o == [op[p] EXCEPT !.pc = "lock", !.file = now]
  <2>1. o \in OpRecord /\ o.pc = "lock" /\ o.kind = op[p].kind
    BY <1>0 DEF OpRecord
  <2>2. op[p].pc = "stamp" /\ op' = [op EXCEPT ![p] = o] /\ lock' = lock
    BY <1>3 DEF Stamp, Become
  <2> HIDE DEF o
  <2>3. Moved(p, o)
    BY <1>0, <2>1, <2>2 DEF Moved, Holding, Working, ByHand
  <2>4. QED
    BY <1>3, <2>3, TypeOps DEF Stamp, Directory
<1>4. CASE Lock(p)
  <2>1. CASE lock = None
    <3>1. PICK o \in OpRecord : /\ o.pc = "read" /\ o.why = "running"
                                /\ o.kind = op[p].kind
                                /\ op' = [op EXCEPT ![p] = o]
      BY <1>4, <2>1, SaveTyped DEF Lock
    <3>2. Moved(p, o)
      BY <1>0, <1>4, <2>1, <3>1 DEF Lock, Moved, Holding, Working, ByHand
    <3>3. QED
      BY <1>4, <3>2, TypeOps DEF Lock, Directory
  <2>2. CASE lock # None
    <3>1. PICK o \in OpRecord : /\ o.pc = "beaten" /\ o.kind = op[p].kind
                                /\ op' = [op EXCEPT ![p] = o]
      BY <1>4, <2>2, GoTyped DEF Lock
    <3>2. Moved(p, o)
      BY <1>0, <1>4, <2>2, <3>1 DEF Lock, Moved, Holding, Working, ByHand
    <3>3. QED
      BY <1>4, <3>2, TypeOps DEF Lock, Directory
  <2>3. QED
    BY <2>1, <2>2
<1>5. CASE Refused(p)
  <2>1. PICK o \in OpRecord : /\ ~Holding(o) /\ ByHand(o)
                              /\ op' = [op EXCEPT ![p] = o]
    <3>1. CASE op[p].pc = "beaten" /\ op[p].kind = "api"
      <4>1. \E o \in OpRecord : /\ o.pc = "read" /\ o.why = "lost"
                                /\ o.kind = "api"
                                /\ op' = [op EXCEPT ![p] = o]
        BY <1>5, <3>1, SaveTyped DEF Refused
      <4>2. QED
        BY <4>1 DEF Holding, Working, ByHand
    <3>2. CASE ~(op[p].pc = "beaten" /\ op[p].kind = "api")
      BY <1>5, <3>2, IdleTyped DEF Refused, Become
    <3>3. QED
      BY <3>1, <3>2
  <2>2. op[p].pc \in {"refused", "beaten"} /\ lock' = lock
    BY <1>5 DEF Refused
  <2>3. ~Holding(op[p])
    BY <2>2 DEF Holding, Working
  <2>4. Moved(p, o)
    BY <1>0, <2>1, <2>2, <2>3 DEF Moved
  <2>5. QED
    BY <1>5, <2>4, TypeOps DEF Refused, Directory
<1>6. CASE ReadState(p)
  <2> DEFINE o == [op[p] EXCEPT !.pc = "write", !.seen = state]
  <2>1. /\ o \in OpRecord /\ o.pc = "write" /\ o.why = op[p].why
        /\ o.kind = op[p].kind
    BY <1>0 DEF OpRecord
  <2>2. op[p].pc = "read" /\ op' = [op EXCEPT ![p] = o] /\ lock' = lock
    BY <1>6 DEF ReadState, Become
  <2> HIDE DEF o
  <2>3. Moved(p, o)
    BY <1>0, <2>1, <2>2 DEF Moved, Holding, Working, ByHand
  <2>4. QED
    BY <1>6, <2>3, TypeOps DEF ReadState, Directory
<1>7. CASE CopyKey(p)
  <2> DEFINE new == [op[p] EXCEPT !.pc = "read", !.why = "key", !.id = identity]
  <2>1. /\ new \in OpRecord /\ new.pc = "read" /\ new.why = "key"
        /\ new.kind = op[p].kind
    BY <1>0 DEF OpRecord
  <2>2. op[p].pc = "copy" /\ lock' = lock
        /\ (op' = [op EXCEPT ![p] = Idle] \/ op' = [op EXCEPT ![p] = new])
    BY <1>7 DEF CopyKey, Become
  <2> HIDE DEF new
  <2>3. ~Holding(new) /\ ~Holding(op[p]) /\ ByHand(new)
    BY <1>0, <2>1, <2>2 DEF Holding, Working, ByHand
  <2>4. Moved(p, new) \/ Moved(p, Idle)
    BY <1>0, <2>1, <2>2, <2>3, IdleTyped DEF Moved
  <2>5. QED
    BY <1>7, <2>4, TypeOps, IdleTyped DEF CopyKey, Directory
<1>8. CASE Unlock(p)
  <2>1. Moved(p, Idle)
    BY <1>0, <1>8, IdleTyped DEF Unlock, Become, Moved, Holding, Working, ByHand
  <2>2. QED
    BY <1>8, <2>1, TypeOps DEF Unlock, Directory
<1>9. ASSUME NEW kind \in Kinds, Start(p, kind) PROVE TypeOK'
  <2> DEFINE o == [Idle EXCEPT !.kind = kind, !.pc = FirstStep(kind)]
  <2>1. kind \in {"cli", "api", "dash", "prune", "key"}
    BY BackupAssumption DEF BackupAssumption, RunKinds
  <2>2. /\ FirstStep(kind) \in {"stamp", "preflight", "prune", "copy"}
        /\ FirstStep(kind) = "prune" <=> kind = "prune"
    BY <2>1 DEF FirstStep
  <2>3. /\ o \in OpRecord /\ o.kind = kind
        /\ o.pc = FirstStep(kind)
    BY <2>1, <2>2, IdleTyped DEF Idle, OpRecord, RunKinds
  <2>4. op[p] = Idle /\ op' = [op EXCEPT ![p] = o] /\ lock' = lock
    BY <1>9 DEF Start, Become
  <2> HIDE DEF o
  <2>5. Moved(p, o)
    <3>1. ~Holding(op[p])
      BY <2>4, IdleTyped
    <3>2. ~Holding(o) /\ ByHand(o)
      BY <2>2, <2>3 DEF Holding, Working, ByHand
    <3>3. QED
      BY <1>0, <2>3, <2>4, <3>1, <3>2 DEF Moved
  <2>6. starts' \in Nat
    <3>1. starts' = starts + 1
      BY <1>9 DEF Start
    <3>2. QED
      BY <3>1
  <2>7. QED
    BY <1>9, <2>5, <2>6, TypeOps DEF Start, Directory
<1>10. QED
  BY <1>1, <1>2, <1>3, <1>4, <1>5, <1>6, <1>7, <1>8, <1>9

LEMMA TypeSave ==
    ASSUME TypeOK, NEW p \in Proc, WriteState(p)
    PROVE  TypeOK'
<1> USE DEF TypeOK
<1>0. /\ op[p] \in OpRecord /\ (Holding(op[p]) <=> lock = p) /\ ByHand(op[p])
      /\ None \notin Proc
      /\ op[p].pc = "write" /\ lock' = lock
  BY BackupAssumption DEF BackupAssumption, WriteState
<1>1. op[p].why \in {"running", "success", "failed", "lost", "key"}
      /\ op[p].seen \in State /\ op[p].id \in Identity
  BY <1>0 DEF OpRecord
<1>2. CASE state' = Written(op[p]) /\ Become(p, Reported(op[p]))
           /\ handed' = (IF op[p].why = "key" THEN handed \cup {op[p].id}
                                              ELSE handed)
           /\ UNCHANGED faults
  <2>1. state' \in State
    BY <1>0, <1>1, <1>2 DEF Written, State, OpRecord
  <2>2. handed' \subseteq Identity
    BY <1>1, <1>2
  <2>3. \E o \in OpRecord : Moved(p, o)
    <3>1. CASE op[p].why \in {"key", "lost"}
      <4>1. Reported(op[p]) = Idle
        BY <3>1 DEF Reported
      <4>2. ~Holding(op[p])
        BY <1>0, <3>1 DEF Holding, Working
      <4>3. QED
        BY <1>0, <1>2, <4>1, <4>2, IdleTyped DEF Become, Moved
    <3>2. CASE op[p].why = "running"
      <4> DEFINE o == [op[p] EXCEPT !.pc = "key", !.said = {"started"}]
      <4>1. o \in OpRecord /\ o.pc = "key" /\ o.kind = op[p].kind
        BY <1>0 DEF OpRecord
      <4>2. Reported(op[p]) = o
        BY <3>2 DEF Reported
      <4> HIDE DEF o
      <4>3. QED
        BY <1>0, <1>2, <3>2, <4>1, <4>2 DEF Become, Moved, Holding, Working, ByHand
    <3>3. CASE op[p].why = "success"
      <4> DEFINE o == [op[p] EXCEPT !.pc = "prune",
                                    !.said = @ \cup {"completed"}]
      <4>1. o \in OpRecord /\ o.pc = "prune" /\ o.kind = op[p].kind
        BY <1>0 DEF OpRecord
      <4>2. Reported(op[p]) = o
        BY <3>3 DEF Reported
      <4> HIDE DEF o
      <4>3. QED
        BY <1>0, <1>2, <3>3, <4>1, <4>2 DEF Become, Moved, Holding, Working, ByHand
    <3>4. CASE op[p].why = "failed"
      <4> DEFINE o == [op[p] EXCEPT !.pc = "unlock",
                                    !.said = @ \cup {"failed"}]
      <4>1. o \in OpRecord /\ o.pc = "unlock" /\ o.kind = op[p].kind
        BY <1>0 DEF OpRecord
      <4>2. Reported(op[p]) = o
        BY <3>4 DEF Reported
      <4> HIDE DEF o
      <4>3. QED
        BY <1>0, <1>2, <3>4, <4>1, <4>2 DEF Become, Moved, Holding, Working, ByHand
    <3>5. QED
      BY <1>1, <3>1, <3>2, <3>3, <3>4
  <2>4. PICK o \in OpRecord : Moved(p, o)
    BY <2>3
  <2>5. QED
    BY <1>2, <2>1, <2>2, <2>4, TypeOps DEF WriteState, Directory
<1>3. CASE /\ Fault("disk")
           /\ CASE op[p].why = "success" -> Go(p, "cleanup")
                [] op[p].why \in {"running", "failed"} -> Go(p, "unlock")
                [] OTHER -> Become(p, Idle)
           /\ UNCHANGED <<state, handed>>
  <2>1. faults' \in Nat
    BY <1>3 DEF Fault
  <2>2. \E o \in OpRecord : Moved(p, o)
    <3>1. CASE op[p].why \in {"key", "lost"}
      <4>1. ~Holding(op[p])
        BY <1>0, <3>1 DEF Holding, Working
      <4>2. QED
        BY <1>0, <1>3, <3>1, <4>1, IdleTyped DEF Become, Moved
    <3>2. CASE op[p].why \in {"running", "success", "failed"}
      <4>1. \E pc \in {"cleanup", "unlock"} : Go(p, pc)
        BY <1>3, <3>2
      <4>2. PICK o \in OpRecord : /\ o.pc \in {"cleanup", "unlock"}
                                  /\ o.kind = op[p].kind
                                  /\ op' = [op EXCEPT ![p] = o]
        BY <4>1, GoTyped
      <4>3. QED
        BY <1>0, <3>2, <4>2 DEF Moved, Holding, Working, ByHand
    <3>3. QED
      BY <1>1, <3>1, <3>2
  <2>3. PICK o \in OpRecord : Moved(p, o)
    BY <2>2
  <2>4. QED
    BY <1>3, <2>1, <2>3, TypeOps DEF WriteState, Directory
<1>4. QED
  BY <1>2, <1>3 DEF WriteState

LEMMA TypeWork ==
    ASSUME TypeOK, NEW p \in Proc,
           \/ LoadOrCreate(p) \/ Keygen(p) \/ Dump(p) \/ Stream(p)
           \/ Rename(p) \/ Sidecar(p) \/ Cleanup(p)
    PROVE  TypeOK'
<1> USE DEF TypeOK
<1>0. /\ op[p] \in OpRecord /\ (Holding(op[p]) <=> lock = p) /\ ByHand(op[p])
      /\ None \notin Proc
  BY BackupAssumption DEF BackupAssumption
<1>1. op[p].pc \in {"key", "keygen", "dump", "stream", "rename", "sidecar",
                    "cleanup"} /\ lock' = lock
  BY DEF LoadOrCreate, Keygen, Dump, Stream, Rename, Sidecar, Cleanup
<1>2. Holding(op[p]) /\ op[p].kind # "prune"
  BY <1>0, <1>1 DEF Holding, Working, ByHand
\* Going on to a step of a run that holds the lock.
<1>3. ASSUME NEW pc \in {"keygen", "dump", "stream", "rename", "sidecar",
                         "cleanup", "unlock"}, Go(p, pc)
      PROVE  \E o \in OpRecord : Moved(p, o)
  <2>1. PICK o \in OpRecord : /\ o.pc = pc /\ o.kind = op[p].kind
                              /\ op' = [op EXCEPT ![p] = o]
    BY <1>3, GoTyped
  <2>2. QED
    BY <1>0, <1>1, <1>2, <2>1 DEF Moved, Holding, Working, ByHand
<1>4. ASSUME NEW why \in {"running", "success", "failed"}, Save(p, why)
      PROVE  \E o \in OpRecord : Moved(p, o)
  <2>1. PICK o \in OpRecord : /\ o.pc = "read" /\ o.why = why
                              /\ o.kind = op[p].kind
                              /\ op' = [op EXCEPT ![p] = o]
    BY <1>4, SaveTyped
  <2>2. QED
    BY <1>0, <1>1, <1>2, <2>1 DEF Moved, Holding, Working, ByHand
<1>5. ASSUME NEW id \in Identity,
             Become(p, [op[p] EXCEPT !.pc = "dump", !.id = id])
      PROVE  \E o \in OpRecord : Moved(p, o)
  <2> DEFINE o == [op[p] EXCEPT !.pc = "dump", !.id = id]
  <2>1. o \in OpRecord /\ o.pc = "dump" /\ o.kind = op[p].kind
    BY <1>0 DEF OpRecord
  <2>2. op' = [op EXCEPT ![p] = o]
    BY <1>5 DEF Become
  <2> HIDE DEF o
  <2>3. QED
    BY <1>0, <1>1, <1>2, <2>1, <2>2 DEF Moved, Holding, Working, ByHand
<1>6. op[p].file \in Nat /\ op[p].id.gen \in Nat
  BY <1>0 DEF OpRecord, Identity
<1>7. CASE LoadOrCreate(p)
  <2>1. identity' \in Identity
    <3>1. identity' = identity \/ identity' = [gen |-> 1, whole |-> FALSE]
      BY <1>7 DEF LoadOrCreate
    <3>2. [gen |-> 1, whole |-> FALSE] \in Identity
      BY DEF Identity
    <3>3. QED
      BY <3>1, <3>2
  <2>2. \E o \in OpRecord : Moved(p, o)
    <3>1. \/ Go(p, "keygen") \/ Go(p, "cleanup")
          \/ Become(p, [op[p] EXCEPT !.pc = "dump", !.id = identity])
      BY <1>7 DEF LoadOrCreate
    <3>2. QED
      BY <1>3, <1>5, <3>1
  <2>3. QED
    BY <1>7, <2>1, <2>2, TypeOps DEF LoadOrCreate, Directory
<1>8. CASE Keygen(p)
  <2>1. identity' \in Identity
    BY <1>8 DEF Keygen, Identity
  <2>2. faults' \in Nat
    BY <1>8 DEF Keygen, Fault
  <2>3. \E o \in OpRecord : Moved(p, o)
    <3>1. \/ Go(p, "cleanup")
          \/ Become(p, [op[p] EXCEPT !.pc = "dump", !.id = identity'])
      BY <1>8 DEF Keygen
    <3>2. QED
      BY <1>3, <1>5, <2>1, <3>1
  <2>4. QED
    BY <1>8, <2>1, <2>2, <2>3, TypeOps DEF Keygen, Directory
<1>9. CASE Dump(p)
  <2>1. partials' \subseteq [taken : Nat, mtime : Nat]
    BY <1>6, <1>9 DEF Dump, OtherPartials
  <2>2. faults' \in Nat
    BY <1>9 DEF Dump, Fault
  <2>3. \E o \in OpRecord : Moved(p, o)
    BY <1>3, <1>9 DEF Dump
  <2>4. QED
    BY <1>9, <2>1, <2>2, <2>3, TypeOps DEF Dump
<1>10. CASE Stream(p)
  <2>1. partials' \subseteq [taken : Nat, mtime : Nat]
    <3>1. partials' = partials \/ \A y \in partials' : \E x \in partials :
              y = IF x.taken = op[p].file THEN [x EXCEPT !.mtime = now] ELSE x
      BY <1>10 DEF Stream
    <3>2. QED
      BY <3>1
  <2>2. faults' \in Nat
    BY <1>10 DEF Stream, Fault
  <2>3. \E o \in OpRecord : Moved(p, o)
    BY <1>3, <1>10 DEF Stream
  <2>4. QED
    BY <1>10, <2>1, <2>2, <2>3, TypeOps DEF Stream
<1>11. CASE Rename(p)
  <2>1. /\ partials' \subseteq [taken : Nat, mtime : Nat]
        /\ archives' \subseteq [taken : Nat, gen : Nat]
        /\ made' \subseteq Nat /\ removed' \subseteq Nat
    <3>1. /\ partials' \subseteq partials
          /\ archives' \subseteq archives
               \cup {[taken |-> op[p].file, gen |-> op[p].id.gen]}
          /\ made' \subseteq made \cup {op[p].file}
          /\ removed' \subseteq removed
      BY <1>11 DEF Rename, OtherPartials
    <3>2. [taken |-> op[p].file, gen |-> op[p].id.gen]
            \in [taken : Nat, gen : Nat]
      BY <1>6
    <3>3. QED
      BY <1>6, <3>1, <3>2
  <2>2. \E o \in OpRecord : Moved(p, o)
    BY <1>3, <1>11 DEF Rename
  <2>3. QED
    BY <1>11, <2>1, <2>2, TypeOps DEF Rename
<1>12. CASE Sidecar(p)
  <2>1. sidecars' \subseteq Nat
    BY <1>6, <1>12 DEF Sidecar
  <2>2. faults' \in Nat
    BY <1>12 DEF Sidecar, Fault
  <2>3. \E o \in OpRecord : Moved(p, o)
    <3>1. Go(p, "cleanup") \/ Save(p, "success")
      BY <1>12 DEF Sidecar
    <3>2. QED
      BY <1>3, <1>4, <3>1
  <2>4. QED
    BY <1>12, <2>1, <2>2, <2>3, TypeOps DEF Sidecar
<1>13. CASE Cleanup(p)
  <2>1. partials' \subseteq [taken : Nat, mtime : Nat]
    BY <1>13 DEF Cleanup, OtherPartials
  <2>2. \E o \in OpRecord : Moved(p, o)
    BY <1>4, <1>13 DEF Cleanup
  <2>3. QED
    BY <1>13, <2>1, <2>2, TypeOps DEF Cleanup
<1>14. QED
  BY <1>7, <1>8, <1>9, <1>10, <1>11, <1>12, <1>13

LEMMA NamesTyped == TypeOK => Names \subseteq Nat
<1> SUFFICES ASSUME TypeOK, NEW n \in Names PROVE n \in Nat
  OBVIOUS
<1>1. PICK a \in archives : n = a.taken
  BY DEF Names
<1>2. a \in [taken : Nat, gen : Nat]
  BY <1>1 DEF TypeOK
<1>3. QED
  BY <1>1, <1>2

LEMMA ExcessTyped ==
    ASSUME NEW names, NEW k PROVE Excess(names, k) \subseteq names
BY DEF Excess

LEMMA TypePrune ==
    ASSUME TypeOK, NEW p \in Proc,
           \/ PruneList(p) \/ PruneEnd(p)
           \/ \E n \in op[p].todo : PruneUnlink(p, n)
    PROVE  TypeOK'
<1>a. Names \subseteq Nat
  BY NamesTyped
<1> USE DEF TypeOK
<1>0. /\ op[p] \in OpRecord /\ (Holding(op[p]) <=> lock = p) /\ ByHand(op[p])
      /\ None \notin Proc
  BY BackupAssumption DEF BackupAssumption
<1>1. op[p].pc \in {"prune", "unlink"} /\ lock' = lock
  BY DEF PruneList, PruneEnd, PruneUnlink
<1>2. Holding(op[p]) <=> op[p].kind # "prune"
  BY <1>1 DEF Holding, Working
<1>3. ASSUME NEW todo \in SUBSET Nat, NEW pc \in {"prune", "unlink"},
             Become(p, [op[p] EXCEPT !.pc = pc, !.todo = todo])
      PROVE  \E o \in OpRecord : Moved(p, o)
  <2> DEFINE o == [op[p] EXCEPT !.pc = pc, !.todo = todo]
  <2>1. o \in OpRecord /\ o.pc = pc /\ o.kind = op[p].kind
    BY <1>0 DEF OpRecord
  <2>2. op' = [op EXCEPT ![p] = o]
    BY <1>3 DEF Become
  <2> HIDE DEF o
  <2>3. QED
    BY <1>0, <1>1, <1>2, <2>1, <2>2 DEF Moved, Holding, Working, ByHand
<1>4. ASSUME NEW pc \in {"cleanup", "unlock"}, Go(p, pc), op[p].kind # "prune"
      PROVE  \E o \in OpRecord : Moved(p, o)
  <2>1. PICK o \in OpRecord : /\ o.pc = pc /\ o.kind = op[p].kind
                              /\ op' = [op EXCEPT ![p] = o]
    BY <1>4, GoTyped
  <2>2. QED
    BY <1>0, <1>1, <1>2, <1>4, <2>1 DEF Moved, Holding, Working, ByHand
<1>5. ASSUME Become(p, Idle), op[p].kind = "prune"
      PROVE  \E o \in OpRecord : Moved(p, o)
  BY <1>0, <1>1, <1>2, <1>5, IdleTyped DEF Become, Moved
<1>6. CASE PruneList(p)
  <2>1. partials' \subseteq partials
    BY <1>6 DEF PruneList
  <2>2. faults' \in Nat
    <3>1. faults' = faults \/ faults' = faults + 1
      BY <1>6, Zenon DEF PruneList, Fault
    <3>2. QED
      BY <3>1
  <2>3. \E o \in OpRecord : Moved(p, o)
    <3>1. \/ Go(p, "cleanup") /\ op[p].kind # "prune"
          \/ \E k : Become(p, [op[p] EXCEPT !.pc = "unlink",
                                            !.todo = Excess(Names, k)])
      BY <1>6, Zenon DEF PruneList
    <3>2. CASE Go(p, "cleanup") /\ op[p].kind # "prune"
      BY <1>4, <3>2
    <3>3. ASSUME NEW k, Become(p, [op[p] EXCEPT !.pc = "unlink",
                                               !.todo = Excess(Names, k)])
          PROVE  \E o \in OpRecord : Moved(p, o)
      <4>1. Excess(Names, k) \in SUBSET Nat /\ "unlink" \in {"prune", "unlink"}
        BY <1>a, ExcessTyped
      <4>2. QED
        BY <1>3, <3>3, <4>1, Zenon
    <3>4. QED
      BY <3>1, <3>2, <3>3
  <2>5. QED
    BY <1>6, <2>1, <2>2, <2>3, TypeOps DEF PruneList
<1>7. CASE PruneEnd(p)
  <2>1. faults' \in Nat
    BY <1>7 DEF PruneEnd, Fault
  <2>2. \E o \in OpRecord : Moved(p, o)
    <3>1. \/ Become(p, Idle) /\ op[p].kind = "prune"
          \/ op[p].kind # "prune" /\ \E pc \in {"cleanup", "unlock"} : Go(p, pc)
      BY <1>7 DEF PruneEnd
    <3>2. QED
      BY <1>4, <1>5, <3>1
  <2>3. QED
    BY <1>7, <2>1, <2>2, TypeOps DEF PruneEnd, Directory
<1>8. ASSUME NEW n \in op[p].todo, PruneUnlink(p, n) PROVE TypeOK'
  <2>1. archives' \subseteq archives /\ sidecars' \subseteq sidecars
    BY <1>8 DEF PruneUnlink
  <2>2. \E o \in OpRecord : Moved(p, o)
    <3> DEFINE o == [op[p] EXCEPT !.todo = @ \ {n}]
    <3>1. o \in OpRecord /\ o.pc = op[p].pc /\ o.kind = op[p].kind
      BY <1>0 DEF OpRecord
    <3>2. op' = [op EXCEPT ![p] = o]
      BY <1>8 DEF PruneUnlink, Become
    <3> HIDE DEF o
    <3>3. QED
      BY <1>0, <1>1, <1>2, <3>1, <3>2 DEF Moved, Holding, Working, ByHand
  <2>3. QED
    BY <1>8, <2>1, <2>2, TypeOps DEF PruneUnlink
<1>9. QED
  BY <1>6, <1>7, <1>8

LEMMA TypeStep == TypeOK /\ [Next]_vars => TypeOK'
<1> SUFFICES ASSUME TypeOK, [Next]_vars PROVE TypeOK'
  OBVIOUS
<1>1. CASE Tick
  BY <1>1 DEF Tick, TypeOK, Directory
<1>2. CASE Crash
  <2>1. \A p \in Proc : op'[p] = Idle
    BY <1>2 DEF Crash
  <2>2. op' \in [Proc -> OpRecord] /\ faults' \in Nat
    BY <1>2, IdleTyped DEF Crash, Fault, TypeOK
  <2>3. QED
    BY <1>2, <2>1, <2>2, IdleTyped, BackupAssumption
       DEF Crash, TypeOK, Directory, BackupAssumption
<1>3. ASSUME NEW n \in Names, Delete(n) PROVE TypeOK'
  <2>1. Names \subseteq Nat
    BY NamesTyped
  <2>2. QED
    BY <1>3, <2>1 DEF Delete, TypeOK
<1>4. ASSUME NEW p \in Proc, NEW kind \in Kinds, Start(p, kind) PROVE TypeOK'
  BY <1>4, TypeControl
<1>5. ASSUME NEW p \in Proc, Step(p) PROVE TypeOK'
  BY <1>5, TypeControl, TypeSave, TypeWork, TypePrune DEF Step
<1>6. CASE UNCHANGED vars
  BY <1>6 DEF vars, TypeOK
<1>7. QED
  BY <1>1, <1>2, <1>3, <1>4, <1>5, <1>6 DEF Next

\* Runs exclude each other, whatever crashes and fails, and every variable
\* keeps its type.
THEOREM TypeCorrect == Spec => []TypeOK
BY TypeInit, TypeStep, PTL DEF Spec

(***************************************************************************)
(* Keys.  The identity is generated once: from the first complete one on   *)
(* it stays what it is, because only a holder of the lock that found no    *)
(* file generates, and every run and download that read a complete one     *)
(* read that one.                                                          *)
(***************************************************************************)
Fits(id) == id.whole => identity.whole /\ id.gen = identity.gen

KeyInv ==
    /\ identity.gen = 0 => ~identity.whole
    /\ Decryptable
    /\ \A id \in handed : Fits(id)
    /\ \A p \in Proc :
         /\ op[p].pc = "keygen" => identity.gen # 0 /\ ~identity.whole
         /\ op[p].pc \in {"dump", "stream", "rename"} =>
               identity.whole /\ op[p].id = identity
         /\ op[p].pc \in {"read", "write"} /\ op[p].why = "key" =>
               Fits(op[p].id)

\* What a step that moves only p's record, and generates nothing, must show.
LEMMA KeyKept ==
    ASSUME TypeOK, KeyInv, NEW p \in Proc,
           op' \in [Proc -> OpRecord],
           \A q \in Proc : q # p => op'[q] = op[q],
           identity' = identity, archives' \subseteq archives,
           \A id \in handed' : Fits(id),
           op'[p].pc # "keygen",
           op'[p].pc \in {"dump", "stream", "rename"} =>
               identity.whole /\ op'[p].id = identity,
           op'[p].pc \in {"read", "write"} /\ op'[p].why = "key" =>
               Fits(op'[p].id)
    PROVE  KeyInv'
<1>1. Decryptable'
  BY DEF KeyInv, Decryptable
<1>2. \A id \in handed' : Fits(id)'
  BY DEF Fits
<1>3. ASSUME NEW q \in Proc
      PROVE  /\ op'[q].pc = "keygen" => identity'.gen # 0 /\ ~identity'.whole
             /\ op'[q].pc \in {"dump", "stream", "rename"} =>
                   identity'.whole /\ op'[q].id = identity'
             /\ op'[q].pc \in {"read", "write"} /\ op'[q].why = "key" =>
                   (op'[q].id.whole =>
                       identity'.whole /\ op'[q].id.gen = identity'.gen)
  <2>1. CASE q = p
    BY <2>1 DEF Fits
  <2>2. CASE q # p
    BY <2>2 DEF KeyInv, Fits
  <2>3. QED
    BY <2>1, <2>2
<1>4. QED
  BY <1>1, <1>2, <1>3 DEF KeyInv, Fits

\* The record after Go, Save and a return to Idle.
LEMMA GoRecord ==
    ASSUME TypeOK, NEW p \in Proc, NEW pc, Go(p, pc)
    PROVE  /\ op'[p].pc = pc /\ op'[p].why = op[p].why /\ op'[p].id = op[p].id
           /\ \A q \in Proc : q # p => op'[q] = op[q]
BY DEF TypeOK, Go, Become, OpRecord

LEMMA SaveRecord ==
    ASSUME TypeOK, NEW p \in Proc, NEW why, Save(p, why)
    PROVE  /\ op'[p].pc = "read" /\ op'[p].why = why /\ op'[p].id = op[p].id
           /\ \A q \in Proc : q # p => op'[q] = op[q]
BY DEF TypeOK, Save, Become, OpRecord

LEMMA IdleRecord ==
    ASSUME TypeOK, NEW p \in Proc, Become(p, Idle)
    PROVE  /\ op'[p].pc = "idle"
           /\ \A q \in Proc : q # p => op'[q] = op[q]
BY DEF TypeOK, Become, Idle

\* The steps of p that neither generate an identity nor use one.
LEMMA KeyControl ==
    ASSUME TypeOK, KeyInv, NEW p \in Proc, op' \in [Proc -> OpRecord],
           \/ Preflight(p) \/ Release(p) \/ Stamp(p) \/ Lock(p) \/ Refused(p)
           \/ Dump(p) \/ Stream(p) \/ Sidecar(p) \/ Cleanup(p) \/ Unlock(p)
           \/ PruneEnd(p)
    PROVE  KeyInv'
<1>1. identity' = identity /\ handed' = handed /\ archives' = archives
  BY DEF Preflight, Release, Stamp, Lock, Refused, Dump, Stream, Sidecar,
         Cleanup, Unlock, PruneEnd, Directory
<1>2. /\ \A q \in Proc : q # p => op'[q] = op[q]
      /\ op'[p].pc # "keygen"
      /\ op'[p].pc \in {"dump", "stream", "rename"} =>
            /\ op[p].pc \in {"dump", "stream", "rename"}
            /\ op'[p].id = op[p].id
      /\ op'[p].pc \in {"read", "write"} => op'[p].why # "key"
  <2>1. CASE Preflight(p)
    BY <2>1, GoRecord DEF Preflight
  <2>2. CASE Release(p)
    BY <2>2, GoRecord DEF Release
  <2>3. CASE Stamp(p)
    BY <2>3 DEF Stamp, Become, TypeOK, OpRecord
  <2>4. CASE Lock(p)
    BY <2>4, GoRecord, SaveRecord DEF Lock
  <2>5. CASE Refused(p)
    BY <2>5, SaveRecord, IdleRecord DEF Refused
  <2>6. CASE Dump(p)
    BY <2>6, GoRecord DEF Dump
  <2>7. CASE Stream(p)
    BY <2>7, GoRecord DEF Stream
  <2>8. CASE Sidecar(p)
    BY <2>8, GoRecord, SaveRecord DEF Sidecar
  <2>9. CASE Cleanup(p)
    BY <2>9, SaveRecord DEF Cleanup
  <2>10. CASE Unlock(p)
    BY <2>10, IdleRecord DEF Unlock
  <2>11. CASE PruneEnd(p)
    BY <2>11, GoRecord, IdleRecord DEF PruneEnd
  <2>12. QED
    BY <2>1, <2>2, <2>3, <2>4, <2>5, <2>6, <2>7, <2>8, <2>9, <2>10, <2>11
<1>3. \A id \in handed' : Fits(id)
  BY <1>1 DEF KeyInv
<1>4. op'[p].pc \in {"dump", "stream", "rename"} =>
         identity.whole /\ op'[p].id = identity
  BY <1>2 DEF KeyInv
<1>5. QED
  BY <1>1, <1>2, <1>3, <1>4, KeyKept

\* Starting, the state file, pruning and downloading.
LEMMA KeyFiles ==
    ASSUME TypeOK, KeyInv, NEW p \in Proc, op' \in [Proc -> OpRecord],
           \/ \E kind \in Kinds : Start(p, kind)
           \/ ReadState(p) \/ WriteState(p) \/ PruneList(p) \/ CopyKey(p)
           \/ \E n \in op[p].todo : PruneUnlink(p, n)
    PROVE  KeyInv'
<1>0. op[p] \in OpRecord /\ \A id \in handed : Fits(id)
  BY DEF TypeOK, KeyInv
<1>1. ASSUME NEW kind \in Kinds, Start(p, kind) PROVE KeyInv'
  <2>1. /\ op'[p].pc \notin {"keygen", "dump", "stream", "rename", "read",
                             "write"}
        /\ \A q \in Proc : q # p => op'[q] = op[q]
    <3>1. FirstStep(kind) \in {"stamp", "preflight", "prune", "copy"}
      BY BackupAssumption DEF BackupAssumption, FirstStep, RunKinds
    <3>2. [Idle EXCEPT !.kind = kind, !.pc = FirstStep(kind)].pc
             = FirstStep(kind)
      BY DEF Idle
    <3>3. QED
      BY <1>1, <3>1, <3>2 DEF Start, Become, TypeOK
  <2>2. identity' = identity /\ archives' = archives /\ handed' = handed
    BY <1>1 DEF Start, Directory
  <2>3. QED
    BY <1>0, <2>1, <2>2, KeyKept
<1>2. CASE ReadState(p)
  <2>1. /\ op[p].pc = "read"
        /\ op'[p].pc = "write" /\ op'[p].why = op[p].why
        /\ op'[p].id = op[p].id
        /\ \A q \in Proc : q # p => op'[q] = op[q]
    BY <1>2 DEF ReadState, Become, TypeOK, OpRecord
  <2>2. identity' = identity /\ archives' = archives /\ handed' = handed
    BY <1>2 DEF ReadState, Directory
  <2>3. op[p].why = "key" => Fits(op[p].id)
    BY <2>1 DEF KeyInv
  <2>4. QED
    BY <1>0, <2>1, <2>2, <2>3, KeyKept
<1>3. CASE WriteState(p)
  <2>1. /\ op'[p].pc \in {"key", "prune", "unlock", "idle", "cleanup"}
        /\ \A q \in Proc : q # p => op'[q] = op[q]
    <3>1. Reported(op[p]).pc \in {"key", "prune", "unlock", "idle"}
      BY <1>0 DEF Reported, Idle, OpRecord
    <3>2. CASE Become(p, Reported(op[p]))
      BY <3>1, <3>2 DEF Become, TypeOK
    <3>3. CASE \E pc \in {"cleanup", "unlock"} : Go(p, pc)
      BY <3>3, GoRecord
    <3>4. CASE Become(p, Idle)
      BY <3>4, IdleRecord
    <3>5. QED
      BY <1>3, <3>2, <3>3, <3>4 DEF WriteState
  <2>2. identity' = identity /\ archives' = archives
    BY <1>3 DEF WriteState, Directory
  <2>3. \A id \in handed' : Fits(id)
    <3>1. op[p].why = "key" => Fits(op[p].id)
      BY <1>3 DEF WriteState, KeyInv
    <3>2. handed' \in {handed, handed \cup {op[p].id}}
          /\ (handed' # handed => op[p].why = "key")
      BY <1>3 DEF WriteState
    <3>3. QED
      BY <1>0, <3>1, <3>2
  <2>4. QED
    BY <2>1, <2>2, <2>3, KeyKept
<1>4. CASE PruneList(p)
  <2>1. /\ op'[p].pc \in {"unlink", "cleanup"}
        /\ \A q \in Proc : q # p => op'[q] = op[q]
    <3>1. CASE Go(p, "cleanup")
      BY <3>1, GoRecord
    <3>2. CASE \E k : Become(p, [op[p] EXCEPT !.pc = "unlink",
                                              !.todo = Excess(Names, k)])
      BY <1>0, <3>2 DEF Become, TypeOK, OpRecord
    <3>3. QED
      BY <1>4, <3>1, <3>2 DEF PruneList
  <2>2. identity' = identity /\ archives' = archives /\ handed' = handed
    BY <1>4 DEF PruneList
  <2>3. QED
    BY <1>0, <2>1, <2>2, KeyKept
<1>5. CASE CopyKey(p)
  <2>1. /\ \/ op'[p].pc = "idle"
           \/ op'[p].pc = "read" /\ op'[p].id = identity
        /\ \A q \in Proc : q # p => op'[q] = op[q]
    <3>1. CASE Become(p, Idle)
      BY <3>1, IdleRecord
    <3>2. CASE Become(p, [op[p] EXCEPT !.pc = "read", !.why = "key",
                                       !.id = identity])
      BY <1>0, <3>2 DEF Become, TypeOK, OpRecord
    <3>3. QED
      BY <1>5, <3>1, <3>2 DEF CopyKey
  <2>2. identity' = identity /\ archives' = archives /\ handed' = handed
    BY <1>5 DEF CopyKey, Directory
  <2>3. Fits(identity)
    BY DEF Fits
  <2>4. QED
    BY <1>0, <2>1, <2>2, <2>3, KeyKept
<1>6. ASSUME NEW n \in op[p].todo, PruneUnlink(p, n) PROVE KeyInv'
  <2>1. /\ op'[p].pc = "unlink"
        /\ \A q \in Proc : q # p => op'[q] = op[q]
    BY <1>0, <1>6 DEF PruneUnlink, Become, TypeOK, OpRecord
  <2>2. /\ identity' = identity /\ archives' \subseteq archives
        /\ handed' = handed
    BY <1>6 DEF PruneUnlink
  <2>3. QED
    BY <1>0, <2>1, <2>2, KeyKept
<1>7. QED
  BY <1>1, <1>2, <1>3, <1>4, <1>5, <1>6

\* Only one process generates: it holds the lock, and so nobody else is at it.
LEMMA OneGenerates ==
    ASSUME TypeOK, NEW p \in Proc, NEW q \in Proc,
           op[p].pc = "keygen", op[q].pc = "keygen"
    PROVE  p = q
BY DEF TypeOK, Holding, Working

\* The steps that generate the identity and those that encrypt for it.
LEMMA KeyIdentity ==
    ASSUME TypeOK, KeyInv, NEW p \in Proc, op' \in [Proc -> OpRecord],
           LoadOrCreate(p) \/ Keygen(p) \/ Rename(p)
    PROVE  KeyInv'
<1>0. /\ op[p] \in OpRecord /\ identity \in Identity
      /\ \A id \in handed : Fits(id)
  BY DEF TypeOK, KeyInv
<1>1. CASE LoadOrCreate(p)
  <2>0. archives' = archives /\ handed' = handed
    BY <1>1 DEF LoadOrCreate, Directory
  <2>1. CASE /\ identity.gen = 0
             /\ identity' = [gen |-> 1, whole |-> FALSE]
             /\ Go(p, "keygen")
    <3>1. ~identity.whole
      BY <2>1 DEF KeyInv
    <3>2. archives = {}
      BY <3>1 DEF KeyInv, Decryptable
    <3>3. \A id : Fits(id) => ~id.whole
      BY <3>1 DEF Fits
    <3>4. /\ op'[p].pc = "keygen" /\ \A q \in Proc : q # p => op'[q] = op[q]
      BY <2>1, GoRecord
    <3>5. ASSUME NEW q \in Proc
          PROVE  /\ op'[q].pc \notin {"dump", "stream", "rename"}
                 /\ op'[q].pc \in {"read", "write"} /\ op'[q].why = "key" =>
                       ~op'[q].id.whole
      BY <3>1, <3>3, <3>4 DEF KeyInv
    <3>6. identity'.gen = 1 /\ ~identity'.whole
      BY <2>1
    <3>7. QED
      BY <1>0, <2>0, <3>2, <3>3, <3>5, <3>6 DEF KeyInv, Decryptable, Fits
  <2>2. CASE /\ identity.whole
             /\ Become(p, [op[p] EXCEPT !.pc = "dump", !.id = identity])
             /\ UNCHANGED identity
    <3>1. /\ op'[p].pc = "dump" /\ op'[p].id = identity
          /\ \A q \in Proc : q # p => op'[q] = op[q]
      BY <1>0, <2>2 DEF Become, TypeOK, OpRecord
    <3>2. QED
      BY <1>0, <2>0, <2>2, <3>1, KeyKept
  <2>3. CASE Go(p, "cleanup") /\ UNCHANGED identity
    <3>1. op'[p].pc = "cleanup" /\ \A q \in Proc : q # p => op'[q] = op[q]
      BY <2>3, GoRecord
    <3>2. QED
      BY <1>0, <2>0, <2>3, <3>1, KeyKept
  <2>4. QED
    BY <1>1, <2>1, <2>2, <2>3 DEF LoadOrCreate
<1>2. CASE Keygen(p)
  <2>0. archives' = archives /\ handed' = handed /\ op[p].pc = "keygen"
    BY <1>2 DEF Keygen, Directory
  <2>1. ~identity.whole
    BY <2>0 DEF KeyInv
  <2>2. CASE /\ identity' = [identity EXCEPT !.whole = TRUE]
             /\ Become(p, [op[p] EXCEPT !.pc = "dump", !.id = identity'])
    <3>1. archives = {}
      BY <2>1 DEF KeyInv, Decryptable
    <3>2. \A id : Fits(id) => ~id.whole
      BY <2>1 DEF Fits
    <3>3. /\ op'[p].pc = "dump" /\ op'[p].id = identity'
          /\ \A q \in Proc : q # p => op'[q] = op[q]
      BY <1>0, <2>2 DEF Become, TypeOK, OpRecord
    <3>4. ASSUME NEW q \in Proc, q # p
          PROVE  /\ op'[q].pc \notin {"keygen", "dump", "stream", "rename"}
                 /\ op'[q].pc \in {"read", "write"} /\ op'[q].why = "key" =>
                       ~op'[q].id.whole
      BY <2>0, <2>1, <3>2, <3>3, <3>4, OneGenerates DEF KeyInv
    <3>5. identity'.gen = identity.gen /\ identity'.whole
      BY <1>0, <2>2 DEF Identity
    <3>6. identity.gen # 0
      BY <2>0 DEF KeyInv
    <3>7. \A id \in handed : ~id.whole
      BY <1>0, <3>2
    <3>8. QED
      BY <2>0, <3>1, <3>3, <3>4, <3>5, <3>6, <3>7
         DEF KeyInv, Decryptable, Fits
  <2>3. CASE Go(p, "cleanup") /\ UNCHANGED identity
    <3>1. op'[p].pc = "cleanup" /\ \A q \in Proc : q # p => op'[q] = op[q]
      BY <2>3, GoRecord
    <3>2. QED
      BY <1>0, <2>0, <2>3, <3>1, KeyKept
  <2>4. QED
    BY <1>2, <2>2, <2>3 DEF Keygen
<1>3. CASE Rename(p)
  <2>1. identity.whole /\ op[p].id = identity
    BY <1>3 DEF Rename, KeyInv
  <2>2. identity' = identity /\ handed' = handed
    BY <1>3 DEF Rename
  <2>3. /\ op'[p].pc \in {"sidecar", "cleanup"}
        /\ \A q \in Proc : q # p => op'[q] = op[q]
    BY <1>3, GoRecord DEF Rename
  <2>4. \A a \in archives' : a \in archives \/ a.gen = identity.gen
    BY <1>3, <2>1 DEF Rename
  <2>5. Decryptable'
    BY <2>1, <2>2, <2>4 DEF KeyInv, Decryptable
  <2>6. QED
    BY <1>0, <2>2, <2>3, <2>5 DEF KeyInv, Fits
<1>4. QED
  BY <1>1, <1>2, <1>3

LEMMA KeyStep == TypeOK /\ TypeOK' /\ KeyInv /\ [Next]_vars => KeyInv'
<1> SUFFICES ASSUME TypeOK, TypeOK', KeyInv, [Next]_vars PROVE KeyInv'
  OBVIOUS
<1>0. op' \in [Proc -> OpRecord]
  BY DEF TypeOK
<1>1. CASE Tick
  BY <1>1 DEF Tick, Directory, KeyInv, Decryptable, Fits
<1>2. CASE Crash
  <2>1. \A p \in Proc : op'[p].pc = "idle"
    BY <1>2 DEF Crash, Idle
  <2>2. QED
    BY <1>2, <2>1 DEF Crash, Directory, KeyInv, Decryptable, Fits
<1>3. ASSUME NEW n \in Names, Delete(n) PROVE KeyInv'
  BY <1>3 DEF Delete, KeyInv, Decryptable, Fits
<1>4. ASSUME NEW p \in Proc, NEW kind \in Kinds, Start(p, kind) PROVE KeyInv'
  BY <1>0, <1>4, KeyFiles
<1>5. ASSUME NEW p \in Proc, Step(p) PROVE KeyInv'
  BY <1>0, <1>5, KeyControl, KeyFiles, KeyIdentity DEF Step
<1>6. CASE UNCHANGED vars
  BY <1>6 DEF vars, KeyInv, Decryptable, Fits
<1>7. QED
  BY <1>1, <1>2, <1>3, <1>4, <1>5, <1>6 DEF Next

LEMMA KeyAlways == Spec => [](TypeOK /\ KeyInv)
<1>1. Init => KeyInv
  <2>1. NoFile.gen = 0 /\ ~NoFile.whole /\ Idle.pc = "idle"
    BY DEF NoFile, Idle
  <2>2. QED
    BY <2>1 DEF Init, KeyInv, Decryptable
<1>2. QED
  BY <1>1, TypeInit, TypeStep, KeyStep, PTL DEF Spec

\* load_or_create never replaces an identity that archives depend on: whatever
\* runs, downloads, crashes and fails, every archive can be decrypted.
THEOREM ArchivesDecryptable == Spec => []Decryptable
<1>1. KeyInv => Decryptable
  BY DEF KeyInv
<1>2. QED
  BY <1>1, KeyAlways, PTL

\* A complete key that a download returned opens every archive for ever.
THEOREM DownloadedKeysOpen == Spec => []DownloadedKeyOpens
<1>1. KeyInv => DownloadedKeyOpens
  BY DEF KeyInv, Decryptable, DownloadedKeyOpens, Fits
<1>2. QED
  BY <1>1, KeyAlways, PTL


(***************************************************************************)
(* Retention.  What a prune has listed was in excess when it was listed;   *)
(* since archives only become more, it is in excess of every retention     *)
(* when it is unlinked, whoever else prunes and deletes meanwhile.         *)
(***************************************************************************)
\* Floor is the smallest number of archives any prune keeps.
LEMMA FloorIsLeast ==
    /\ Floor \in Nat
    /\ \A k \in {Keep} \cup PruneKeeps : Floor <= k
<1> DEFINE K == {Keep} \cup PruneKeeps
<1>1. K \subseteq Nat /\ K # {}
  BY BackupAssumption DEF BackupAssumption
<1>2. PICK m \in K : \A k \in K : <<k, m>> \notin OpToRel(<, Nat)
  BY <1>1, WFMin, NatLessThanWellFounded, Zenon
<1>3. \A k \in K : ~(k < m)
  BY <1>1, <1>2, Zenon DEF OpToRel
<1>4. \A k \in K : m <= k
  BY <1>1, <1>3
<1>5. Floor \in K /\ \A k \in K : Floor <= k
  BY <1>4 DEF Floor
<1>6. QED
  BY <1>1, <1>5

\* Of more names, at least as many are newer than a given one.
LEMMA NewerGrows ==
    ASSUME NEW S, NEW T, S \subseteq T, IsFiniteSet(T), NEW n
    PROVE  /\ Cardinality(Newer(S, n)) \in Nat
           /\ Cardinality(Newer(T, n)) \in Nat
           /\ Cardinality(Newer(S, n)) <= Cardinality(Newer(T, n))
<1>1. Newer(T, n) \in SUBSET T /\ Newer(S, n) \in SUBSET Newer(T, n)
  BY DEF Newer
<1>2. IsFiniteSet(Newer(T, n))
  BY <1>1, FS_Subset
<1>3. IsFiniteSet(Newer(S, n))
  BY <1>1, <1>2, FS_Subset
<1>4. QED
  BY <1>1, <1>2, <1>3, FS_Subset, FS_CardinalityType

RetainInv ==
    /\ IsFiniteSet(made)
    /\ Names \subseteq made
    /\ \A p \in Proc : op[p].pc = "unlink" =>
           \A n \in op[p].todo : Cardinality(Newer(made, n)) >= Floor
    /\ RetentionFloor

\* A step that leaves the archives alone and lists nothing new.
LEMMA RetainKept ==
    ASSUME RetainInv, UNCHANGED <<archives, made, removed>>,
           \A p \in Proc : op'[p].pc = "unlink" =>
               op[p].pc = "unlink" /\ op'[p].todo \subseteq op[p].todo
    PROVE  RetainInv'
<1>1. UNCHANGED Names /\ \A n : UNCHANGED Newer(made, n)
  BY DEF Names, Newer
<1>2. QED
  BY <1>1 DEF RetainInv, RetentionFloor

\* The steps of p that do: all but the rename and those of a prune.
LEMMA RetainControl ==
    ASSUME TypeOK, RetainInv, NEW p \in Proc,
           \/ Preflight(p) \/ Release(p) \/ Stamp(p) \/ Lock(p) \/ Refused(p)
           \/ ReadState(p) \/ WriteState(p)
           \/ LoadOrCreate(p) \/ Keygen(p) \/ Dump(p) \/ Stream(p)
           \/ Sidecar(p) \/ Cleanup(p) \/ Unlock(p)
           \/ PruneEnd(p) \/ CopyKey(p)
           \/ \E kind \in Kinds : Start(p, kind)
    PROVE  RetainInv'
<1>0. op[p] \in OpRecord
  BY DEF TypeOK
<1>1. UNCHANGED <<archives, made, removed>>
  BY DEF Preflight, Release, Stamp, Lock, Refused, ReadState, WriteState,
         LoadOrCreate, Keygen, Dump, Stream, Sidecar, Cleanup, Unlock, PruneEnd,
         CopyKey, Start, Directory
<1>2. (\A q \in Proc : q # p => op'[q] = op[q]) /\ op'[p].pc # "unlink"
  <2>1. CASE Preflight(p) \/ Release(p) \/ Lock(p) \/ Refused(p)
    BY <2>1, GoRecord, SaveRecord, IdleRecord DEF Preflight, Release, Lock, Refused
  <2>2. CASE Stamp(p) \/ ReadState(p)
    <3>1. \/ Become(p, [op[p] EXCEPT !.pc = "lock", !.file = now])
          \/ Become(p, [op[p] EXCEPT !.pc = "write", !.seen = state])
      BY <2>2 DEF Stamp, ReadState
    <3>2. /\ [op[p] EXCEPT !.pc = "lock", !.file = now].pc = "lock"
          /\ [op[p] EXCEPT !.pc = "write", !.seen = state].pc = "write"
      BY <1>0 DEF OpRecord
    <3>3. QED
      BY <3>1, <3>2 DEF Become, TypeOK
  <2>3. CASE WriteState(p)
    <3>1. CASE Become(p, Reported(op[p]))
      <4>1. Reported(op[p]).pc \in {"key", "prune", "unlock", "idle"}
        BY <1>0 DEF Reported, OpRecord, Idle
      <4>2. QED
        BY <3>1, <4>1 DEF Become, TypeOK
    <3>2. QED
      BY <2>3, <3>1, <1>0, GoRecord, IdleRecord DEF WriteState, OpRecord
  <2>4. CASE LoadOrCreate(p) \/ Keygen(p)
    <3>1. CASE \E pc \in {"keygen", "cleanup"} : Go(p, pc)
      BY <3>1, GoRecord
    <3>2. CASE \E id : Become(p, [op[p] EXCEPT !.pc = "dump", !.id = id])
      BY <3>2, <1>0 DEF Become, TypeOK, OpRecord
    <3>3. QED
      BY <2>4, <3>1, <3>2 DEF LoadOrCreate, Keygen
  <2>5. CASE Dump(p) \/ Stream(p) \/ Sidecar(p) \/ Cleanup(p)
    BY <2>5, GoRecord, SaveRecord DEF Dump, Stream, Sidecar, Cleanup
  <2>6. CASE Unlock(p) \/ PruneEnd(p)
    BY <2>6, GoRecord, IdleRecord DEF Unlock, PruneEnd
  <2>7. CASE CopyKey(p)
    <3> DEFINE o == [op[p] EXCEPT !.pc = "read", !.why = "key", !.id = identity]
    <3>1. o.pc = "read"
      BY <1>0 DEF OpRecord
    <3>2. Become(p, Idle) \/ Become(p, o)
      BY <2>7 DEF CopyKey
    <3> HIDE DEF o
    <3>3. CASE Become(p, o)
      BY <3>1, <3>3 DEF Become, TypeOK
    <3>4. QED
      BY <3>2, <3>3, IdleRecord
  <2>8. ASSUME NEW kind \in Kinds, Start(p, kind)
        PROVE  (\A q \in Proc : q # p => op'[q] = op[q]) /\ op'[p].pc # "unlink"
    <3>1. kind \in {"cli", "api", "dash", "prune", "key"}
      BY BackupAssumption DEF BackupAssumption, RunKinds
    <3>2. FirstStep(kind) # "unlink"
      BY <3>1 DEF FirstStep
    <3>3. QED
      BY <2>8, <3>2 DEF Start, Become, TypeOK, Idle
  <2>9. QED
    BY <2>1, <2>2, <2>3, <2>4, <2>5, <2>6, <2>7, <2>8
<1>3. QED
  BY <1>1, <1>2, RetainKept

\* os.replace completes an archive: of all others at least as many are newer.
LEMMA RetainRename ==
    ASSUME TypeOK, RetainInv, NEW p \in Proc, Rename(p)
    PROVE  RetainInv'
<1> DEFINE n == op[p].file
<1>0. op[p] \in OpRecord /\ n \in Nat
  BY DEF TypeOK, OpRecord
<1>1. (\A q \in Proc : q # p => op'[q] = op[q]) /\ op'[p].pc # "unlink"
  BY GoRecord DEF Rename
<1>2. CASE ~\E x \in partials : x.taken = n
  BY <1>1, <1>2, RetainKept DEF Rename
<1>3. CASE \E x \in partials : x.taken = n
  <2>1. /\ archives' = {a \in archives : a.taken # n}
                         \cup {[taken |-> n, gen |-> op[p].id.gen]}
        /\ made' = made \cup {n} /\ removed' = removed \ {n}
    BY <1>3 DEF Rename
  <2>2. Names' = Names \cup {n}
    <3> DEFINE new == [taken |-> n, gen |-> op[p].id.gen]
    <3>1. new.taken = n
      OBVIOUS
    <3>2. archives' = {a \in archives : a.taken # n} \cup {new}
      BY <2>1
    <3> HIDE DEF new, n
    <3>3. QED
      BY <3>1, <3>2 DEF Names
  <2>3. IsFiniteSet(made') /\ Names' \subseteq made' /\ made \subseteq made'
    BY <2>1, <2>2, FS_AddElement DEF RetainInv
  <2>4. \A m : /\ Cardinality(Newer(made, m)) \in Nat
               /\ Cardinality(Newer(made', m)) \in Nat
               /\ Cardinality(Newer(made, m)) <= Cardinality(Newer(made', m))
    BY <2>3, NewerGrows
  <2>5. ASSUME NEW q \in Proc, op'[q].pc = "unlink", NEW m \in op'[q].todo
        PROVE  Cardinality(Newer(made', m)) >= Floor
    <3>1. Cardinality(Newer(made, m)) >= Floor
      BY <1>1, <2>5 DEF RetainInv
    <3>2. QED
      BY <2>4, <3>1, FloorIsLeast
  <2>6. ASSUME NEW m \in made' \ removed', Cardinality(Newer(made', m)) < Floor
        PROVE  m \in Names'
    <3>1. CASE m = n
      BY <2>2, <3>1
    <3>2. CASE m # n
      <4>1. m \in made \ removed
        BY <2>1, <3>2
      <4>2. Cardinality(Newer(made, m)) < Floor
        BY <2>4, <2>6, FloorIsLeast
      <4>3. QED
        BY <2>2, <4>1, <4>2 DEF RetainInv, RetentionFloor
    <3>3. QED
      BY <3>1, <3>2
  <2>7. \A m : Newer(made, m)' = Newer(made', m)
    BY DEF Newer
  <2>8. RetentionFloor'
    BY <2>6, <2>7 DEF RetentionFloor
  <2>9. QED
    BY <2>3, <2>5, <2>7, <2>8 DEF RetainInv
<1>4. QED
  BY <1>2, <1>3

\* A prune lists archives in excess and unlinks what it has listed.
LEMMA RetainPrune ==
    ASSUME TypeOK, RetainInv, NEW p \in Proc,
           PruneList(p) \/ \E n \in op[p].todo : PruneUnlink(p, n)
    PROVE  RetainInv'
<1>0. op[p] \in OpRecord /\ op \in [Proc -> OpRecord]
  BY DEF TypeOK
<1>1. CASE PruneList(p)
  <2>1. UNCHANGED <<archives, made, removed>>
    BY <1>1 DEF PruneList
  <2>2. CASE Go(p, "cleanup")
    BY <2>1, <2>2, GoRecord, RetainKept
  <2>3. ASSUME NEW k \in {Keep} \cup PruneKeeps,
               Become(p, [op[p] EXCEPT !.pc = "unlink", !.todo = Excess(Names, k)])
        PROVE  RetainInv'
    <3>1. ASSUME NEW n \in Excess(Names, k)
          PROVE  Cardinality(Newer(made, n)) >= Floor
      <4>1. Cardinality(Newer(Names, n)) >= k
        BY DEF Excess
      <4>2. /\ Cardinality(Newer(Names, n)) \in Nat
            /\ Cardinality(Newer(made, n)) \in Nat
            /\ Cardinality(Newer(Names, n)) <= Cardinality(Newer(made, n))
        BY NewerGrows DEF RetainInv
      <4>3. Floor \in Nat /\ Floor <= k /\ k \in Nat
        BY FloorIsLeast, BackupAssumption DEF BackupAssumption
      <4>4. QED
        BY <4>1, <4>2, <4>3
    <3>2. /\ op'[p].todo = Excess(Names, k)
          /\ \A q \in Proc : q # p => op'[q] = op[q]
      BY <1>0, <2>3 DEF Become, OpRecord
    <3>3. UNCHANGED Names /\ \A n : UNCHANGED Newer(made, n)
      BY <2>1 DEF Names, Newer
    <3>4. ASSUME NEW q \in Proc, op'[q].pc = "unlink", NEW n \in op'[q].todo
          PROVE  Cardinality(Newer(made, n)) >= Floor
      BY <3>1, <3>2, <3>4 DEF RetainInv
    <3>5. QED
      BY <2>1, <3>3, <3>4 DEF RetainInv, RetentionFloor
  <2>4. QED
    BY <1>1, <2>2, <2>3 DEF PruneList
<1>2. ASSUME NEW n \in op[p].todo, PruneUnlink(p, n) PROVE RetainInv'
  <2>1. op[p].pc = "unlink" /\ archives' = {a \in archives : a.taken # n}
        /\ UNCHANGED <<made, removed>>
        /\ Become(p, [op[p] EXCEPT !.todo = @ \ {n}])
    BY <1>2 DEF PruneUnlink
  <2>2. Cardinality(Newer(made, n)) >= Floor
    BY <2>1 DEF RetainInv
  <2>3. Cardinality(Newer(made, n)) \in Nat /\ Floor \in Nat
    BY NewerGrows, FloorIsLeast DEF RetainInv
  <2>4. Names' = Names \ {n}
    BY <2>1 DEF Names
  <2>5. \A m : UNCHANGED Newer(made, m)
    BY <2>1 DEF Newer
  <2>6. \A q \in Proc : op'[q].pc = op[q].pc /\ op'[q].todo \subseteq op[q].todo
    BY <1>0, <2>1 DEF Become, OpRecord
  <2>7. RetentionFloor'
    BY <2>1, <2>2, <2>3, <2>4, <2>5 DEF RetainInv, RetentionFloor
  <2>8. QED
    BY <2>1, <2>4, <2>5, <2>6, <2>7 DEF RetainInv
<1>3. QED
  BY <1>1, <1>2

LEMMA RetainStep == TypeOK /\ RetainInv /\ [Next]_vars => RetainInv'
<1> SUFFICES ASSUME TypeOK, RetainInv, [Next]_vars PROVE RetainInv'
  OBVIOUS
<1>1. CASE Tick \/ UNCHANGED vars
  BY <1>1, RetainKept DEF Tick, Directory, vars
<1>2. CASE Crash
  <2>1. \A p \in Proc : op'[p].pc = "idle"
    BY <1>2 DEF Crash, Idle
  <2>2. QED
    BY <1>2, <2>1, RetainKept DEF Crash, Directory
<1>3. ASSUME NEW n \in Names, Delete(n) PROVE RetainInv'
  <2>1. /\ archives' = {a \in archives : a.taken # n}
        /\ removed' = removed \cup {n} /\ UNCHANGED <<made, op>>
    BY <1>3 DEF Delete
  <2>2. Names' = Names \ {n} /\ \A m : UNCHANGED Newer(made, m)
    BY <2>1 DEF Names, Newer
  <2>3. QED
    BY <2>1, <2>2 DEF RetainInv, RetentionFloor
<1>4. ASSUME NEW p \in Proc, NEW kind \in Kinds, Start(p, kind) PROVE RetainInv'
  BY <1>4, RetainControl
<1>5. ASSUME NEW p \in Proc, Step(p) PROVE RetainInv'
  BY <1>5, RetainControl, RetainRename, RetainPrune DEF Step
<1>6. QED
  BY <1>1, <1>2, <1>3, <1>4, <1>5 DEF Next

LEMMA RetainInit == Init => RetainInv
<1> SUFFICES ASSUME Init PROVE RetainInv
  OBVIOUS
<1>1. IsFiniteSet(made) /\ made = {} /\ Names = {}
  BY FS_EmptySet DEF Init, Names
<1>2. \A p \in Proc : op[p].pc = "idle"
  BY DEF Init, Idle
<1>3. QED
  BY <1>1, <1>2 DEF RetainInv, RetentionFloor

\* One of the newest archives is gone only if an administrator deleted it, for
\* any number of runs, manual prunes and deletions at the same time.
THEOREM NewestArchivesStay == Spec => []RetentionFloor
<1>1. RetainInv => RetentionFloor
  BY DEF RetainInv
<1>2. QED
  BY <1>1, RetainInit, TypeInit, TypeStep, RetainStep, PTL DEF Spec


(***************************************************************************)
(* Outcomes.  The events of a run are emitted in the steps that write its  *)
(* status: a run that prunes has written success, and one that fails in    *)
(* any step writes failed on its way to the lock.  Writing may not fail,   *)
(* for the exception it raises skips the event.                            *)
(***************************************************************************)
DiskHasRoom == "disk" \notin FaultKinds

\* A run that has come to its own prune, or to its end, has reported.
HasReported(o) ==
    /\ o.pc \in {"prune", "unlink"} /\ o.kind # "prune" => "completed" \in o.said
    /\ o.pc = "unlock" => o.said \cap {"completed", "failed"} # {}

OutcomeInv == \A p \in Proc : HasReported(op[p])

\* A step that leaves one record in such a state.
LEMMA OutcomeKept ==
    ASSUME TypeOK, OutcomeInv, NEW p \in Proc,
           \/ UNCHANGED op
           \/ \E o : Become(p, o) /\ HasReported(o)
           \/ \E pc : /\ Go(p, pc)
                      /\ pc \notin {"prune", "unlink", "unlock"}
           \/ \E why : Save(p, why)
    PROVE  OutcomeInv'
<1>0. op \in [Proc -> OpRecord]
  BY DEF TypeOK
<1>1. CASE UNCHANGED op
  BY <1>1 DEF OutcomeInv
<1>2. ASSUME NEW o, Become(p, o), HasReported(o) PROVE OutcomeInv'
  BY <1>0, <1>2 DEF OutcomeInv, Become
<1>3. ASSUME NEW pc, Go(p, pc), pc \notin {"prune", "unlink", "unlock"}
      PROVE  OutcomeInv'
  BY <1>3, GoRecord DEF OutcomeInv, HasReported
<1>4. ASSUME NEW why, Save(p, why) PROVE OutcomeInv'
  BY <1>4, SaveRecord DEF OutcomeInv, HasReported
<1>5. QED
  BY <1>1, <1>2, <1>3, <1>4

LEMMA IdleReported == HasReported(Idle)
BY DEF HasReported, Idle

LEMMA OutcomeStep ==
    ASSUME DiskHasRoom
    PROVE  TypeOK /\ OutcomeInv /\ [Next]_vars => OutcomeInv'
<1> SUFFICES ASSUME TypeOK, OutcomeInv, [Next]_vars PROVE OutcomeInv'
  OBVIOUS
<1>1. CASE Tick \/ UNCHANGED vars \/ \E n \in Names : Delete(n)
  BY <1>1 DEF Tick, Delete, vars, OutcomeInv
<1>2. CASE Crash
  <2>1. \A p \in Proc : op'[p] = Idle
    BY <1>2 DEF Crash
  <2>2. QED
    BY <2>1, IdleReported DEF OutcomeInv
<1>3. ASSUME NEW p \in Proc, NEW kind \in Kinds, Start(p, kind) PROVE OutcomeInv'
  <2> DEFINE o == [Idle EXCEPT !.kind = kind, !.pc = FirstStep(kind)]
  <2>1. kind \in {"cli", "api", "dash", "prune", "key"}
    BY BackupAssumption DEF BackupAssumption, RunKinds
  <2>2. /\ FirstStep(kind) \in {"stamp", "preflight", "prune", "copy"}
        /\ FirstStep(kind) = "prune" => kind = "prune"
    BY <2>1 DEF FirstStep
  <2>3. o.kind = kind /\ o.pc = FirstStep(kind)
    BY DEF Idle
  <2>4. Become(p, o)
    BY <1>3 DEF Start
  <2> HIDE DEF o
  <2>5. HasReported(o)
    BY <2>2, <2>3 DEF HasReported
  <2>6. QED
    BY <2>4, <2>5, OutcomeKept
<1>4. ASSUME NEW p \in Proc, Step(p) PROVE OutcomeInv'
  <2> DEFINE o == op[p]
  <2>0. o \in OpRecord /\ HasReported(o)
    BY DEF TypeOK, OutcomeInv
  <2>1. CASE Preflight(p) \/ Release(p) \/ Lock(p) \/ Refused(p) \/ Unlock(p)
    BY <2>1, OutcomeKept, IdleReported DEF Preflight, Release, Lock, Refused, Unlock
  <2>2. CASE Dump(p) \/ Stream(p) \/ Rename(p) \/ Sidecar(p) \/ Cleanup(p)
    BY <2>2, OutcomeKept DEF Dump, Stream, Rename, Sidecar, Cleanup
  <2>3. CASE Stamp(p) \/ ReadState(p)
    <3>1. /\ HasReported([o EXCEPT !.pc = "lock", !.file = now])
          /\ HasReported([o EXCEPT !.pc = "write", !.seen = state])
      BY <2>0 DEF HasReported, OpRecord
    <3>2. \/ Become(p, [o EXCEPT !.pc = "lock", !.file = now])
          \/ Become(p, [o EXCEPT !.pc = "write", !.seen = state])
      BY <2>3 DEF Stamp, ReadState
    <3>3. QED
      BY <3>1, <3>2, OutcomeKept
  <2>4. CASE WriteState(p)
    <3>1. Become(p, Reported(o))
      BY <2>4 DEF WriteState, Fault, DiskHasRoom
    <3>2. CASE o.why \in {"lost", "key"}
      <4>1. Reported(o) = Idle
        BY <3>2 DEF Reported
      <4>2. QED
        BY <3>1, <4>1, IdleReported, OutcomeKept
    <3>3. CASE o.why = "running"
      <4>1. Reported(o) = [o EXCEPT !.pc = "key", !.said = {"started"}]
        BY <3>3 DEF Reported
      <4>2. HasReported(Reported(o))
        BY <2>0, <4>1 DEF HasReported, OpRecord
      <4>3. QED
        BY <3>1, <4>2, OutcomeKept
    <3>4. CASE o.why = "success"
      <4>1. Reported(o) = [o EXCEPT !.pc = "prune", !.said = @ \cup {"completed"}]
        BY <3>4 DEF Reported
      <4>2. HasReported(Reported(o))
        BY <2>0, <4>1 DEF HasReported, OpRecord
      <4>3. QED
        BY <3>1, <4>2, OutcomeKept
    <3>5. CASE o.why = "failed"
      <4>1. Reported(o) = [o EXCEPT !.pc = "unlock", !.said = @ \cup {"failed"}]
        BY <3>5 DEF Reported
      <4>2. HasReported(Reported(o))
        BY <2>0, <4>1 DEF HasReported, OpRecord
      <4>3. QED
        BY <3>1, <4>2, OutcomeKept
    <3>6. QED
      BY <2>0, <3>2, <3>3, <3>4, <3>5 DEF OpRecord
  <2>5. CASE LoadOrCreate(p) \/ Keygen(p)
    <3>1. \A id : HasReported([o EXCEPT !.pc = "dump", !.id = id])
      BY <2>0 DEF HasReported, OpRecord
    <3>2. \/ Go(p, "keygen") \/ Go(p, "cleanup")
          \/ \E x : Become(p, x) /\ HasReported(x)
      BY <2>5, <3>1 DEF LoadOrCreate, Keygen
    <3>3. QED
      BY <3>2, OutcomeKept
  <2>6. CASE PruneList(p)
    <3>1. o.pc = "prune"
      BY <2>6 DEF PruneList
    <3>2. \A t : HasReported([o EXCEPT !.pc = "unlink", !.todo = t])
      BY <2>0, <3>1 DEF HasReported, OpRecord
    <3>3. \/ Go(p, "cleanup")
          \/ \E x : Become(p, x) /\ HasReported(x)
      BY <2>6, <3>2 DEF PruneList
    <3>4. QED
      BY <3>3, OutcomeKept
  <2>7. ASSUME NEW n \in o.todo, PruneUnlink(p, n) PROVE OutcomeInv'
    <3>1. HasReported([o EXCEPT !.todo = @ \ {n}])
      BY <2>0 DEF HasReported, OpRecord
    <3>2. Become(p, [o EXCEPT !.todo = @ \ {n}])
      BY <2>7 DEF PruneUnlink
    <3>3. QED
      BY <3>1, <3>2, OutcomeKept
  <2>8. CASE PruneEnd(p)
    <3>1. o.kind # "prune" => HasReported([o EXCEPT !.pc = "unlock"])
      BY <2>0, <2>8 DEF PruneEnd, HasReported, OpRecord
    <3>2. \/ Become(p, Idle) \/ Go(p, "cleanup")
          \/ o.kind # "prune" /\ Become(p, [o EXCEPT !.pc = "unlock"])
      BY <2>8 DEF PruneEnd, Go
    <3>3. QED
      BY <3>1, <3>2, IdleReported, OutcomeKept
  <2>9. CASE CopyKey(p)
    <3> DEFINE x == [o EXCEPT !.pc = "read", !.why = "key", !.id = identity]
    <3>1. HasReported(x)
      BY <2>0 DEF HasReported, OpRecord
    <3>2. Become(p, Idle) \/ Become(p, x)
      BY <2>9 DEF CopyKey
    <3> HIDE DEF x
    <3>3. QED
      BY <3>1, <3>2, IdleReported, OutcomeKept
  <2>10. QED
    BY <1>4, <2>1, <2>2, <2>3, <2>4, <2>5, <2>6, <2>7, <2>8, <2>9 DEF Step
<1>5. QED
  BY <1>1, <1>2, <1>3, <1>4 DEF Next

\* A run emits backup.completed or backup.failed before it releases the lock,
\* whichever of its steps failed, as long as .state.json can be written.
THEOREM OutcomesAreReported ==
    ASSUME DiskHasRoom
    PROVE  Spec => []OutcomeReported
<1>1. Init => OutcomeInv
  BY IdleReported DEF Init, OutcomeInv
<1>2. OutcomeInv => OutcomeReported
  BY DEF OutcomeInv, HasReported, OutcomeReported
<1>3. QED
  BY <1>1, <1>2, TypeInit, TypeStep, OutcomeStep, PTL DEF Spec

(***************************************************************************)
(* Ends.  Left falls with every step of a handler, except where a prune    *)
(* unlinks, and there what is left to unlink shrinks.                      *)
(***************************************************************************)
\* Left, spelt out.
LEMMA LeftValues ==
    ASSUME NEW o
    PROVE  /\ o.pc = "unlock" => Left(o) = 1
           /\ o.pc = "write" /\ o.why = "running" => Left(o) = 15
           /\ o.pc = "write" /\ o.why = "success" => Left(o) = 7
           /\ o.pc = "write" /\ o.why \notin {"running", "success"} => Left(o) = 2
           /\ o.pc = "read" /\ o.why = "running" => Left(o) = 16
           /\ o.pc = "read" /\ o.why = "success" => Left(o) = 8
           /\ o.pc = "read" /\ o.why \notin {"running", "success"} => Left(o) = 3
           /\ o.pc \in {"cleanup", "refused", "beaten", "copy"} => Left(o) = 4
           /\ o.pc = "unlink" => Left(o) = 5
           /\ o.pc = "prune" => Left(o) = 6
           /\ o.pc = "sidecar" => Left(o) = 9
           /\ o.pc = "rename" => Left(o) = 10
           /\ o.pc = "stream" => Left(o) = 11
           /\ o.pc = "dump" => Left(o) = 12
           /\ o.pc = "keygen" => Left(o) = 13
           /\ o.pc = "key" => Left(o) = 14
           /\ o.pc = "lock" => Left(o) = 17
           /\ o.pc = "stamp" => Left(o) = 18
           /\ o.pc = "release" => Left(o) = 19
           /\ o.pc = "preflight" => Left(o) = 20
<1>1. o.pc = "unlock" => Left(o) = 1
  BY DEF Left
<1>2. o.pc = "write" /\ o.why = "running" => Left(o) = 15
  BY DEF Left
<1>3. o.pc = "write" /\ o.why = "success" => Left(o) = 7
  BY DEF Left
<1>4. o.pc = "write" /\ o.why \notin {"running", "success"} => Left(o) = 2
  BY DEF Left
<1>5. o.pc = "read" /\ o.why = "running" => Left(o) = 16
  BY DEF Left
<1>6. o.pc = "read" /\ o.why = "success" => Left(o) = 8
  BY DEF Left
<1>7. o.pc = "read" /\ o.why \notin {"running", "success"} => Left(o) = 3
  BY DEF Left
<1>8. o.pc \in {"cleanup", "refused", "beaten", "copy"} => Left(o) = 4
  BY DEF Left
<1>9. o.pc = "unlink" => Left(o) = 5
  BY DEF Left
<1>10. o.pc = "prune" => Left(o) = 6
  BY DEF Left
<1>11. o.pc = "sidecar" => Left(o) = 9
  BY DEF Left
<1>12. o.pc = "rename" => Left(o) = 10
  BY DEF Left
<1>13. o.pc = "stream" => Left(o) = 11
  BY DEF Left
<1>14. o.pc = "dump" => Left(o) = 12
  BY DEF Left
<1>15. o.pc = "keygen" => Left(o) = 13
  BY DEF Left
<1>16. o.pc = "key" => Left(o) = 14
  BY DEF Left
<1>17. o.pc = "lock" => Left(o) = 17
  BY DEF Left
<1>18. o.pc = "stamp" => Left(o) = 18
  BY DEF Left
<1>19. o.pc = "release" => Left(o) = 19
  BY DEF Left
<1>20. o.pc = "preflight" => Left(o) = 20
  BY DEF Left
<1>21. QED
  BY <1>1, <1>2, <1>3, <1>4, <1>5, <1>6, <1>7, <1>8, <1>9, <1>10, <1>11, <1>12, <1>13,
     <1>14, <1>15, <1>16, <1>17, <1>18, <1>19, <1>20

\* Writing the state file.
LEMMA WriteNearer ==
    ASSUME TypeOK, NEW p \in Proc, WriteState(p)
    PROVE  Nearer(op[p], op'[p])
<1> DEFINE o == op[p]
<1>0. o \in OpRecord /\ op \in [Proc -> OpRecord] /\ o.pc = "write"
  BY DEF TypeOK, WriteState
<1>1. CASE Become(p, Reported(o))
  <2>1. op'[p] = Reported(o)
    BY <1>0, <1>1 DEF Become
  <2>2. CASE o.why = "running"
    <3>1. op'[p].pc = "key"
      BY <1>0, <2>1, <2>2 DEF Reported, OpRecord
    <3>2. QED
      BY <1>0, <2>2, <3>1, LeftValues DEF Nearer
  <2>3. CASE o.why = "success"
    <3>1. op'[p].pc = "prune"
      BY <1>0, <2>1, <2>3 DEF Reported, OpRecord
    <3>2. QED
      BY <1>0, <2>3, <3>1, LeftValues DEF Nearer
  <2>4. CASE o.why = "failed"
    <3>1. op'[p].pc = "unlock"
      BY <1>0, <2>1, <2>4 DEF Reported, OpRecord
    <3>2. QED
      BY <1>0, <2>4, <3>1, LeftValues DEF Nearer
  <2>5. CASE o.why \in {"lost", "key"}
    BY <2>1, <2>5 DEF Reported, Nearer
  <2>6. QED
    BY <1>0, <2>2, <2>3, <2>4, <2>5 DEF OpRecord
<1>2. CASE o.why = "success" /\ Go(p, "cleanup")
  BY <1>0, <1>2, GoRecord, LeftValues DEF Nearer
<1>3. CASE o.why \in {"running", "failed"} /\ Go(p, "unlock")
  BY <1>0, <1>3, GoRecord, LeftValues DEF Nearer
<1>4. CASE Become(p, Idle)
  BY <1>0, <1>4 DEF Become, Nearer
<1>5. QED
  BY <1>0, <1>1, <1>2, <1>3, <1>4 DEF WriteState, OpRecord

\* Every step of a handler.
LEMMA StepNearer ==
    ASSUME TypeOK, NEW p \in Proc, Step(p)
    PROVE  Nearer(op[p], op'[p])
<1> DEFINE o == op[p]
<1>0. o \in OpRecord /\ op \in [Proc -> OpRecord]
  BY DEF TypeOK
<1>i. Become(p, Idle) => Nearer(o, op'[p])
  BY <1>0 DEF Become, Nearer
<1>1. CASE Preflight(p) \/ Release(p)
  BY <1>1, GoRecord, LeftValues DEF Preflight, Release, Nearer
<1>2. CASE Stamp(p)
  <2>1. op'[p].pc = "lock" /\ o.pc = "stamp"
    BY <1>0, <1>2 DEF Stamp, Become, OpRecord
  <2>2. QED
    BY <2>1, LeftValues DEF Nearer
<1>3. CASE Lock(p)
  <2>1. o.pc = "lock" /\ (op'[p].pc = "beaten"
                          \/ (op'[p].pc = "read" /\ op'[p].why = "running"))
    <3>1. Go(p, "beaten") => op'[p].pc = "beaten"
      BY GoRecord
    <3>2. Save(p, "running") => op'[p].pc = "read" /\ op'[p].why = "running"
      BY SaveRecord
    <3>3. QED
      BY <1>3, <3>1, <3>2 DEF Lock
  <2>2. Left(o) = 17 /\ Left(op'[p]) \in {4, 16}
    BY <2>1, LeftValues
  <2>3. QED
    BY <2>2 DEF Nearer
<1>4. CASE Refused(p)
  <2>1. CASE Save(p, "lost")
    <3>1. /\ o.pc \in {"refused", "beaten"}
          /\ op'[p].pc = "read" /\ op'[p].why = "lost"
      BY <1>4, <2>1, SaveRecord DEF Refused
    <3>2. QED
      BY <3>1, LeftValues DEF Nearer
  <2>2. QED
    BY <1>4, <1>i, <2>1 DEF Refused
<1>5. CASE ReadState(p)
  <2>1. o.pc = "read" /\ op'[p].pc = "write" /\ op'[p].why = o.why
    BY <1>0, <1>5 DEF ReadState, Become, OpRecord
  <2>2. QED
    BY <2>1, LeftValues DEF Nearer
<1>6. CASE WriteState(p)
  BY <1>6, WriteNearer
<1>7. CASE LoadOrCreate(p)
  <2>1. o.pc = "key" /\ op'[p].pc \in {"keygen", "dump", "cleanup"}
    <3>1. Become(p, [o EXCEPT !.pc = "dump", !.id = identity])
             => op'[p].pc = "dump"
      BY <1>0 DEF Become, OpRecord
    <3>2. o.pc = "key" /\ \/ Go(p, "keygen") \/ Go(p, "cleanup")
                          \/ Become(p, [o EXCEPT !.pc = "dump", !.id = identity])
      BY <1>7 DEF LoadOrCreate
    <3>3. QED
      BY <3>1, <3>2, GoRecord
  <2>2. Left(o) = 14 /\ Left(op'[p]) \in {13, 12, 4}
    BY <2>1, LeftValues
  <2>3. QED
    BY <2>2 DEF Nearer
<1>8. CASE Keygen(p)
  <2>1. o.pc = "keygen" /\ op'[p].pc \in {"dump", "cleanup"}
    <3>1. Become(p, [o EXCEPT !.pc = "dump", !.id = identity'])
             => op'[p].pc = "dump"
      BY <1>0 DEF Become, OpRecord
    <3>2. o.pc = "keygen"
          /\ \/ Go(p, "cleanup")
             \/ Become(p, [o EXCEPT !.pc = "dump", !.id = identity'])
      BY <1>8 DEF Keygen
    <3>3. QED
      BY <3>1, <3>2, GoRecord
  <2>2. Left(o) = 13 /\ Left(op'[p]) \in {12, 4}
    BY <2>1, LeftValues
  <2>3. QED
    BY <2>2 DEF Nearer
<1>9. CASE Dump(p) \/ Stream(p) \/ Rename(p)
  <2>1. \/ o.pc = "dump" /\ op'[p].pc \in {"stream", "cleanup"}
        \/ o.pc = "stream" /\ op'[p].pc \in {"rename", "cleanup"}
        \/ o.pc = "rename" /\ op'[p].pc \in {"sidecar", "cleanup"}
    BY <1>9, GoRecord DEF Dump, Stream, Rename
  <2>2. \/ Left(o) = 12 /\ Left(op'[p]) \in {11, 4}
        \/ Left(o) = 11 /\ Left(op'[p]) \in {10, 4}
        \/ Left(o) = 10 /\ Left(op'[p]) \in {9, 4}
    BY <2>1, LeftValues
  <2>3. QED
    BY <2>2 DEF Nearer
<1>10. CASE Sidecar(p)
  <2>1. o.pc = "sidecar" /\ (op'[p].pc = "cleanup"
                             \/ (op'[p].pc = "read" /\ op'[p].why = "success"))
    <3>1. Go(p, "cleanup") => op'[p].pc = "cleanup"
      BY GoRecord
    <3>2. Save(p, "success") => op'[p].pc = "read" /\ op'[p].why = "success"
      BY SaveRecord
    <3>3. QED
      BY <1>10, <3>1, <3>2 DEF Sidecar
  <2>2. Left(o) = 9 /\ Left(op'[p]) \in {4, 8}
    BY <2>1, LeftValues
  <2>3. QED
    BY <2>2 DEF Nearer
<1>11. CASE Cleanup(p)
  <2>1. o.pc = "cleanup" /\ op'[p].pc = "read" /\ op'[p].why = "failed"
    BY <1>11, SaveRecord DEF Cleanup
  <2>2. QED
    BY <2>1, LeftValues DEF Nearer
<1>12. CASE Unlock(p)
  BY <1>12, <1>i DEF Unlock
<1>13. CASE PruneList(p)
  <2>1. CASE Go(p, "cleanup")
    <3>1. op'[p].pc = "cleanup" /\ o.pc = "prune"
      BY <1>13, <2>1, GoRecord DEF PruneList
    <3>2. Left(o) = 6 /\ Left(op'[p]) = 4
      BY <3>1, LeftValues
    <3>3. QED
      BY <3>2 DEF Nearer
  <2>2. ASSUME NEW t, Become(p, [o EXCEPT !.pc = "unlink", !.todo = t])
        PROVE  Nearer(o, op'[p])
    <3>1. op'[p].pc = "unlink" /\ o.pc = "prune"
      BY <1>0, <1>13, <2>2 DEF PruneList, Become, OpRecord
    <3>2. QED
      BY <3>1, LeftValues DEF Nearer
  <2>3. QED
    BY <1>13, <2>1, <2>2 DEF PruneList
<1>14. ASSUME NEW n \in o.todo, PruneUnlink(p, n) PROVE Nearer(o, op'[p])
  <2>1. /\ o.pc = "unlink" /\ op'[p].pc = "unlink"
        /\ op'[p].todo = o.todo \ {n}
    BY <1>0, <1>14 DEF PruneUnlink, Become, OpRecord
  <2>2. QED
    BY <2>1 DEF Nearer
<1>15. CASE PruneEnd(p)
  <2>1. Become(p, Idle) \/ op'[p].pc \in {"unlock", "cleanup"}
    BY <1>15, GoRecord DEF PruneEnd
  <2>2. o.pc = "unlink"
    BY <1>15 DEF PruneEnd
  <2>3. Left(o) = 5 /\ (op'[p].pc \in {"unlock", "cleanup"}
                            => Left(op'[p]) \in {1, 4})
    BY <2>2, LeftValues
  <2>4. QED
    BY <1>i, <2>1, <2>3 DEF Nearer
<1>16. CASE CopyKey(p)
  <2>1. CASE Become(p, Idle)
    BY <1>i, <2>1
  <2>2. CASE Become(p, [o EXCEPT !.pc = "read", !.why = "key", !.id = identity])
    <3>1. o.pc = "copy" /\ op'[p].pc = "read" /\ op'[p].why = "key"
      BY <1>0, <1>16, <2>2 DEF CopyKey, Become, OpRecord
    <3>2. QED
      BY <3>1, LeftValues DEF Nearer
  <2>3. QED
    BY <1>16, <2>1, <2>2 DEF CopyKey
<1>17. QED
  BY <1>1, <1>2, <1>3, <1>4, <1>5, <1>6, <1>7, <1>8, <1>9, <1>10, <1>11, <1>12,
     <1>13, <1>14, <1>15, <1>16 DEF Step

\* A step of one handler leaves the others where they are.
LEMMA OthersStay ==
    ASSUME TypeOK, NEW p \in Proc, Step(p), NEW q \in Proc, q # p
    PROVE  op'[q] = op[q]
<1>0. op \in [Proc -> OpRecord]
  BY DEF TypeOK
<1>1. \E o : op' = [op EXCEPT ![p] = o]
  BY DEF Step, Preflight, Release, Stamp, Lock, Refused, ReadState, WriteState,
         LoadOrCreate, Keygen, Dump, Stream, Rename, Sidecar, Cleanup, Unlock,
         PruneList, PruneUnlink, PruneEnd, CopyKey, Go, Save, Become
<1>2. QED
  BY <1>0, <1>1

\* No step of a run, a prune or a download is ever tried again: each brings it
\* nearer to its end, whatever fails and whoever else is at work.
THEOREM HandlersComeToAnEnd == Spec => HandlersEnd
<1>1. TypeOK /\ [Next]_vars => [Onward]_vars
  <2> SUFFICES ASSUME TypeOK, [Next]_vars PROVE Onward \/ UNCHANGED vars
    OBVIOUS
  <2>0. op \in [Proc -> OpRecord]
    BY DEF TypeOK
  <2>1. CASE Tick \/ \E n \in Names : Delete(n)
    BY <2>1 DEF Tick, Delete, Onward
  <2>2. CASE Crash
    BY <2>2 DEF Crash, Nearer, Onward
  <2>3. ASSUME NEW p \in Proc, NEW kind \in Kinds, Start(p, kind) PROVE Onward
    BY <2>0, <2>3 DEF Start, Become, Onward
  <2>4. ASSUME NEW p \in Proc, Step(p) PROVE Onward
    BY <2>4, StepNearer, OthersStay DEF Onward
  <2>5. QED
    BY <2>1, <2>2, <2>3, <2>4 DEF Next
<1>2. QED
  BY <1>1, TypeInit, TypeStep, PTL DEF Spec, HandlersEnd

(***************************************************************************)
(* Successes.  A success is recorded by a run whose archive is complete,   *)
(* and what others write back they have read; archives completed stay      *)
(* completed.  That they also stay in the directory is the retention.      *)
(***************************************************************************)
\* What a reader of this record believes is so.
Recorded(st) == st.last.status = "success" => st.last.file \in made

SuccessInv ==
    /\ Recorded(state)
    /\ \A p \in Proc :
         /\ op[p].pc = "write" => Recorded(op[p].seen)
         /\ op[p].pc \in {"read", "write"} /\ op[p].why = "success" =>
               op[p].file \in made

\* What a step of p must show.
LEMMA SuccessKept ==
    ASSUME SuccessInv, NEW p \in Proc,
           \A q \in Proc : q # p => op'[q] = op[q],
           made \subseteq made', Recorded(state'),
           op'[p].pc = "write" => Recorded(op'[p].seen),
           op'[p].pc \in {"read", "write"} /\ op'[p].why = "success" =>
               op'[p].file \in made
    PROVE  SuccessInv'
<1>1. \A st : Recorded(st) => (st.last.status = "success" => st.last.file \in made')
  BY DEF Recorded
<1>2. ASSUME NEW q \in Proc
      PROVE  /\ op'[q].pc = "write" => Recorded(op'[q].seen)
             /\ op'[q].pc \in {"read", "write"} /\ op'[q].why = "success" =>
                   op'[q].file \in made
  <2>1. CASE q = p
    BY <2>1
  <2>2. CASE q # p
    BY <2>2 DEF SuccessInv
  <2>3. QED
    BY <2>1, <2>2
<1>3. \A q \in Proc :
        /\ op'[q].pc = "write" =>
              (op'[q].seen.last.status = "success" =>
                  op'[q].seen.last.file \in made')
        /\ op'[q].pc \in {"read", "write"} /\ op'[q].why = "success" =>
              op'[q].file \in made'
  BY <1>1, <1>2
<1>4. Recorded(state)'
  BY <1>1 DEF Recorded
<1>5. QED
  BY <1>3, <1>4 DEF SuccessInv, Recorded

\* The steps of p that save nothing, and those that begin to save no success.
LEMMA SuccessControl ==
    ASSUME TypeOK, SuccessInv, NEW p \in Proc,
           \/ Preflight(p) \/ Release(p) \/ Stamp(p) \/ Lock(p) \/ Refused(p)
           \/ LoadOrCreate(p) \/ Keygen(p) \/ Dump(p) \/ Stream(p) \/ Rename(p)
           \/ Cleanup(p) \/ Unlock(p) \/ PruneList(p) \/ PruneEnd(p)
           \/ CopyKey(p)
           \/ \E n \in op[p].todo : PruneUnlink(p, n)
           \/ \E kind \in Kinds : Start(p, kind)
    PROVE  SuccessInv'
<1>0. op[p] \in OpRecord /\ op \in [Proc -> OpRecord]
  BY DEF TypeOK
<1>1. made \subseteq made' /\ state' = state
  BY DEF Preflight, Release, Stamp, Lock, Refused, LoadOrCreate, Keygen, Dump,
         Stream, Rename, Cleanup, Unlock, PruneList, PruneEnd, CopyKey,
         PruneUnlink, Start, Directory
<1>2. /\ \A q \in Proc : q # p => op'[q] = op[q]
      /\ op'[p].pc # "write"
      /\ op'[p].pc = "read" => op'[p].why # "success"
  <2>1. CASE Preflight(p) \/ Release(p) \/ Dump(p) \/ Stream(p) \/ Rename(p)
    BY <2>1, GoRecord DEF Preflight, Release, Dump, Stream, Rename
  <2>2. CASE Stamp(p)
    BY <2>2, <1>0 DEF Stamp, Become, OpRecord
  <2>3. CASE Lock(p) \/ Refused(p) \/ Cleanup(p)
    BY <2>3, GoRecord, SaveRecord, IdleRecord DEF Lock, Refused, Cleanup
  <2>4. CASE LoadOrCreate(p) \/ Keygen(p)
    <3>1. CASE \E pc \in {"keygen", "cleanup"} : Go(p, pc)
      BY <3>1, GoRecord
    <3>2. CASE \E id : Become(p, [op[p] EXCEPT !.pc = "dump", !.id = id])
      BY <3>2, <1>0 DEF Become, OpRecord
    <3>3. QED
      BY <2>4, <3>1, <3>2 DEF LoadOrCreate, Keygen
  <2>5. CASE Unlock(p) \/ PruneEnd(p)
    BY <2>5, GoRecord, IdleRecord DEF Unlock, PruneEnd
  <2>6. CASE PruneList(p)
    <3>1. CASE Go(p, "cleanup")
      BY <3>1, GoRecord
    <3>2. CASE \E k : Become(p, [op[p] EXCEPT !.pc = "unlink",
                                              !.todo = Excess(Names, k)])
      BY <1>0, <3>2 DEF Become, OpRecord
    <3>3. QED
      BY <2>6, <3>1, <3>2 DEF PruneList
  <2>7. ASSUME NEW n \in op[p].todo, PruneUnlink(p, n)
        PROVE  (\A q \in Proc : q # p => op'[q] = op[q]) /\ op'[p].pc = "unlink"
    BY <2>7, <1>0 DEF PruneUnlink, Become, OpRecord
  <2>8. CASE CopyKey(p)
    <3> DEFINE o == [op[p] EXCEPT !.pc = "read", !.why = "key", !.id = identity]
    <3>1. o.pc = "read" /\ o.why = "key"
      BY <1>0 DEF OpRecord
    <3>2. Become(p, Idle) \/ Become(p, o)
      BY <2>8 DEF CopyKey
    <3> HIDE DEF o
    <3>3. CASE Become(p, o)
      BY <3>1, <3>3, <1>0 DEF Become
    <3>4. QED
      BY <3>2, <3>3, IdleRecord
  <2>9. ASSUME NEW kind \in Kinds, Start(p, kind)
        PROVE  /\ \A q \in Proc : q # p => op'[q] = op[q]
               /\ op'[p].pc \notin {"read", "write"}
    <3>1. kind \in {"cli", "api", "dash", "prune", "key"}
      BY BackupAssumption DEF BackupAssumption, RunKinds
    <3>2. FirstStep(kind) \notin {"read", "write"}
      BY <3>1 DEF FirstStep
    <3>3. QED
      BY <2>9, <3>2, <1>0 DEF Start, Become, Idle
  <2>10. QED
    BY <2>1, <2>2, <2>3, <2>4, <2>5, <2>6, <2>7, <2>8, <2>9
<1>3. QED
  BY <1>1, <1>2, SuccessKept DEF SuccessInv

\* The steps that save one: the digest is written, the state read and replaced.
LEMMA SuccessSave ==
    ASSUME TypeOK, SuccessInv, Names \subseteq made, NEW p \in Proc,
           Sidecar(p) \/ ReadState(p) \/ WriteState(p)
    PROVE  SuccessInv'
<1> DEFINE o == op[p]
<1>0. o \in OpRecord /\ op \in [Proc -> OpRecord] /\ Recorded(state)
      /\ made' = made
  BY DEF TypeOK, SuccessInv, Sidecar, ReadState, WriteState, Directory
<1>1. CASE Sidecar(p)
  <2>1. state' = state
    BY <1>1 DEF Sidecar
  <2>2. CASE Go(p, "cleanup")
    BY <1>0, <2>1, <2>2, GoRecord, SuccessKept
  <2>3. CASE o.file \in Names /\ Save(p, "success")
    <3>1. op'[p].file = o.file /\ op'[p].pc = "read"
          /\ \A q \in Proc : q # p => op'[q] = op[q]
      BY <1>0, <2>3 DEF Save, Become, OpRecord
    <3>2. QED
      BY <1>0, <2>1, <2>3, <3>1, SuccessKept
  <2>4. QED
    BY <1>1, <2>2, <2>3 DEF Sidecar
<1>2. CASE ReadState(p)
  <2>1. /\ op'[p].seen = state /\ op'[p].file = o.file /\ op'[p].why = o.why
        /\ \A q \in Proc : q # p => op'[q] = op[q]
    BY <1>0, <1>2 DEF ReadState, Become, OpRecord
  <2>2. state' = state /\ (o.why = "success" => o.file \in made)
    BY <1>2 DEF ReadState, SuccessInv
  <2>3. QED
    BY <1>0, <2>1, <2>2, SuccessKept
<1>3. CASE WriteState(p)
  <2>1. /\ op'[p].pc \notin {"read", "write"}
        /\ \A q \in Proc : q # p => op'[q] = op[q]
    <3>1. Reported(o).pc \in {"key", "prune", "unlock", "idle"}
      BY <1>0 DEF Reported, Idle, OpRecord
    <3>2. CASE Become(p, Reported(o))
      BY <1>0, <3>1, <3>2 DEF Become
    <3>3. CASE \E pc \in {"cleanup", "unlock"} : Go(p, pc)
      BY <3>3, GoRecord
    <3>4. QED
      BY <1>3, <3>2, <3>3, IdleRecord DEF WriteState
  <2>2. /\ Recorded(o.seen) /\ o.seen \in State
        /\ o.why = "success" => o.file \in made
    BY <1>0, <1>3 DEF WriteState, SuccessInv, OpRecord
  <2>3. Recorded(Written(o))
    <3>1. CASE o.why = "key"
      <4>1. Written(o).last = o.seen.last
        BY <2>2, <3>1 DEF Written, State
      <4>2. QED
        BY <2>2, <4>1 DEF Recorded
    <3>2. CASE o.why = "lost"
      <4>1. Written(o).last = [status |-> "failed", file |-> 0]
        BY <2>2, <3>2 DEF Written, State
      <4>2. QED
        BY <4>1 DEF Recorded
    <3>3. CASE o.why \in {"running", "success", "failed"}
      <4>1. Written(o).last = [status |-> o.why, file |-> o.file]
        BY <2>2, <3>3 DEF Written, State
      <4>2. QED
        BY <2>2, <4>1 DEF Recorded
    <3>4. QED
      BY <1>0, <3>1, <3>2, <3>3 DEF OpRecord
  <2>4. state' \in {state, Written(o)}
    BY <1>3 DEF WriteState
  <2>5. Recorded(state')
    BY <1>0, <2>3, <2>4
  <2>6. QED
    BY <1>0, <2>1, <2>5, SuccessKept
<1>4. QED
  BY <1>1, <1>2, <1>3

LEMMA SuccessStep ==
    TypeOK /\ RetainInv /\ SuccessInv /\ [Next]_vars => SuccessInv'
<1> SUFFICES ASSUME TypeOK, RetainInv, SuccessInv, [Next]_vars
             PROVE  SuccessInv'
  OBVIOUS
<1>1. CASE Tick \/ UNCHANGED vars \/ \E n \in Names : Delete(n)
  BY <1>1 DEF Tick, Delete, vars, Directory, SuccessInv, Recorded
<1>2. CASE Crash
  BY <1>2 DEF Crash, Directory, SuccessInv, Recorded, Idle
<1>3. ASSUME NEW p \in Proc, NEW kind \in Kinds, Start(p, kind) PROVE SuccessInv'
  BY <1>3, SuccessControl
<1>4. ASSUME NEW p \in Proc, Step(p) PROVE SuccessInv'
  BY <1>4, SuccessControl, SuccessSave DEF Step, RetainInv
<1>5. QED
  BY <1>1, <1>2, <1>3, <1>4 DEF Next

\* A recorded success can be restored from: its archive was completed, and it is
\* there unless it was deleted or retention keeps as many newer ones, whatever
\* crashes and fails and whoever writes a record back that was read before.
THEOREM LastRunsRestorable == Spec => []LastRunRestorable
<1>1. Init => SuccessInv
  BY DEF Init, SuccessInv, Recorded, State0, NoRun, Idle
<1>2. TypeOK /\ RetainInv /\ SuccessInv => LastRunRestorable
  <2> SUFFICES ASSUME TypeOK, RetainInv, SuccessInv,
                      state.last.status = "success"
               PROVE  LET n == state.last.file
                      IN  /\ n \in made
                          /\ \/ n \in Names \cup removed
                             \/ Cardinality(Newer(made, n)) >= Floor
    BY DEF LastRunRestorable
  <2> DEFINE n == state.last.file
  <2>1. n \in made
    BY DEF SuccessInv, Recorded
  <2>2. Cardinality(Newer(made, n)) \in Nat /\ Floor \in Nat
    BY NewerGrows, FloorIsLeast DEF RetainInv
  <2>3. n \notin removed /\ Cardinality(Newer(made, n)) < Floor => n \in Names
    BY <2>1 DEF RetainInv, RetentionFloor
  <2>4. QED
    BY <2>1, <2>2, <2>3
<1>3. QED
  BY <1>1, <1>2, TypeInit, TypeStep, RetainInit, RetainStep, SuccessStep, PTL
     DEF Spec

(***************************************************************************)
(* Running.  Without a crash, with room on the disk and nobody marking the *)
(* key as downloaded, the record says running exactly as long as the run   *)
(* that wrote it is on its way to an outcome.  Each hypothesis is needed:  *)
(* a crash or a failed write leaves the record behind, and a download      *)
(* writes back the one it has read before the outcome.                     *)
(***************************************************************************)
Undisturbed ==
    /\ DiskHasRoom
    /\ "crash" \notin FaultKinds
    /\ "key" \notin Kinds

\* A run between recording running for this archive and recording its outcome.
AtWork(o, file) ==
    /\ \/ o.pc \in {"key", "keygen", "dump", "stream", "rename", "sidecar",
                    "cleanup"}
       \/ o.pc \in {"read", "write"} /\ o.why \in {"success", "failed"}
    /\ o.file = file
    /\ o.said = {"started"}

NoDownload(o) == o.pc # "copy" /\ (o.pc \in {"read", "write"} => o.why # "key")

RunInv ==
    /\ \A p \in Proc : NoDownload(op[p])
    /\ state.last.status = "running" =>
         \E p \in Proc : lock = p /\ AtWork(op[p], state.last.file)

\* No download begins.
LEMMA NoDownloadKept ==
    ASSUME TypeOK, Undisturbed, NEW p \in Proc, NoDownload(op[p]),
           Step(p) \/ \E kind \in Kinds : Start(p, kind)
    PROVE  NoDownload(op'[p])
<1>0. op[p] \in OpRecord /\ op \in [Proc -> OpRecord]
  BY DEF TypeOK
<1>1. CASE Preflight(p) \/ Release(p) \/ Dump(p) \/ Stream(p) \/ Rename(p)
  BY <1>1, GoRecord DEF Preflight, Release, Dump, Stream, Rename, NoDownload
<1>2. CASE Stamp(p) \/ ReadState(p)
  <2>1. CASE Stamp(p)
    BY <1>0, <2>1 DEF Stamp, Become, OpRecord, NoDownload
  <2>2. CASE ReadState(p)
    <3>1. op[p].pc = "read" /\ op'[p].pc = "write" /\ op'[p].why = op[p].why
      BY <1>0, <2>2 DEF ReadState, Become, OpRecord
    <3>2. QED
      BY <3>1 DEF NoDownload
  <2>3. QED
    BY <1>2, <2>1, <2>2
<1>3. CASE Lock(p) \/ Refused(p) \/ Cleanup(p) \/ Sidecar(p)
  BY <1>3, GoRecord, SaveRecord, IdleRecord
     DEF Lock, Refused, Cleanup, Sidecar, NoDownload
<1>4. CASE WriteState(p)
  <2>1. Reported(op[p]).pc \in {"key", "prune", "unlock", "idle"}
    BY <1>0 DEF Reported, Idle, OpRecord
  <2>2. Become(p, Reported(op[p])) => op'[p] = Reported(op[p])
    BY <1>0 DEF Become
  <2>3. op'[p].pc \in {"key", "prune", "unlock", "idle", "cleanup"}
    BY <1>4, <2>1, <2>2, GoRecord, IdleRecord DEF WriteState
  <2>4. QED
    BY <2>3 DEF NoDownload
<1>5. CASE LoadOrCreate(p) \/ Keygen(p)
  <2>1. CASE \E pc \in {"keygen", "cleanup"} : Go(p, pc)
    BY <2>1, GoRecord DEF NoDownload
  <2>2. CASE \E id : Become(p, [op[p] EXCEPT !.pc = "dump", !.id = id])
    BY <2>2, <1>0 DEF Become, OpRecord, NoDownload
  <2>3. QED
    BY <1>5, <2>1, <2>2 DEF LoadOrCreate, Keygen
<1>6. CASE Unlock(p) \/ PruneEnd(p)
  BY <1>6, GoRecord, IdleRecord DEF Unlock, PruneEnd, NoDownload
<1>7. CASE PruneList(p)
  <2>1. CASE Go(p, "cleanup")
    BY <2>1, GoRecord DEF NoDownload
  <2>2. CASE \E k : Become(p, [op[p] EXCEPT !.pc = "unlink",
                                            !.todo = Excess(Names, k)])
    BY <1>0, <2>2 DEF Become, OpRecord, NoDownload
  <2>3. QED
    BY <1>7, <2>1, <2>2 DEF PruneList
<1>8. ASSUME NEW n \in op[p].todo, PruneUnlink(p, n) PROVE NoDownload(op'[p])
  BY <1>0, <1>8 DEF PruneUnlink, Become, OpRecord, NoDownload
<1>9. CASE CopyKey(p)
  BY <1>9 DEF CopyKey, NoDownload
<1>10. ASSUME NEW kind \in Kinds, Start(p, kind) PROVE NoDownload(op'[p])
  <2>1. kind \in {"cli", "api", "dash", "prune"}
    BY BackupAssumption DEF BackupAssumption, RunKinds, Undisturbed
  <2>2. FirstStep(kind) \notin {"copy", "read", "write"}
    BY <2>1 DEF FirstStep
  <2>3. QED
    BY <1>0, <1>10, <2>2 DEF Start, Become, Idle, NoDownload
<1>11. QED
  BY <1>1, <1>2, <1>3, <1>4, <1>5, <1>6, <1>7, <1>8, <1>9, <1>10 DEF Step

\* Nobody takes the lock from its holder.
LEMMA HolderKeeps ==
    ASSUME TypeOK, NEW p \in Proc, NEW q \in Proc, lock = q, p # q,
           Step(p) \/ \E kind \in Kinds : Start(p, kind)
    PROVE  lock' = lock /\ op'[q] = op[q]
<1>1. op \in [Proc -> OpRecord] /\ ~Holding(op[p]) /\ lock # None
  BY BackupAssumption DEF TypeOK, BackupAssumption
<1>2. CASE Release(p) \/ Unlock(p)
  BY <1>1, <1>2 DEF Release, Unlock, Holding, Working
<1>3. CASE Step(p) /\ ~Release(p) /\ ~Unlock(p)
  <2>1. lock' = lock
    BY <1>1, <1>3
       DEF Step, Preflight, Stamp, Lock, Refused, ReadState, WriteState,
           LoadOrCreate, Keygen, Dump, Stream, Rename, Sidecar, Cleanup,
           PruneList, PruneUnlink, PruneEnd, CopyKey, Directory
  <2>2. QED
    BY <1>3, <2>1, OthersStay
<1>4. ASSUME NEW kind \in Kinds, Start(p, kind)
      PROVE  lock' = lock /\ op'[q] = op[q]
  BY <1>1, <1>4 DEF Start, Become
<1>5. QED
  BY <1>2, <1>3, <1>4

\* The run at work stays at work until it records its outcome.
LEMMA WorkGoesOn ==
    ASSUME TypeOK, NEW p \in Proc, NEW file, lock = p, AtWork(op[p], file),
           Step(p) \/ \E kind \in Kinds : Start(p, kind), ~WriteState(p)
    PROVE  lock' = p /\ AtWork(op'[p], file)
<1> DEFINE o == op[p]
<1>0. o \in OpRecord /\ op \in [Proc -> OpRecord]
  BY DEF TypeOK
<1>g. ASSUME NEW pc \in {"keygen", "dump", "stream", "rename", "sidecar",
                         "cleanup"}, Go(p, pc)
      PROVE  AtWork(op'[p], file)
  BY <1>0, <1>g DEF Go, Become, OpRecord, AtWork
<1>s. ASSUME NEW why \in {"success", "failed"}, Save(p, why)
      PROVE  AtWork(op'[p], file)
  BY <1>0, <1>s DEF Save, Become, OpRecord, AtWork
<1>1. CASE ReadState(p)
  BY <1>0, <1>1 DEF ReadState, Become, OpRecord, AtWork
<1>2. CASE LoadOrCreate(p) \/ Keygen(p)
  <2>1. lock' = lock
    BY <1>2 DEF LoadOrCreate, Keygen
  <2>2. CASE \E id : Become(p, [o EXCEPT !.pc = "dump", !.id = id])
    BY <1>0, <2>1, <2>2 DEF Become, OpRecord, AtWork
  <2>3. CASE Go(p, "keygen") \/ Go(p, "cleanup")
    BY <1>g, <2>1, <2>3
  <2>4. QED
    BY <1>2, <2>2, <2>3 DEF LoadOrCreate, Keygen
<1>3. CASE Dump(p) \/ Stream(p) \/ Rename(p)
  BY <1>3, <1>g DEF Dump, Stream, Rename
<1>4. CASE Sidecar(p)
  BY <1>4, <1>g, <1>s DEF Sidecar
<1>5. CASE Cleanup(p)
  BY <1>5, <1>s DEF Cleanup
<1>6. ASSUME \/ Preflight(p) \/ Release(p) \/ Stamp(p) \/ Lock(p) \/ Refused(p)
             \/ Unlock(p) \/ PruneList(p) \/ PruneEnd(p) \/ CopyKey(p)
             \/ \E n \in o.todo : PruneUnlink(p, n)
             \/ \E kind \in Kinds : Start(p, kind)
      PROVE  FALSE
  <2>1. o.pc \in {"preflight", "release", "stamp", "lock", "refused", "beaten",
                  "unlock", "prune", "unlink", "copy", "idle"}
    <3>1. CASE \/ Preflight(p) \/ Release(p) \/ Stamp(p) \/ Lock(p)
               \/ Refused(p) \/ Unlock(p) \/ PruneList(p) \/ PruneEnd(p)
               \/ CopyKey(p)
      BY <3>1 DEF Preflight, Release, Stamp, Lock, Refused, Unlock, PruneList,
                  PruneEnd, CopyKey
    <3>2. CASE \E n \in o.todo : PruneUnlink(p, n)
      BY <3>2 DEF PruneUnlink
    <3>3. CASE \E kind \in Kinds : Start(p, kind)
      <4>1. o = Idle
        BY <3>3 DEF Start
      <4>2. Idle.pc = "idle"
        BY DEF Idle
      <4>3. QED
        BY <4>1, <4>2
    <3>4. QED
      BY <1>6, <3>1, <3>2, <3>3
  <2>2. QED
    BY <2>1 DEF AtWork
<1>7. QED
  BY <1>1, <1>2, <1>3, <1>4, <1>5, <1>6 DEF Step

\* Writing the state file without a failure, by a holder of the lock or not.
LEMMA RunWrite ==
    ASSUME TypeOK, Undisturbed, RunInv, NEW p \in Proc, WriteState(p),
           state'.last.status = "running"
    PROVE  lock' = p /\ AtWork(op'[p], state'.last.file)
<1> DEFINE o == op[p]
<1>0. /\ o \in OpRecord /\ op \in [Proc -> OpRecord] /\ o.seen \in State
      /\ o.pc = "write" /\ o.why # "key" /\ (Holding(o) <=> lock = p)
  BY DEF TypeOK, OpRecord, WriteState, RunInv, NoDownload
<1>1. state' = Written(o) /\ Become(p, Reported(o)) /\ lock' = lock
  BY DEF WriteState, Fault, Undisturbed, DiskHasRoom
<1>2. CASE o.why = "lost"
  <2>1. Written(o).last.status = "failed"
    BY <1>0, <1>2 DEF Written, State
  <2>2. QED
    BY <1>1, <2>1
<1>3. CASE o.why \in {"running", "success", "failed"}
  <2>1. Written(o).last = [status |-> o.why, file |-> o.file]
    BY <1>0, <1>3 DEF Written, State
  <2>2. o.why = "running" /\ state'.last.file = o.file
    BY <1>1, <2>1
  <2>3. lock = p
    BY <1>0, <2>2 DEF Holding, Working
  <2>4. op'[p] = [o EXCEPT !.pc = "key", !.said = {"started"}]
    BY <1>0, <1>1, <2>2 DEF Reported, Become
  <2>5. /\ op'[p].pc = "key" /\ op'[p].said = {"started"}
        /\ op'[p].file = o.file
    BY <1>0, <2>4 DEF OpRecord
  <2>6. QED
    BY <1>1, <2>2, <2>3, <2>5 DEF AtWork
<1>4. QED
  BY <1>0, <1>2, <1>3 DEF OpRecord

LEMMA RunStep ==
    ASSUME Undisturbed
    PROVE  TypeOK /\ RunInv /\ [Next]_vars => RunInv'
<1> SUFFICES ASSUME TypeOK, RunInv, [Next]_vars PROVE RunInv'
  OBVIOUS
<1>0. op \in [Proc -> OpRecord]
  BY DEF TypeOK
<1>1. CASE Tick \/ UNCHANGED vars \/ \E n \in Names : Delete(n)
  BY <1>1 DEF Tick, Delete, vars, RunInv
<1>2. ~Crash
  BY DEF Crash, Fault, Undisturbed
<1>3. ASSUME NEW p \in Proc, Step(p) \/ \E kind \in Kinds : Start(p, kind)
      PROVE  RunInv'
  <2>1. ASSUME NEW q \in Proc PROVE NoDownload(op'[q])
    <3>1. q # p => op'[q] = op[q]
      BY <1>0, <1>3, OthersStay DEF Start, Become
    <3>2. QED
      BY <1>3, <3>1, NoDownloadKept DEF RunInv
  <2>2. ASSUME state'.last.status = "running", ~WriteState(p)
        PROVE  \E q \in Proc : lock' = q /\ AtWork(op'[q], state'.last.file)
    <3>1. state' = state
      BY <1>3, <2>2
         DEF Step, Preflight, Release, Stamp, Lock, Refused, ReadState,
             LoadOrCreate, Keygen, Dump, Stream, Rename, Sidecar, Cleanup,
             Unlock, PruneList, PruneUnlink, PruneEnd, CopyKey, Start
    <3>2. PICK q \in Proc : lock = q /\ AtWork(op[q], state.last.file)
      BY <2>2, <3>1 DEF RunInv
    <3>3. CASE q = p
      BY <1>3, <2>2, <3>1, <3>2, <3>3, WorkGoesOn
    <3>4. CASE q # p
      BY <1>3, <3>1, <3>2, <3>4, HolderKeeps
    <3>5. QED
      BY <3>3, <3>4
  <2>3. ASSUME state'.last.status = "running", WriteState(p)
        PROVE  \E q \in Proc : lock' = q /\ AtWork(op'[q], state'.last.file)
    BY <2>3, RunWrite
  <2>4. QED
    BY <2>1, <2>2, <2>3 DEF RunInv, NoDownload, AtWork
<1>4. QED
  BY <1>1, <1>2, <1>3 DEF Next

\* A recorded running is a run at work, as long as nothing crashes, the state
\* file can be written and nobody downloads the key meanwhile.
THEOREM RunningMeansARunIsAtWork ==
    ASSUME Undisturbed
    PROVE  Spec => []RunningIsTrue
<1>1. Init => RunInv
  BY DEF Init, RunInv, NoDownload, Idle, State0, NoRun
<1>2. RunInv => RunningIsTrue
  BY BackupAssumption DEF RunInv, RunningIsTrue, AtWork, BackupAssumption
<1>3. QED
  BY <1>1, <1>2, TypeInit, TypeStep, RunStep, PTL DEF Spec

=============================================================================
