------------------------------ MODULE BackupRun ------------------------------
(***************************************************************************)
(* Backups: runs started from the API, the dashboard and the command line, *)
(* manual pruning, key downloads and deletions, all on one directory.      *)
(* A run holds a flock for its lifetime; everything else takes no lock,    *)
(* and .state.json is changed by reading it, replacing one of its two      *)
(* fields and writing it back.                                             *)
(*                                                                         *)
(* An archive is named after the second its run began.                     *)
(***************************************************************************)
EXTENDS Integers, FiniteSets

CONSTANTS
    Proc,        \* handlers and commands at work at the same time
    None,        \* no process
    Kinds,       \* what they may be started for
    Keep,        \* BACKUP_RETENTION_KEEP
    PruneKeeps,  \* --keep of manual prunes
    ReapAge,     \* age at which a partial file counts as orphaned
    FaultKinds,  \* failures the environment produces
    MaxFaults,   \* bound on the number of failures
    MaxTime,     \* bound on the clock
    MaxStarts    \* bound on the handlers and commands started

RunKinds == {"cli", "api", "dash"}
Floor == CHOOSE k \in {Keep} \cup PruneKeeps :
            \A n \in {Keep} \cup PruneKeeps : k <= n

BackupAssumption ==
    /\ None \notin Proc
    /\ Kinds \subseteq RunKinds \cup {"prune", "key"}
    /\ Keep \in Nat \ {0}
    /\ PruneKeeps \subseteq Nat /\ IsFiniteSet(PruneKeeps)
    /\ ReapAge \in Nat /\ MaxFaults \in Nat /\ MaxTime \in Nat
    /\ MaxStarts \in Nat

ASSUME BackupAssumption

VARIABLES
    now,        \* the clock
    lock,       \* the process that holds .backup.lock
    state,      \* .state.json
    identity,   \* .age-identity: how often generated, and whether whole
    archives,   \* fasttak-backup-*.age: when taken, and for which identity
    partials,   \* *.partial: name of the archive to be, and mtime
    sidecars,   \* *.age.sha256
    op,         \* per process, the operation in progress
    starts,     \* handlers and commands started so far
    faults,     \* failures so far
    made,       \* history: names of the archives ever completed
    removed,    \* history: those of them an administrator deleted
    handed      \* history: the identity files downloads returned

vars == <<now, lock, state, identity, archives, partials, sidecars, op,
          starts, faults, made, removed, handed>>

NoRun  == [status |-> "none", file |-> 0]
NoFile == [gen |-> 0, whole |-> FALSE]
State0 == [last |-> NoRun, key |-> FALSE]

Idle == [pc |-> "idle", kind |-> "none", file |-> 0, id |-> NoFile,
         why |-> "running", seen |-> State0, todo |-> {}, said |-> {}]

Init ==
    /\ now = 0
    /\ lock = None
    /\ state = State0
    /\ identity = NoFile
    /\ archives = {} /\ partials = {} /\ sidecars = {}
    /\ op = [p \in Proc |-> Idle]
    /\ starts = 0 /\ faults = 0
    /\ made = {} /\ removed = {} /\ handed = {}

Fault(kind) ==
    /\ kind \in FaultKinds
    /\ faults < MaxFaults
    /\ faults' = faults + 1

Become(p, o) == op' = [op EXCEPT ![p] = o]
Go(p, pc) == Become(p, [op[p] EXCEPT !.pc = pc])

\* Begin write_last_run or mark_key_downloaded.
Save(p, why) == Become(p, [op[p] EXCEPT !.pc = "read", !.why = why])

Names == {a.taken : a \in archives}
Newer(names, n) == {m \in names : m > n}

Directory == <<archives, partials, sidecars, made, removed>>

Tick ==
    /\ now < MaxTime
    /\ now' = now + 1
    /\ UNCHANGED <<lock, state, identity, Directory, op, starts, faults,
                   handed>>

\* The monitor container restarts, and with it every command exec'd in it.
Crash ==
    /\ Fault("crash")
    /\ lock' = None
    /\ op' = [p \in Proc |-> Idle]
    /\ UNCHANGED <<now, state, identity, Directory, starts, handed>>

(***************************************************************************)
(* Starting: a run, a manual prune, a key download.                        *)
(***************************************************************************)
FirstStep(kind) ==
    CASE kind = "cli" -> "stamp"
      [] kind \in {"api", "dash"} -> "preflight"
      [] kind = "prune" -> "prune"
      [] kind = "key" -> "copy"

Start(p, kind) ==
    /\ op[p] = Idle
    /\ kind \in Kinds
    /\ starts < MaxStarts
    /\ starts' = starts + 1
    /\ Become(p, [Idle EXCEPT !.kind = kind, !.pc = FirstStep(kind)])
    /\ UNCHANGED <<now, lock, state, identity, Directory, faults, handed>>

\* run_backup_preflight takes the lock ...
Preflight(p) ==
    /\ op[p].pc = "preflight"
    /\ \/ lock = None /\ lock' = p /\ Go(p, "release")
       \/ lock # None /\ Go(p, "refused") /\ UNCHANGED lock
    /\ UNCHANGED <<now, state, identity, Directory, starts, faults, handed>>

\* ... and gives it back at once: 202, the run is a background task.
Release(p) ==
    /\ op[p].pc = "release"
    /\ lock' = None
    /\ Go(p, "stamp")
    /\ UNCHANGED <<now, state, identity, Directory, starts, faults, handed>>

\* The run's name, before it has the lock.
Stamp(p) ==
    /\ op[p].pc = "stamp"
    /\ Become(p, [op[p] EXCEPT !.pc = "lock", !.file = now])
    /\ UNCHANGED <<now, lock, state, identity, Directory, starts, faults,
                   handed>>

\* mutant: the lock is not looked at
LockShared(p) ==
    /\ op[p].pc = "lock"
    /\ lock' = p
    /\ Save(p, "running")
    /\ UNCHANGED <<now, state, identity, Directory, starts, faults, handed>>

\* _exclusive_lock, without waiting.
Lock(p) ==
    /\ op[p].pc = "lock"
    /\ \/ lock = None /\ lock' = p /\ Save(p, "running")
       \/ lock # None /\ Go(p, "beaten") /\ UNCHANGED lock
    /\ UNCHANGED <<now, state, identity, Directory, starts, faults, handed>>

\* A refused preflight is a 409.  A run beaten to the lock is exit 2 of the
\* command; the API's background task records a failure, the dashboard's logs.
Refused(p) ==
    /\ op[p].pc \in {"refused", "beaten"}
    /\ IF op[p].pc = "beaten" /\ op[p].kind = "api"
       THEN Save(p, "lost")
       ELSE Become(p, Idle)
    /\ UNCHANGED <<now, lock, state, identity, Directory, starts, faults,
                   handed>>

(***************************************************************************)
(* .state.json: read, then write a new file over it.                       *)
(***************************************************************************)
ReadState(p) ==
    /\ op[p].pc = "read"
    /\ Become(p, [op[p] EXCEPT !.pc = "write", !.seen = state])
    /\ UNCHANGED <<now, lock, state, identity, Directory, starts, faults,
                   handed>>

\* What is written: the field changed, and the other one as it was read.
Written(o) ==
    CASE o.why = "key" -> [o.seen EXCEPT !.key = TRUE]
      [] o.why = "lost" ->
           [o.seen EXCEPT !.last = [status |-> "failed", file |-> 0]]
      [] OTHER -> [o.seen EXCEPT !.last = [status |-> o.why, file |-> o.file]]

\* The events emitted once the state is written, and the next step.
Reported(o) ==
    CASE o.why = "running" -> [o EXCEPT !.pc = "key", !.said = {"started"}]
      [] o.why = "success" ->
           [o EXCEPT !.pc = "prune", !.said = @ \cup {"completed"}]
      [] o.why = "failed" -> [o EXCEPT !.pc = "unlock",
                                       !.said = @ \cup {"failed"}]
      [] OTHER -> Idle

\* The response of a key download follows the write.  A disk that is full
\* keeps the old file: the exception ends a run that is not yet, or no longer,
\* in the try block, and fails one that is.
WriteState(p) ==
    LET o == op[p]
    IN  /\ o.pc = "write"
        /\ \/ /\ state' = Written(o)
              /\ Become(p, Reported(o))
              /\ handed' = IF o.why = "key" THEN handed \cup {o.id} ELSE handed
              /\ UNCHANGED faults
           \/ /\ Fault("disk")
              /\ CASE o.why = "success" -> Go(p, "cleanup")
                   [] o.why \in {"running", "failed"} -> Go(p, "unlock")
                   [] OTHER -> Become(p, Idle)
              /\ UNCHANGED <<state, handed>>
        /\ UNCHANGED <<now, lock, identity, Directory, starts>>

(***************************************************************************)
(* The run itself.                                                         *)
(***************************************************************************)
\* mutant: an identity is generated for every run
LoadOrCreateFresh(p) ==
    /\ op[p].pc = "key"
    /\ identity' = [gen |-> identity.gen + 1, whole |-> FALSE]
    /\ Go(p, "keygen")
    /\ UNCHANGED <<now, lock, state, Directory, starts, faults, handed>>

\* load_or_create: only a missing file is generated; one that cannot be parsed
\* fails the run.  age-keygen creates the file, then fills it.
LoadOrCreate(p) ==
    /\ op[p].pc = "key"
    /\ \/ /\ identity.gen = 0
          /\ identity' = [gen |-> 1, whole |-> FALSE]
          /\ Go(p, "keygen")
       \/ /\ identity.whole
          /\ Become(p, [op[p] EXCEPT !.pc = "dump", !.id = identity])
          /\ UNCHANGED identity
       \/ /\ identity.gen # 0 /\ ~identity.whole
          /\ Go(p, "cleanup")
          /\ UNCHANGED identity
    /\ UNCHANGED <<now, lock, state, Directory, starts, faults, handed>>

Keygen(p) ==
    /\ op[p].pc = "keygen"
    /\ \/ /\ identity' = [identity EXCEPT !.whole = TRUE]
          /\ Become(p, [op[p] EXCEPT !.pc = "dump", !.id = identity'])
          /\ UNCHANGED faults
       \/ Fault("keygen") /\ Go(p, "cleanup") /\ UNCHANGED identity
    /\ UNCHANGED <<now, lock, state, Directory, starts, handed>>

OtherPartials(n) == {x \in partials : x.taken # n}

\* _populate_staging, then the partial file is opened.
Dump(p) ==
    /\ op[p].pc = "dump"
    /\ \/ /\ partials' = OtherPartials(op[p].file)
                           \cup {[taken |-> op[p].file, mtime |-> now]}
          /\ Go(p, "stream")
          /\ UNCHANGED faults
       \/ Fault("dump") /\ Go(p, "cleanup") /\ UNCHANGED partials
    /\ UNCHANGED <<now, lock, state, identity, archives, sidecars, starts,
                   made, removed, handed>>

\* The last write of _stream_encrypted_archive: into the partial file, or into
\* one that a manual prune has unlinked meanwhile.
Stream(p) ==
    /\ op[p].pc = "stream"
    /\ \/ /\ partials' = {IF x.taken = op[p].file THEN [x EXCEPT !.mtime = now]
                                                  ELSE x : x \in partials}
          /\ Go(p, "rename")
          /\ UNCHANGED faults
       \/ Fault("dump") /\ Go(p, "cleanup") /\ UNCHANGED partials
    /\ UNCHANGED <<now, lock, state, identity, archives, sidecars, starts,
                   made, removed, handed>>

\* os.replace: over an archive of the same name, if there is one.
Rename(p) ==
    LET n == op[p].file
    IN  /\ op[p].pc = "rename"
        /\ \/ /\ \E x \in partials : x.taken = n
              /\ partials' = OtherPartials(n)
              /\ archives' = {a \in archives : a.taken # n}
                               \cup {[taken |-> n, gen |-> op[p].id.gen]}
              /\ made' = made \cup {n}
              /\ removed' = removed \ {n}
              /\ Go(p, "sidecar")
           \/ /\ ~\E x \in partials : x.taken = n
              /\ Go(p, "cleanup")
              /\ UNCHANGED <<partials, archives, made, removed>>
        /\ UNCHANGED <<now, lock, state, identity, sidecars, starts, faults,
                       handed>>

\* _write_sha256_sidecar reads the archive, which may be gone again.
Sidecar(p) ==
    /\ op[p].pc = "sidecar"
    /\ \/ /\ op[p].file \in Names
          /\ sidecars' = sidecars \cup {op[p].file}
          /\ Save(p, "success")
          /\ UNCHANGED faults
       \/ /\ op[p].file \notin Names
          /\ Go(p, "cleanup")
          /\ UNCHANGED <<sidecars, faults>>
       \/ Fault("disk") /\ Go(p, "cleanup") /\ UNCHANGED sidecars
    /\ UNCHANGED <<now, lock, state, identity, archives, partials, starts, made,
                   removed, handed>>

\* mutant: a failed run does not record that it failed
CleanupSilent(p) ==
    /\ op[p].pc = "cleanup"
    /\ partials' = OtherPartials(op[p].file)
    /\ Go(p, "unlock")
    /\ UNCHANGED <<now, lock, state, identity, archives, sidecars, starts,
                   faults, made, removed, handed>>

\* mutant: the except clause records success as well
CleanupAsDone(p) ==
    /\ op[p].pc = "cleanup"
    /\ partials' = OtherPartials(op[p].file)
    /\ Save(p, "success")
    /\ UNCHANGED <<now, lock, state, identity, archives, sidecars, starts,
                   faults, made, removed, handed>>

\* mutant: a run that failed is tried again
CleanupRetry(p) ==
    /\ op[p].pc = "cleanup"
    /\ partials' = OtherPartials(op[p].file)
    /\ Go(p, "key")
    /\ UNCHANGED <<now, lock, state, identity, archives, sidecars, starts,
                   faults, made, removed, handed>>

\* The except clause: _cleanup_partial, then write_last_run(failed).
Cleanup(p) ==
    /\ op[p].pc = "cleanup"
    /\ partials' = OtherPartials(op[p].file)
    /\ Save(p, "failed")
    /\ UNCHANGED <<now, lock, state, identity, archives, sidecars, starts,
                   faults, made, removed, handed>>

\* The finally clause and the end of the lock's with block.
Unlock(p) ==
    /\ op[p].pc = "unlock"
    /\ lock' = None
    /\ Become(p, Idle)
    /\ UNCHANGED <<now, state, identity, Directory, starts, faults, handed>>

(***************************************************************************)
(* prune, by a run that has succeeded or by hand, and the other handlers.  *)
(***************************************************************************)
\* mutant: one archive too many counts as excess
ExcessEager(names, k) == {n \in names : Cardinality(Newer(names, n)) >= k - 1}

\* stamped_backups(d)[keep:]
Excess(names, k) == {n \in names : Cardinality(Newer(names, n)) >= k}

\* Orphaned partials go, then the excess archives are listed.  A run's own
\* prune raises when BACKUP_RETENTION_KEEP is not a positive number.
PruneList(p) ==
    /\ op[p].pc = "prune"
    /\ \/ /\ partials' = {x \in partials : now - x.mtime <= ReapAge}
          /\ \E k \in IF op[p].kind = "prune" THEN {Keep} \cup PruneKeeps
                                              ELSE {Keep} :
                Become(p, [op[p] EXCEPT !.pc = "unlink",
                                        !.todo = Excess(Names, k)])
          /\ UNCHANGED faults
       \/ /\ op[p].kind # "prune"
          /\ Fault("retention")
          /\ Go(p, "cleanup")
          /\ UNCHANGED partials
    /\ UNCHANGED <<now, lock, state, identity, archives, sidecars, starts, made,
                   removed, handed>>

\* Newest first; a file that is gone already is passed over.
PruneUnlink(p, n) ==
    /\ op[p].pc = "unlink"
    /\ n \in op[p].todo
    /\ \A m \in op[p].todo : m <= n
    /\ archives' = {a \in archives : a.taken # n}
    /\ sidecars' = sidecars \ {n}
    /\ Become(p, [op[p] EXCEPT !.todo = @ \ {n}])
    /\ UNCHANGED <<now, lock, state, identity, partials, starts, faults, made,
                   removed, handed>>

\* All unlinked, or one could not be: that fails a run that had completed.
PruneEnd(p) ==
    /\ op[p].pc = "unlink"
    /\ \/ /\ op[p].todo = {}
          /\ IF op[p].kind = "prune" THEN Become(p, Idle) ELSE Go(p, "unlock")
          /\ UNCHANGED faults
       \/ /\ Fault("unlink")
          /\ IF op[p].kind = "prune" THEN Become(p, Idle) ELSE Go(p, "cleanup")
    /\ UNCHANGED <<now, lock, state, identity, Directory, starts, handed>>

\* download_key: 404 without an identity file, else whatever it holds.
CopyKey(p) ==
    /\ op[p].pc = "copy"
    /\ IF identity.gen = 0
       THEN Become(p, Idle)
       ELSE Become(p, [op[p] EXCEPT !.pc = "read", !.why = "key",
                                    !.id = identity])
    /\ UNCHANGED <<now, lock, state, identity, Directory, starts, faults,
                   handed>>

\* DELETE /api/backup/files/{filename}: the sidecar stays.
Delete(n) ==
    /\ n \in Names
    /\ archives' = {a \in archives : a.taken # n}
    /\ removed' = removed \cup {n}
    /\ UNCHANGED <<now, lock, state, identity, partials, sidecars, op, starts,
                   faults, made, handed>>

(***************************************************************************)
(* The system.                                                             *)
(***************************************************************************)
Step(p) ==
    \/ Preflight(p) \/ Release(p) \/ Stamp(p) \/ Lock(p) \/ Refused(p)
    \/ ReadState(p) \/ WriteState(p)
    \/ LoadOrCreate(p) \/ Keygen(p) \/ Dump(p) \/ Stream(p) \/ Rename(p)
    \/ Sidecar(p) \/ Cleanup(p) \/ Unlock(p)
    \/ PruneList(p) \/ PruneEnd(p) \/ CopyKey(p)
    \/ \E n \in op[p].todo : PruneUnlink(p, n)

Next ==
    \/ Tick
    \/ Crash
    \/ \E n \in Names : Delete(n)
    \/ \E p \in Proc :
         \/ \E kind \in Kinds : Start(p, kind)
         \/ Step(p)

Spec == Init /\ [][Next]_vars

\* A thread or command that has begun goes on.
FairSpec == Spec /\ \A p \in Proc : WF_vars(Step(p))

(***************************************************************************)
(* Properties.                                                             *)
(***************************************************************************)
Identity == [gen : Nat, whole : BOOLEAN]
State == [last : [status : {"none", "running", "success", "failed"},
                  file : Nat],
          key : BOOLEAN]

\* Where a run is with the lock in its hands, and where it has begun to work.
Working(o) ==
    \/ o.pc \in {"key", "keygen", "dump", "stream", "rename", "sidecar",
                 "cleanup", "unlock"}
    \/ o.pc \in {"read", "write"} /\ o.why \in {"running", "success", "failed"}
    \/ o.pc \in {"prune", "unlink"} /\ o.kind # "prune"
Holding(o) == o.pc = "release" \/ Working(o)

OpRecord ==
    [pc : {"idle", "preflight", "release", "refused", "beaten", "stamp", "lock",
           "read", "write", "key", "keygen", "dump", "stream", "rename",
           "sidecar", "cleanup", "unlock", "prune", "unlink", "copy"},
     kind : RunKinds \cup {"none", "prune", "key"},
     file : Nat,
     id : Identity,
     why : {"running", "success", "failed", "lost", "key"},
     seen : State,
     todo : SUBSET Nat,
     said : SUBSET {"started", "completed", "failed"}]

\* What a manual prune does, which takes no lock.
ByHand(o) == o.kind = "prune" => o.pc \in {"prune", "unlink"}

\* The type invariant.  The flock is held by exactly the process that is
\* between taking and releasing it, so runs exclude each other.
TypeOK ==
    /\ now \in Nat
    /\ lock \in Proc \cup {None}
    /\ state \in State
    /\ identity \in Identity
    /\ archives \subseteq [taken : Nat, gen : Nat]
    /\ partials \subseteq [taken : Nat, mtime : Nat]
    /\ sidecars \subseteq Nat
    /\ op \in [Proc -> OpRecord]
    /\ \A p \in Proc : ByHand(op[p]) /\ (Holding(op[p]) <=> lock = p)
    /\ starts \in Nat /\ faults \in Nat
    /\ made \subseteq Nat /\ removed \subseteq Nat
    /\ handed \subseteq Identity

\* keys.py: the identity is "never rotated automatically (rotation would
\* invalidate every prior backup)".  Whatever crashes and fails, every archive
\* in the directory can be decrypted with the identity file beside it.
Decryptable ==
    \A a \in archives : identity.whole /\ a.gen = identity.gen

\* Retention "keeps the newest" archives.  However runs, manual prunes and
\* deletions interleave, one of the newest is gone only if it was deleted.
RetentionFloor ==
    \A n \in made \ removed :
        Cardinality(Newer(made, n)) < Floor => n \in Names

\* backup/__init__.py: `state.read()` and `state.write_last_run()` "track
\* operational status".  However often a stale record is written back, a
\* recorded success can be restored from: its archive was completed, and is
\* there unless it was deleted or retention keeps as many newer ones.
LastRunRestorable ==
    state.last.status = "success" =>
        LET n == state.last.file
        IN  /\ n \in made
            /\ n \in Names \cup removed \/ Cardinality(Newer(made, n)) >= Floor

\* A recorded running is a run at work: the holder of the lock has written it
\* for the archive it is making, and has not reported its outcome.
RunningIsTrue ==
    state.last.status = "running" =>
        /\ lock # None
        /\ op[lock].file = state.last.file
        /\ op[lock].said = {"started"}

\* The most steps a handler still has to take, the unlinks of a prune apart.
Left(o) ==
    LET saving == CASE o.why = "running" -> 15
                    [] o.why = "success" -> 7
                    [] OTHER -> 2
    IN  CASE o.pc = "idle" -> 0
          [] o.pc = "unlock" -> 1
          [] o.pc = "write" -> saving
          [] o.pc = "read" -> saving + 1
          [] o.pc \in {"cleanup", "refused", "beaten", "copy"} -> 4
          [] o.pc = "unlink" -> 5
          [] o.pc = "prune" -> 6
          [] o.pc = "sidecar" -> 9
          [] o.pc = "rename" -> 10
          [] o.pc = "stream" -> 11
          [] o.pc = "dump" -> 12
          [] o.pc = "keygen" -> 13
          [] o.pc = "key" -> 14
          [] o.pc = "lock" -> 17
          [] o.pc = "stamp" -> 18
          [] o.pc = "release" -> 19
          [] OTHER -> 20

\* A handler has come nearer to its end: it is there, or fewer steps are left,
\* or fewer archives to unlink.
Nearer(old, new) ==
    \/ new = Idle
    \/ Left(new) < Left(old)
    \/ /\ old.pc = "unlink" /\ new.pc = "unlink"
       /\ new.todo \subseteq old.todo /\ new.todo # old.todo

\* A step moves a handler that has begun nearer to its end, or not at all.
Onward ==
    \A p \in Proc : op[p] = Idle \/ op'[p] = op[p] \/ Nearer(op[p], op'[p])

\* Whatever fails, nothing that runs under the lock is tried again: every step
\* of a run, a prune or a download brings it nearer to its end, and no step of
\* another one sends it back.
HandlersEnd == [][Onward]_vars

\* runner.py: "write `running` before doing any work, then either `success` ...
\* or `failed`".  The recorded status does not stay at running.
LastRunSettles == state.last.status = "running" ~> state.last.status # "running"

\* keys.py: "the operator's downloaded copy is the same artifact `age` will
\* accept on restore".  A complete key that was downloaded opens every archive
\* there is then or later.
DownloadedKeyOpens ==
    \A id \in handed, a \in archives : id.whole => a.gen = id.gen

\* runner.py: a run emits "`backup.completed` or `backup.failed` before
\* releasing" the lock, whichever of its steps failed.
OutcomeReported ==
    \A p \in Proc :
        op[p].pc = "unlock" => op[p].said \cap {"completed", "failed"} # {}

=============================================================================
