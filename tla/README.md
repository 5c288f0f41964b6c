# FastTAK: a TLA+ verification project

FastTAK packages TAK Server with the services around it: an LDAP proxy with
enrolment tokens, and a *monitor* (FastAPI and a dashboard) that manages users,
certificates, service accounts, health, alerts and backups. A one-shot container,
*init-identity*, fills the directory (LLDAP). This directory models the parts of it
that keep state and are used by several actors at once, checks them with TLC, and
proves what matters most about them with TLAPS.

Contents: [inventory](#1-inventory-of-the-system),
[modules](#2-modules-and-their-correspondence-to-the-code),
[runs](#3-runs-bounds-and-what-they-show), [proofs](#4-proofs),
[divergences](#5-where-code-and-documentation-disagree),
[not modelled](#6-what-is-not-modelled-and-why), [plan](#7-plan).

To run one: `tlc -config UserRevocation_sweep.cfg MCUserRevocation.tla`,
`tlapm BackupRunProofs.tla`. `PROJECT.json` lists every run, mutant, theorem,
hazard and the source lines behind each definition.

## 1. Inventory of the system

Paths are relative to `src/`; `app/` stands for `monitor/app/`.

### Processes and what they share

| process | actors at work at the same time | state they share |
|---|---|---|
| monitor | FastAPI handlers on a thread pool, the APScheduler thread pool, background tasks, `docker exec`ed backup commands | LLDAP attributes, certificate files, certadmin, `.state.json`, the backup directory, module-level caches |
| ldap-proxy (Go) | one goroutine per HTTP request and per LDAP message | `RateLimiter`, `TokenStore` (SQLite), `connAuth` |
| LLDAP, TAK Server, certadmin, Docker | external | user attributes, groups, certificates |
| init-identity | one container per start of the stack, also beside a running monitor | LLDAP's schema, groups, users |
| containers' shell scripts | start-up, healthcheck probes, an operator's commands | files on volumes |

Nothing spans two of these systems as a transaction. What keeps them consistent
is the order of the calls, retries, and a daily or hourly job.

### Components

| component | state | operations | hard behaviour | what makes it correct |
|---|---|---|---|---|
| **User lifecycle and revocation** `app/api/users/{identity,router,tak_server}.py`, `app/api/service_accounts/cert_gen.py`, `app/scheduler.py` | LLDAP's `is_active`, `fastak_expires`, `fastak_certs_revoked`; certificates on disk and in certadmin; `crl_index.txt`, `ca.crl`; TAK client singleton | PATCH, DELETE, expiry job, revoke one, generate, enrol | read, merge and write of attributes without a lock; two `openssl ca` on one index; failures half-way; `_graphql` repeating a mutation; restart | a user marked as revoked has every certificate in the CRL, is inactive, stays so; expiry is enforced; nobody else's certificate is taken along |
| **Rate limit** `ldap-proxy/{ratelimit,auth}.go` | per address: a pruned slice of failures, `lockoutUntil` | check, record, restart | check and record are two critical sections; boundaries of window and lockout | locks out exactly when a limiter with a perfect memory would |
| **Enrolment tokens** `ldap-proxy/{tokens,tokens_api,proxy}.go`, `identity.py` | `tokens` table in WAL mode on tmpfs | Verify (clean-up, SELECT, DELETE), create, get, delete, expire | snapshot isolation, two binds with a token, lost replies | a one-time token is accepted once, a dead one never, and a plain no means that no valid token has that value |
| **Backups** `app/backup/*.py`, `app/api/backup/router.py`, `app/dashboard/routes.py` | flock, `.state.json`, `.age-identity`, archives, partial files, sidecars | run (three callers), prune, download key, delete | preflight and run take the lock separately; state file without a lock; crash and full disk at any step | runs exclude each other; archives can be decrypted; retention; the outcome is recorded |
| **LDAP connections** `ldap-proxy/{server,connauth}.go` | per connection: authenticated or not | bind, search, close | order of the requests of one connection | a search is relayed only after a successful bind |
| **Health polls and alerts** `app/scheduler.py`, `app/store.py`, `app/api/alerts/*.py` | last snapshot, last state, last alert time per service | poll, `check_and_alert`, restart | the initial polls overlap the scheduled ones; the clock is read before the lock; cooldown against deduplication; rows and channels that fail | every decision is the one a full memory would take; a decided alert goes to every channel; snapshots and states catch up with the sources |
| **Health checks and evaluator** `app/api/health/*.py`, `app/evaluator.py`, `thresholds.yml` | none | probe, evaluate, rows, summary | thresholds, filters, deduplication of rows | the status is that of the worst part, and the rows agree with it |
| **Groups** `identity.py` `set_user_groups`, `_ensure_user_groups`, group CRUD | groups and memberships in LLDAP | replace, ensure, create, delete | removals, then additions from one reading, any of which may fail or meet another request; the prefix `tak_`, taken off one name and put before another | the account ends in the groups asked for and keeps those it was to keep; nobody but webadmin gets `tak_ROLE_ADMIN` under its own name |
| **Service accounts** `app/api/service_accounts/*.py` | user, certificate files, admin registration, CRL | create with rollback, update, delete (revocation and mark included), download | failure between three systems; a name created again in the other mode, or while it is deleted | no usable account that the caller was told does not exist; no admin key in Node-RED's directory; no revoked certificate downloaded |
| **LLDAP client** `identity.py` `_graphql`, `_authenticate` | token, id map | login, retry | a retry of what was applied | the retry is harmless |
| **Audit and events** `app/audit.py`, `app/fastak_db.py` | table `fastak_events` | insert (errors swallowed), list | none that others depend on | never breaks the caller |
| **Docker client** `app/docker_client.py` | 30 s cache of services | find, exec | stale cache after a restart | an error instead of the wrong container |
| **Health checks, ops, TAK proxy routes** `app/api/{health,ops,tak}` | none | read, forward | none | input and output only |
| **Dashboard** `app/dashboard/routes.py`, `app/status.py` | none of its own | pages; `backups_run` starts a run | order of archives by mtime, not by name | shows what the API would |
| **Authorisation** `app/api/auth_deps.py`, `ldap-proxy/tokens_auth.go` | none | compare headers | none | pure |
| **Identity bootstrap** `init-identity/bootstrap.py` | schema, groups, users and attributes of LLDAP | idempotent steps | interruption, second run, requests beside it | an undisturbed run completes and leaves everything established |
| **Stack scripts** `setup.sh`, `start.sh`, `scripts/ensure-secrets.sh`, ... | `.env`, certificates, volumes | generate what is missing | interruption, second run | no secret is ever replaced |
| **Containers' scripts** `tak-server/{start,healthcheck}.sh`, ... | `.tripped` marker, incident captures | probe, capture, clear | marker and capture are two writes; restart | each incident leaves its first capture |
| **Compose, Node-RED, MediaMTX** | configuration | | | third-party programs |

Interactions: the expiry job and the handlers of the monitor act on one LLDAP user
and one certificate directory; revoking a certificate deletes the user's enrolment
tokens (monitor to ldap-proxy); a token lets a device obtain a certificate from TAK
Server; a backup run started by the API or the dashboard is a background task that
takes the lock again after a preflight; a key download writes the file in which a
run records its progress; requests and a second bootstrap act on the same groups and
accounts; the dashboard shows rows computed from the snapshot a poll stored.

## 2. Modules and their correspondence to the code

Each modelled component has one module with its properties, an MC module with the
instances, and a module of proofs; `Accounts` has three (types and the reserved role in
`AccountsProofs`, certificates in `AccountsCertProofs`, groups and the bootstrap in
`AccountsLdapProofs`, each extending the one before). `FailureBudget`, `TokenLedger` and
`AlertPolicy` are abstract specifications, which `RateLimiter`, `EnrollmentTokens` and
`HealthAlerts` implement. `HealthAlerts`
extends `HealthEvaluator`: a poll calls the probe and the evaluator defined there.

| module | lines of code it models | state | one action per |
|---|---|---|---|
| `UserRevocation` | `identity.py`, `router.py`, `tak_server.py`, `cert_gen.py`, `scheduler.py` | attributes, certificates, index, CRL, certadmin flags, tokens, queue of the job, operation per process | GraphQL call, `docker exec`, certadmin query, file read or write |
| `FailureBudget` | DD-037's promise | every failure ever counted, the last response | refusal, admission, answer, record |
| `RateLimiter` | `ratelimit.go`, `auth.go` | kept slice, `lockoutUntil`, requests in progress, the last response | critical section |
| `TokenLedger` | the promise of `Verify` (`tokens.go`) | the tokens, the values ever issued, the questions in progress | question, answer, issue, withdrawal |
| `EnrollmentTokens` | `tokens.go`, `tokens_api.go`, `proxy.go`, `identity.py` | rows, binds, enrolment requests | SQLite transaction or statement |
| `BackupRun` | `runner.py`, `state.py`, `retention.py`, `keys.py`, `cli.py`, `backup/router.py` | lock, state file, identity, directory, operation per process | system call that another process can see |
| `HealthEvaluator` | `health/*.py`, `evaluator.py`, `thresholds.yml`, `status.py`, the dashboard's rows | none: functions of a source | - |
| `AlertPolicy` | DD-022's rule for transitions | what was last said of a service, every alert | transition told, restart |
| `HealthAlerts` | `scheduler.py`, `store.py`, `engine.py`, `email.py`, `sms.py` | sources, snapshots, last states, last alert times, polls in progress | read, store, clock, critical section, row, one channel |
| `Accounts` | `router.py`, `identity.py`, `service_accounts/{router,cert_gen}.py`, `init-identity/bootstrap.py` | LLDAP's groups, users, memberships, types; certificate files; CRL; admin registrations; operation per process | GraphQL mutation, `docker exec`, file read |

### UserRevocation

`op` holds, per process, where its handler is and the local variables that survive
a step. `Request` processes are FastAPI handlers (they run on a thread pool and take
no common lock); `Sched` is the expiry job, one instance at a time. An operation is
a chain of steps: PATCH reads the user and later writes *all* managed attributes
(`Change`, `PatchSends`; `update_user`); DELETE and the job share
`Deactivate`, `ListDisk`, `ListAdmin`, `RevokeLoad`, `RevokeSave`, `RevokeGencrl`,
`MarkRead`, `MarkWrite`. `openssl ca -revoke` is two steps because it loads the
index and renames a new one over it; `-gencrl` runs only after `&&`. `Mutate` is one
mutation with the retry of `_graphql`: applied; applied, reply lost and sent again;
or raised. `Merged` is LLDAP's merge of inserted attributes (external, as the code
relies on it).
Certificates are model values with an owner; `Glob` says which files the pattern
`{username}-*.pem` finds, so name collisions are a matter of the instance.
`condemned` (history) holds the certificates somebody decided to revoke, `revived`
(history) the users whom a PATCH left active behind their deactivation: between it and the
end of the delete or sweep (`Leaving`), by `is_active: true` in the body or by writing back
the `"true"` it had read before. LLDAP holds that `"true"` for every user who was once
reactivated, and the instances begin with such a user.

### RateLimiter and FailureBudget

The slice of failures is a set of numbered failures; `Fresh` is the pruning with
`ts.After(cutoff)`, `LockedOut` is `now.Before(lockoutUntil)`. `CheckLockout`,
`Answer` and `RecordFailure` are the middleware, the handler's verdict and the
record; other requests run between them. `counted` and `serial` (history) are
`FailureBudget`'s variables: every failure that was counted, for ever. The
refinement maps the variables by name; `failures` and `lockoutUntil` do not exist in
the abstract specification, which decides from the whole history. `reply`, the last
response, is visible in both: a 429 too early or an admission during a lockout would
be a step the abstract specification does not have. `late` (history)
counts 401s answered during a lockout.

### EnrollmentTokens and TokenLedger

`VerifyStart` reads the clock, `Clean` deletes expired rows in its own transaction,
`Select` opens the read snapshot, `Consume` is the DELETE and COMMIT of a one-time
token. Each of BEGIN, SELECT, DELETE and COMMIT may fail (`failed`): `Verify` then
returns false with an error, which `HandleBind` logs before it asks LLDAP, as after a plain
no. SQLite in WAL mode refuses to turn a read snapshot into a write when anybody
has committed since; the model compares the table and the set of tokens ever
inserted with those at the SELECT, and calls that error `stale`. `GetActive` and `Create` are the monitor's
get-or-create, two HTTP requests; a lost reply of the second makes `_proxy_request`
send it again. `Restart` loses the database (tmpfs).
`TokenLedger` is what that amounts to for whoever binds: a question is asked at one
moment and answered at another, with one look at the ledger and the time of the
question. The refinement takes the table for the ledger and a `Verify` for a question
without an answer until it is accepted or rejected (`AsQuestion`), so an accepting
`Select` and a `Consume` are the answers, and a clean-up may only forget expired tokens.
Instead of an answer a question may end in an error (`failed`, `stale`), which says nothing
of the token and leaves the ledger alone; a refusal needs that no valid token is there.

### BackupRun

`Start` begins a run (from the command line, the API or the dashboard), a manual
prune or a key download. API and dashboard runs begin with a preflight that takes
and releases the lock. A run: name (before the lock), lock, `running`, identity,
dump, stream, rename, sidecar, `success`, prune, unlock; `Cleanup` is the `except`
clause, entered from every step inside the `try`. `.state.json` is read and
replaced in two steps (`ReadState`, `WriteState`), by runs and by key downloads.
`Crash` drops every process and the lock. An archive is its name (a second) and the
identity it was encrypted for. `made`, `removed`, `handed` are history.

### HealthEvaluator, AlertPolicy and HealthAlerts

A source is what a probe can find: `[up, parts]`, the parts being files, endpoints,
mounts, tables, releases or containers with the fields the checks read. `Probe`
is the eight health functions (which parts they skip, collapse or report as
unreadable), `Evaluate` the evaluator with the thresholds of the service, `Rows` the
dashboard's tables, `Overall` the summary. They are functions, compared with
`PartLevel`, the level each part deserves taken one at a time: by TLC on bounded
sources, by proof on every source that is `Formed` (its parts have the fields their
service reads). `PartLevel` knows of the code's filters only what a comment, a threshold
file or a decision record says of them: an `exited` container is critical unless it is
one-shot (`once`), a mount that cannot be read is an error. What the code leaves out
beyond that is named, part by part, in `Overlooked` (section 5). The loops of the
evaluator are written without recursion: `Picked` is the `continue` of a loop, `WorstOf`
its running maximum.

`poll` holds, per poller, where its poll is and its local variables. A poller is the
job of a service (APScheduler runs one instance at a time) or `Startup`, the thread of
`start_scheduler`, which polls every service once, in order, after the jobs have been
started. A poll is `Read` (probe and evaluation), `Store`, `ReadClock` (`now =
time.time()`, before the lock), `Decide` (the critical section of
`check_and_alert`), `Record` and one `Send` per channel. `Restart` empties the
module-level dictionaries. `lastAlert` starts at `-Cooldown`: the code's 0.0 is that
far in the past for any real clock.
`AlertPolicy` is DD-022's rule for transitions; what DD-022 says of a service that worsens
during the cooldown is a property of its own, `WorseningAlerts`, which fails.
The engine's refinement keeps two history variables, `seen` (what was last said of a
service) and `alerts` (every notification decided), which are `AlertPolicy`'s; the
policy decides from all alerts, the engine from one time per service.

### Accounts

`op` holds, per process, where a handler (or init-identity, process `Boot`) is and its
local variables: the groups it still has to leave (`drop`) and to join (`todo`), those
it found `missing`, those whose id it holds although they are `gone`. Creation of an
account is `CreateCheck`, `CreateUser` (an existing one counts as success),
`CreateAttrs`, `EnsureGroups`, `MakeGroup` and `Join` per group, and for a service
account `Csr`, `Sign`, `Bundle`, then `WritePems` or `RegisterAdmin`, with `Rollback`
when one of them fails. `SetCheck` validates, `SetPlan` reads the groups once, `Drop`
and `Join` carry the plan out. `Mutation` is one GraphQL mutation: applied, or given
up on whether or not it was applied. `Exec` is one `docker exec`. A certificate file is
the key, the `.pem` (serial, key), the serial in the `.p12` and the pair in
Node-RED's directory, because the three `openssl` commands write them one by one.
`Download` looks the serial up, reads the CRL and sends the `.p12` in three steps.
Names: `list_groups` takes `tak_` off a group's name and a request names groups as they
are listed, while `set_user_groups` and `_ensure_user_groups` put `tak_` before a name
only when it does not begin with it. A name stands in the model for the group that is
listed under it, and `Meant` says for which group it is taken: another one exactly for
groups an operator made with a doubled prefix (`tak_tak_X` is listed as `tak_X`).
`DeleteService` is the whole handler: `Deactivate`, `ListCerts` and `RevokeListed` (which
certificates certadmin knows is a choice), `MarkRead` and `MarkWrite` (which writes back
the type it read), `RemovePems`.
The steps of `Boot` are those of `main()`: schema, groups, webadmin with its groups
and type, the service account and its type; it fails when LLDAP refuses something,
and the next start runs it from the beginning. `booted` is what Compose waits for
before the monitor starts.
`wanted`, `before`, `cut`, `misled`, `raced`, `fate`, `served`, `disturbed` are history.
Here a revocation is one step that puts one serial in the CRL; the files of `openssl ca`
and the mark itself are `UserRevocation`'s.

## 3. Runs, bounds and what they show

Every passing run's properties are each broken by a mutant of the code (a dropped
guard, an off-by-one, a missing step), listed in `PROJECT.json` and kept in the
modules before the definition they change.

| run | expect | distinct states | shows |
|---|---|---|---|
| `revocation_sweep` | pass | 630,100 | one revoker, every fault but certadmin's, restarts, a broken TAK client: `SweepComplete`, `ListedRevoked`, `RevokedStaysRevoked`, types, and under fairness `ExpiryEnforced` |
| `revocation_admin` | pass | 6,023,445 | two users (one once reactivated), deletions, PATCHes and revocations beside the job: `OnlyCondemned`, `RevokedUserInactive` |
| `revocation_retry` | violation | - | after one failure the retries never succeed |
| `revocation_overlap` | violation | - | two revocations at once: a serial leaves the CRL |
| `revocation_service` | violation | - | a service account's certificate survives its deletion |
| `limiter_budget` | pass | 170,407 | refinement of `FailureBudget`, `FreshBudgetAfterLockout`, `LateBounded` |
| `tokens_binds` | pass | 1,555,256 | refinement of `TokenLedger`, `OneTimeOnce`, `NoDeadTokenAccepted`, `ValidTokenMatches` |
| `backup_safety` | pass | 1,039,420 | mutual exclusion (in `TypeOK`), `Decryptable`, `DownloadedKeyOpens`, `RetentionFloor`, `LastRunRestorable` |
| `backup_settles` | pass | 218,913 | liveness: `LastRunSettles`; `OutcomeReported`, `RunningIsTrue`, `HandlersEnd` |
| `health_alerts` | pass | 164,046 | refinement of `AlertPolicy`, `AlertsGoOut`; liveness: `StateCatchesUp`; `StatusIsWorstPart`, `RowsAgree` on every bounded source |
| `health_worsened` | violation | - | a service that worsens during the cooldown is never alerted of |
| `accounts_shared` | pass | 878,692 | `GroupsAsAsked`, `RoleReserved`, `ServiceSound`, `AdminKeyNotShared`, `HandedOutRevocable`, `RevokedNotServed`, `BootstrapIdempotent` |

What the properties say, in the words of the system:

* `SweepComplete`: when a user is about to be marked as revoked, every certificate that
  existed all along is in the CRL. `ListedRevoked`: so is every one its sources listed, one
  signed a moment ago included. `RevokedStaysRevoked`: no serial leaves it.
  `ExpiryEnforced`: an expired user is eventually inactive, or extended. `OnlyCondemned`:
  nobody loses a certificate that no one decided to revoke. `RevokedUserInactive`: no
  marked user is active. The last two except users a PATCH made active again behind
  their deactivation (`revived`).
* `FreshBudgetAfterLockout`: whoever waits out a lockout has all attempts again.
  `LateBounded`: how many answers may arrive during one.
* `OneTimeOnce`, `NoDeadTokenAccepted`: a one-time token lets at most one bind in, an
  expired or deleted one none. `ValidTokenMatches`: a no without an error means that no
  valid token of that user has that value, and what others write meanwhile makes an error
  of one-time tokens only. `ImplementsLedger`: a bind is answered as by one look at the
  table, or with an error, and a clean-up takes nobody's live token.
* `Decryptable`, `DownloadedKeyOpens`: the identity on disk, and each complete key
  handed out, open every archive. `RetentionFloor`: one of the newest archives is gone
  only if somebody deleted it. `OutcomeReported`: a run emits its outcome before it
  releases the lock. `LastRunSettles`: `.state.json` does not say `running` for ever.
  `RunningIsTrue`: when it says so, the holder of the lock is making that archive.
  `LastRunRestorable`: when it says `success`, that archive can be restored from, however
  stale the record. `HandlersEnd`: nothing under the lock is tried again, so every
  handler has finitely many steps left.
* `AlertsGoOut`: a decided alert has gone to every channel or is still on its way.
  `StateCatchesUp`: when sources stop changing, snapshots, states and the summary
  become theirs. `StatusIsWorstPart`: a status is the worst level of the parts, except
  that three kinds are overlooked, which hide no other. `WorseningAlerts` (violated): a
  service that stays critical past the cooldown has been told of as critical.
  `RowsAgree`: the dashboard's rows justify it.
* `GroupsAsAsked`: an account keeps the teams it had and all overlapping requests ask for,
  and gets none nobody asks for, even while they mix or when one fails half-way; when
  they are through and none has failed, it is in what all asked for and in nothing nobody
  did. Requests that name a group which is listed under another one's name are left out.
  `RoleReserved`: only webadmin is in `tak_ROLE_ADMIN`, and accounts a request named a
  group for that is listed under its name (`misled`). `ServiceSound`: a failed
  creation leaves no active account; a reported one has the bundle of its
  certificate, with the admin role exactly if that was its mode.
  `AdminKeyNotShared`: no key in Node-RED's directory has the admin role.
  `HandedOutRevocable`: a person's downloaded certificate can still be found to be revoked,
  or is.
  `RevokedNotServed`: no bundle that was revoked when the request came is sent,
  unless the CRL could not be read; of a service account this is said of the bundle that
  belongs to its `.pem`.
  `BootstrapIdempotent`: an undisturbed bootstrap completes, after any earlier ones.

### Bounds

All bounds are CONSTANTS with `Max` in their names, set in the `.cfg` files, and
they occur only in guards of the clock, the environment's faults and arrivals.

* `UserRevocation`: the sweep has one user with two certificates on disk and one
  enrolled. Two files are the least that lets one fail and the other succeed; the
  enrolled one makes the second source matter. The admin run has two users with a
  certificate each, one on disk and one enrolled, so that a certificate of another
  user can be taken along from either source. One request beside the job gives
  every interleaving of two writers of the attributes; the overlap run has two
  requests. PATCH bodies of the sweep reactivate or set an expiry, those of the admin
  run deactivate, set or clear one. The users begin
  without or with an expiry, and with `is_active` unset or, once reactivated, `"true"`.
  `MaxTime` 2 leaves a tick before and after the expiry (at 1).
  `MaxFaults` 2 allows a lost reply and a restart in one behaviour.
* `RateLimiter`: two addresses, two requests in progress, four failures, window 2, lockout 3,
  two attempts, six ticks: failures at, before and after the edge of the window,
  a whole lockout and a second one after it.
* `EnrollmentTokens`: two users, two tokens, two binds, one enrolment request,
  lifetimes 0 (for ever) and 1, one fault. Two binds are what a race for a token
  takes; two tokens let one be inserted while the other is consumed.
* `BackupRun`: two processes of any kind, three starts, one fault, two seconds,
  retention 1 with manual `--keep 2`. Three starts allow a run to complete, and a
  second to overlap with a prune, a download or a third run.
* `HealthAlerts`: the engine runs on one service, `containers`, whose four sources have
  the four levels (one below `alert_min_level`); services do not interact, and two
  pollers (its job and start-up) are what an overlap takes. Cooldown 1 and
  `MaxTime` 1 put a poll within the cooldown and at its end (the violation run has 2 and
  2: after one tick the service has worsened, after two the cooldown is over); two changes of the source
  allow worse and recovered, or a recurrence; one restart. Two channels, so
  that one can be done and the other not. The evaluator's sources (`MostInputs`) are
  all sequences of up to two or three parts with values at and beside every
  threshold, for every service, unreadable mounts, one-shot and long-running containers
  that exited and empty error messages included; two readable mounts of one device are
  equally full.
* `Accounts`: webadmin (who is also the person requests are about), one service
  account, two teams, a third group that may be made as `tak_tak_ROLE_ADMIN`, one gate
  group, two handlers. `MaxStarts` 3 counts requests and
  bootstraps beside a running monitor: two overlapping requests after an earlier one,
  or one beside a second bootstrap. `MaxBoots` 2 is a cut-off bootstrap and its
  repetition, `MaxFaults` 1 a failed call at any one place; a rollback that fails is
  still met, after a creation that failed by itself (its key changed under it).
  Section 4's theorems bound neither. The stack begins
  new, or started again with the operators' groups.

`CHECK_DEADLOCK FALSE` is set where the bounds on the clock and on arrivals make a
quiet system stop.

### Fairness

* `UserRevocation!Fairness`: the clock ticks; APScheduler starts the job every
  interval and the job's thread goes on (`SchedStep`); a handler that has begun goes
  on (`Step(r)`). Arrivals, faults, restarts and devices have none.
* `BackupRun!FairSpec`: a thread or command that has begun goes on. Nobody is
  obliged to start anything.
* `HealthAlerts!FairSpec`: the clock ticks, the interval trigger of each job fires for
  ever (`JobReads`), and a poll that has begun goes on (`PollStep`), since every wait
  in it has a timeout. `start_scheduler` is not obliged to poll anything, and
  sources and restarts have no fairness.

`ExpiryEnforced` leaves out what a PATCH does behind the deactivation (`revived`; section
5), whether it says `is_active: true` or writes back the `"true"` it had read. `LastRunSettles` is checked
without crashes and full disks, after which the file says `running` until the next
run (there is no heartbeat to tell), and without key downloads, one of which can write
`running` back over the outcome (section 5).
`Accounts` has no liveness property: nothing in it is repeated until it succeeds.

## 4. Proofs

All theorems are checked by tlapm from the definitions that TLC runs; the
assumptions are the named `ASSUME`s of the modules (sets, naturals, distinct
values) and the hypotheses stated in the theorem.

| module | theorem | hypotheses | argument |
|---|---|---|---|
| `UserRevocationProofs` | `TypeCorrect` | none | `TypeInv`, one step per action; an operation's todo list holds certificates of a known owner |
| | `SweepIsComplete` | `SingleRevoker`, `OwnFilesFound`, `CertadminAnswers` | `SweepInv` |
| | `ListedIsRevoked` | `SingleRevoker` | `ListedInv` |
| | `RevokedStayRevoked` | `SingleRevoker` | `IndexInv` |
| | `NobodyElsesCertificate` | `PatternsOwn` | `CondemnInv` |
| | `RevokedUsersInactive` | `InitiallySettled` | `InactiveInv` |
| `RateLimiterProofs` | `TypeCorrect` | none | `TypeOK` is inductive with the numbering of failures |
| | `LimiterImplementsBudget` | none | below |
| | `FreshBudget` | lockout at least as long as the window | no failure is counted during a lockout, so the last one counted is `lockout` old when it ends |
| | `LateIsBounded` | none | whoever fails during a lockout was let through before it; each request can do so once |
| `EnrollmentTokensProofs` | `TypeCorrect` | none | token values are inserted once, so they are a key |
| | `OneTimeTokensOnce` | none | the row is there exactly as long as the token is unused |
| | `DeadTokensRejected` | none | a row that was dead for the bind's clock reading stays so |
| | `ValidTokensMatch` | none | a row that the SELECT missed is not live later |
| | `TokensImplementLedger` | none | `OnceInv`, `MatchInv`, below |
| `BackupRunProofs` | `TypeCorrect` | none | exactly the process between taking and releasing the lock holds it |
| | `ArchivesDecryptable`, `DownloadedKeysOpen` | none | `KeyInv` |
| | `NewestArchivesStay` | none | `RetainInv` |
| | `OutcomesAreReported` | `DiskHasRoom` | `OutcomeInv`: a run that has come to its prune or its unlocking has reported |
| | `LastRunsRestorable` | none | `SuccessInv`, `RetainInv` |
| | `RunningMeansARunIsAtWork` | `Undisturbed` | `RunInv` |
| | `HandlersComeToAnEnd` | none | `Left` decreases, or the list of a prune |
| `HealthAlertsProofs` | `TypeCorrect` | none | a poll's local variables belong to its service |
| | `EngineImplementsPolicy` | none | `EngineInv`, below |
| | `AlertsAllGoOut` | none | an alert stands in `left` of its poll until it is sent |
| | `StatusIsTheWorst` | none (`InputsAssumption`) | `Judgement`, one lemma per service; `StoredInv` |
| | `RowsAgreeWithStatus` | none (`InputsAssumption`) | `RowsOnly`; `StoredInv` |
| `AccountsProofs` | `TypeCorrect` | none | `TypeInv`, below |
| | `RoleIsReserved` | none | memberships come about in `Join` only, and `TypeInv` says whose they are |
| `AccountsCertProofs` | `AdminKeysStayPrivate`, `ServicesAreSound`, `DownloadsStayRevocable`, `RevokedStaysIn` | none | `CertInv` |
| `AccountsLdapProofs` | `BootstrapsEstablish` | none | `BootInv` |
| | `GroupsBecomeAsAsked` | none | `GroupsInv` |

The hypotheses are about the deployment, and a run's instance satisfies each of them:

* `SingleRevoker`: no request deletes users or revokes certificates beside the job
  (`crl_index.txt` has one writer). `revocation_overlap` shows what happens otherwise.
  `revocation_sweep` satisfies it.
* `OwnFilesFound`, `CertadminAnswers`: the pattern `{username}-*.pem` finds at least the
  user's own files, and certadmin answers. The first is what `revocation_service` lacks.
* `PatternsOwn`: the pattern finds nobody else's files. The usernames `x` and `x-y`
  violate it (section 5), and then `OnlyCondemned` is false. `revocation_admin`
  satisfies it, with any number of overlapping deletions, revocations and sweeps.
* `InitiallySettled`: the directory does not begin with a user who is marked as revoked and
  active at once. It says nothing else of the users or of the PATCHes.
  `revocation_admin` satisfies it.
* `DiskHasRoom`: `.state.json` can be written. `write_last_run` comes before the event,
  so a full disk skips it (`backup/runner.py:176`). `backup_settles` satisfies it.
* `Undisturbed`: `DiskHasRoom`, no crash during a run, no key download. Each of the three
  leaves or puts back a `running` that nobody is at work for: a full disk skips the
  outcome, a crash never comes to it, and a download writes back the record it read
  (section 5). `backup_settles` satisfies it.

Why the invariants have to be stronger than the properties:

* `SweepInv`. `SweepComplete` speaks of the moment before the mark. To get there the
  invariant `GoodSweep` says of the job's operation, wherever it is, that as long as
  no certificate failed, everything its sources have covered so far is in the CRL or
  still on the list; that the index it holds between load and save is the current
  one; and that the CRL is contained in the index. The last two are what a second
  revoker breaks (`revocation_overlap`), which is why the hypothesis is there. The
  other two hypotheses are exactly the violations with a service account and with a
  silent certadmin.
* Refinement. The limiter forgets what it prunes and what preceded a lockout; the
  abstract specification forgets nothing. The invariant says that the kept slice
  contains every counted failure within the window, and that `lockoutUntil` is the
  end of the latest lockout any counted failure triggered. Then a check gives the
  same verdict in both, and a step of the limiter maps to a step of `FailureBudget`
  with the same name, or to a stutter.
* `KeyInv`. Whether an archive can be decrypted depends on what the run read when it
  began. The invariant ties to the identity file: every archive, every run between
  reading the identity and renaming its archive, every download in progress and
  every complete key handed out. A process in `keygen` implies that no complete
  identity exists, hence no archive; that only one process generates comes from
  `TypeCorrect` (the lock).
* `IndexInv`. The CRL is contained in the index, and the index that the job holds between
  load and save is the current one. A crash loses what was loaded, a failing `-gencrl`
  leaves the CRL behind the index; neither takes a serial away.
* `ListedInv`. While no certificate has failed, all that the sweep's sources have listed is
  in the CRL or still on the list, and the serial between `-revoke` and `-gencrl` is in the
  index. Unlike `SweepInv` it needs neither `OwnFilesFound` nor `CertadminAnswers`: what
  the sources leave out is another question.
* `CondemnInv`. `OnlyCondemned` speaks of the CRL; what gets there was on some
  operation's list, in the copy of the index it loaded, or was saved by somebody else in
  between. The invariant says of all of these, and of the queue of the job, that they
  hold only what was `condemned`, which only grows.
* `InactiveInv`. Attributes are read, merged and written back steps later. The invariant
  therefore speaks of what is in flight: a delete or sweep past its deactivation, and an
  entry of the job's queue that was read as inactive, has a user who is inactive or
  `revived`, and the reading it sends back with the mark does not say `"true"` unless the
  user is `revived`. A PATCH never leaves the mark beside an active user by itself: it
  clears the mark unless it sets `is_active` to false.
* `RetainInv`. `prune` lists the directory once and unlinks name by name while other runs
  add archives and other prunes take some away. Each name on its list has at least
  `Floor` newer ones among everything ever made, and no step lowers that number.
* `SuccessInv`. A record of `.state.json` is read by one process and written back later by
  another, so the invariant speaks of the record on disk and of every copy somebody holds
  (`Recorded`): if it says `success`, its archive was completed. That it still exists, was
  deleted or is outnumbered by newer ones is `RetainInv`'s.
* `RunInv`. A recorded `running` names the archive of the process that holds the lock, and
  that process is between recording it and recording its outcome (`AtWork`); nobody else
  writes, as there are no downloads and a second run fails at the lock.
* `Left`. The number of steps a handler still has at most, by its place, decreases with each
  of its own steps and is not touched by others; during a prune the set of archives to
  unlink shrinks instead. Together with the fairness of `FairSpec` this is why
  `LastRunSettles` holds; the step from the one to the other is TLC's.
* `CertInv`. Serials are handed out once, in order, and no two accounts share one
  (`Numbered`, `OwnSerials`), so an administrator's registration by serial says nothing of
  another account's key. For each operation it says what it knows of the files of its
  account whoever else signs there (`Backed`), and what it knows if nobody does
  (`Alone`): the serial just signed is neither registered nor in Node-RED's directory,
  and what goes into one of the two does not go into the other. For a download it says that
  the serial looked at still stands in the `.pem`, or that what stands there is newer than
  all that was revoked when the request came (`Numbers`, `Backed`): a deletion revokes and
  a re-creation signs beside it. Accounts in `raced` are
  left out of the properties, but share serials, the CRL and the registrations with all
  others, so the invariant must survive whatever is done to them.
* `BootInv`. What each place of an undisturbed bootstrap has already established: the
  groups it has gone past exist, webadmin is in those it has gone past, then the types.
  That a request beside it which spares all of this (`Spares`) keeps it is a lemma.
* `GroupsInv`. `set_user_groups` reads once and then takes away and adds step by step.
  An account that somebody's request is still about has not the groups asked for, but
  each request by itself is on its way there (`SetGood`): what all asked for is in place
  or on its list of additions, what nobody asked for is gone or on its list of removals.
  `Between` says what holds all along, also when a request ends half-way (`cut`): nothing
  that was there and all asked for is taken, nothing is given that nobody asked for.
  All of it is about requests whose names are taken for themselves (`Claims`).
* `MatchInv`. The reading of the clock is behind the clock, so what was not live
  at the reading is not live later, and a token value is issued once: a question answered
  no has missed no row that will ever be live again. A bind waits to
  delete only the row of a one-time token, so only such a bind is ever `stale`.
* Refinement of `TokenLedger`. A `Consume` that goes through finds the table as it was at
  the SELECT, so the row it found there (`Found`, in `OnceInv`) is the one row with that
  token, and deleting by id is taking that row off the ledger. A refusal is
  a SELECT without a row; an error, at the SELECT or at the DELETE, is the ledger's error. What a
  clean-up removes was expired at its reading of the clock, which is not ahead.
* `EngineInv`. The policy asks whether every alert it remembers is a cooldown old, the
  engine whether the last one is. They agree because `lastAlert` is the time of the
  newest alert (`Newest`), which needs that every alert's time is at most
  `lastAlert`, although polls may decide with times they read earlier and out of
  order: an alert is only added when its time is a cooldown after the last one. Of the
  evaluator this proof uses two facts: a verdict's status is a level
  (`VerdictAssumption`, which TLC evaluates) and `should_alert` depends on that level
  alone.
* `Judgement` and `StoredInv`. That the evaluator's status is the worst level of the parts
  is a fact about functions, `\A s, x : Formed(s, x) => IsWorstPart(s, x)`, for
  sequences of every length. It goes through three layers: what a probe leaves out or
  collapses deserves ok or has a twin that stays (a user's certificate, a one-shot container, a second
  endpoint with the same expiry, a second mount of a device, a small table); parts in
  `Overlooked` contribute nothing, and no other part is left out in their place; the status
  of one item is the level of its part (`ExpiryLevel`, `NumberLevel`, `FlagLevel`); and
  the loop returns the worst (`Worst`, `ListWorst`). Nothing is proved by recursion:
  the running maximum is the least index of a worst verdict, which exists because the
  natural numbers are well-founded (`Least`), and the filter is `Picked`, about which
  `PickedExactly` says that it has the chosen elements and no others.
  `StoredInv` carries the fact to the snapshots: a poll about to store holds the
  verdict on the source it read, however late.
* `TypeInv` of `Accounts`. That memberships are of groups that exist does not follow
  from types: between a look at the groups and the addition a group may be deleted. The
  invariant `Holds` says of a handler's record, by its place, that the groups
  it will join exist or are known to be gone, that its account exists, and that
  `tak_ROLE_ADMIN` is among them only for webadmin and for accounts in `misled`.

The assumptions beyond sorts are `ChannelsAssumption` (the channels are a sequence),
`VerdictAssumption`, `InputsAssumption` (the sources on which the evaluator is judged are
`Formed`: each part has the fields its service reads, numbers of any size and any
answers; a database and a `.env` are one part; readable mounts of one device are equally full),
`ServiceAssumption` and `AccountsAssumption` (the kinds of accounts and of groups are
disjoint, every listed name is taken for some group with the prefix, `tak_ROLE_ADMIN`'s
for itself, init-identity is not a handler).

Every invariant and every safety property that a passing run checks is also a theorem.
Left to TLC is liveness: `ExpiryEnforced`, `LastRunSettles` and `StateCatchesUp` need
fairness and `ENABLED`, which this prover cannot reason about. The level of
`GET /api/health` (`Overall`) occurs in the last of these only. No module uses recursive
operators.

## 5. Where code and documentation disagree

Four disagreements have a run, whose counterexample TLC finds in each check, and an
entry under "findings" of `PROJECT.json`:

1. `revocation_service`: `find -name {username}-*.pem` does not match
   `{username}.pem`, the only certificate of a service account; deletion leaves it
   valid.
2. `revocation_retry`: `openssl ca -revoke` fails on a serial that is revoked
   already, and the sweep counts that as a failure: after one partial failure the
   user is never marked.
3. `revocation_overlap`: two revocations share `crl_index.txt` without a lock; the
   slower one writes back an index without the other's serial.
4. `health_worsened`: `docs/decisions.md:1156` says that a service which worsens within the
   cooldown "does not re-alert until the cooldown clears" (the limit tracked as #131);
   `engine.py:103` returns on an unchanged state before it looks at the cooldown, so it
   does not re-alert after it either, for as long as that state lasts.

The same modules produce counterexamples for more, found with instances that are
not kept as runs. They follow from the definitions named:

* `mark_key_downloaded` (`backup/state.py:67`) writes back the `last_run` it read: a
  download that overlaps the end of a run restores `running` over its outcome
  (`ReadState`, `WriteState`, with `"key"` among `Kinds` in `backup_settles`).
* A PATCH that lands between the deactivation of a user and `mark_certs_revoked` with
  `is_active: true`, or a PATCH of the TTL alone that had read `is_active` `"true"` before
  the deactivation, leaves the user active and marked as revoked, and the job never looks
  at the user again: expired and active for ever (`PatchWrite`, `MarkWrite`, `Pending`;
  `revived` excludes the user from `ExpiryEnforced` and `RevokedUserInactive`).
* DD-055 (`docs/decisions.md:45`) wants an error item for whatever a probe cannot read;
  `health/disk.py:43` skips a mount that raises (`DiskReading`, `Overlooked`).
* `monitor/config/thresholds.yml:72` calls an exited container critical and the comment at
  `health/containers.py:16` speaks of init containers, but the filter there takes out every
  container that exited with 0, a long-running service included (`ContainerReading`,
  `Overlooked`).
* An update check that fails with an empty message (`health/updates.py:71`) is neither an
  error nor an update for `evaluator.py:75`, which tests the message's truth (`Erroneous`,
  `Overlooked`).
* DD-026 says `tak_ROLE_ADMIN` does not appear "anywhere operators can assign it". A group
  created as `tak_tak_ROLE_ADMIN` is listed as `tak_ROLE_ADMIN` (`identity.py:539`), and that
  name is then taken for the role's group (`identity.py:610`, `651`): `RoleReserved` excepts
  the accounts concerned (`misled`). Likewise `tak_blue`, the listed name of
  `tak_tak_blue`, puts an account in the group `tak_blue` (`Taken`), or creates it.
* `set_user_groups` that fails between its removals and its additions leaves the account
  without groups it was to have (`Drop`, `Join`; `cut` in `GroupsAsAsked`).
* Deleting a service account while it is created again writes the old type back with the
  mark (`MarkWrite`; `raced`). A re-creation that fails between `openssl x509` and
  `pkcs12` leaves the old bundle beside a new `.pem`, and a download of the old bundle,
  revoked or not, is judged by the new serial (`Sign`, `Bundle`, `LookSerial`).
* Re-creating a service account counts as success (DD-032). From data to admin it
  gives an admin account groups (`CreateUser`, `CreateAttrs`); a failing certificate
  then deactivates the account that worked (`Rollback`); after a deletion the account
  stays inactive; the old `.pem` is overwritten, and its serial can no longer be revoked
  by name. `ServiceSound` and `AdminKeyNotShared` hold in spite of these.
* `PATCH` of the groups between `createUser` and `updateUser` of a creation is checked
  against no type and gives an admin account groups (`SetCheck`, `CreateAttrs`).
* `PUT` of webadmin's groups removes `tak_ROLE_ADMIN`, which cannot be asked for
  (`SetPlan`), and `DELETE /api/groups/{id}` deletes the group itself (`DeleteGroup`);
  the next bootstrap restores both, which is why `BootstrapIdempotent` counts them as a
  disturbance of the one in progress only.
* Two concurrent requests generate one certificate name: both pass the 409 check, and
  the first serial is lost (`GenerateCheck`; `raced` excludes the account from
  `HandedOutRevocable` and `RevokedNotServed`).
* `list_user_certs` turns an HTTP error into an empty list, so the sweep is "clean"
  with enrolled certificates unrevoked (`ListAdmin`, fault `certadmin`).
* A PATCH without `ttl_hours` writes back the expiry it read, over one that was set
  in between (`PatchSends`); likewise it can take back the mark of a revoked user.
* With usernames `x` and `x-y`, deleting `x` revokes the certificates of `x-y`
  (`Glob`).
* `generate_user_cert` checks the user and signs later; a certificate signed after
  the sweep outlives the user (`GenerateCheck`, `GenerateSign`).
* Requests let through before a lockout are answered during it: up to one less than
  the number in progress (`LateBounded` is the bound that does hold).
* A valid one-time token is answered with an error, and the bind refused, when anybody
  writes to the table between SELECT and DELETE (`Consume`, `stale`).
* An error of `Verify` is a refusal of the bind, although the token is valid: `HandleBind`
  goes on to LLDAP, where it is nobody's password (`Select`, `Reply`).
* Two enrolment requests for a user both find no token and create one each
  (`GetActive`, `Create`).
* `write_last_run` writes back the `key_downloaded_at` it read, and the banner
  returns (`ReadState`, `WriteState`).
* `prune` raising after `success` makes one run emit both `backup.completed` and
  `backup.failed` (`PruneList`, `Cleanup`).
* The preflight holds the lock for a moment, and a run started then is refused
  although none is in progress (`Preflight`, `Lock`).
* A dashboard run beaten to the lock leaves no trace; an API one records `failed`
  over the status of the run in progress (`Refused`).
* A key downloaded while `age-keygen` is at work is an incomplete file (`CopyKey`);
  `DownloadedKeyOpens` is about complete ones.

Seen in reading, outside the models: `list_user_certs` prefers certadmin's missing
revocation date to the CRL's entry; `health/certs.py:34` counts the file of a user with
a dot in the name as infrastructure; the service cache of `docker_client.py` is up to 30 s old;
the activity log may show two start-up transitions in either order; the incident marker
of `tak-server/healthcheck.sh` is cleared by a healthy pass only, and a certificate
within 30 days of expiry prevents one.

## 6. What is not modelled, and why

* `status: not_modelled` in `PROJECT.json` gives the reason for each component:
  stateless, start-up glue in shell, or a third party's program. Of the LDAP
  connections the bind's verdict is modelled (`EnrollmentTokens`); the boolean per
  connection is set by it, and what orders the requests and the close of one
  connection is gldap's, which is not in the repository.
* Within the modelled components: passwords, the listing of users and certificates,
  the contents of archives (one write), `X-Forwarded-For` parsing, the audit log (its
  errors are swallowed; only a run's outcome events are kept), the login token and
  the id map of the GraphQL client, certificate validity and TAK Server's own CRL
  reload, the version comparison of the update check, credential files.
* Two steps of `BackupRun` are coarser than the code: `ReadState` leaves out
  the defaults the code takes for a `.state.json` it cannot read (one that is missing is
  `Init`'s; it is only ever replaced by a rename), and `PruneUnlink` takes an archive and
  its sidecar away at once (no decision reads a sidecar without its archive).
* What a health check asks of the world (openssl, sockets, SQL, HTTP, Docker) is its
  source, any value of the instance.
* Time is discrete and one clock is shared by all; steps of a handler take no time
  of their own but any number of ticks may pass between two of them.
* `Restart` of ldap-proxy drops tokens and the limiter; a restart of LLDAP or TAK
  Server appears to the monitor as a failed call.

## 7. Plan

Done, in this order: `UserRevocation`; `FailureBudget` and `RateLimiter`;
`EnrollmentTokens`; `BackupRun`; `HealthEvaluator`, `AlertPolicy` and `HealthAlerts`;
`Accounts`; their runs and the theorems above.

What could follow: rankings like `Left` for the expiry job and the polls (the safety half
of `ExpiryEnforced` and `StateCatchesUp`), and theorems about what section 5 leaves of a
promise when its hypothesis fails, such as a bound on what two revokers can lose.

Not planned: the shell scripts (sequential, run by one operator) and the pages of the
dashboard.
