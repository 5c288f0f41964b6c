----------------------------- MODULE RateLimiter -----------------------------
(***************************************************************************)
(* ldap-proxy's limiter on /auth/verify: per address, a slice of recent    *)
(* failures pruned when a failure is recorded, and one lockoutUntil.  The  *)
(* middleware checks the lockout, the handler binds against the token      *)
(* store or LLDAP, and records a failure on a 401.  Each of the two calls  *)
(* holds the mutex; between them other requests run.                       *)
(***************************************************************************)
EXTENDS Integers, FiniteSets

CONSTANTS IP, Request, None, window, lockout, maxAttempts,
          MaxTime,      \* bound on the clock
          MaxFailures   \* bound on the number of failures counted

LimiterAssumption ==
    /\ window \in Nat \ {0}
    /\ lockout \in Nat
    /\ maxAttempts \in Nat
    /\ None \notin IP
    /\ IsFiniteSet(Request)
    /\ MaxTime \in Nat /\ MaxFailures \in Nat

ASSUME LimiterAssumption

VARIABLES
    now,            \* the limiter's clock
    failures,       \* per address, the slice of failures it has kept
    lockoutUntil,   \* per address, 0 when there never was a lockout
    handling,       \* per request, the address it came from, or None
    reply,          \* the last response: to which address, and what it said
    counted,        \* history: every failure counted since the start
    serial,         \* history: number of the next failure
    late            \* history: per address, 401s answered during a lockout

vars == <<now, failures, lockoutUntil, handling, reply, counted, serial, late>>

Response(ip, code) == [ip |-> ip, code |-> code]

Init ==
    /\ now = 0
    /\ failures = [ip \in IP |-> {}]
    /\ lockoutUntil = [ip \in IP |-> 0]
    /\ handling = [r \in Request |-> None]
    /\ reply = None
    /\ counted = [ip \in IP |-> {}]
    /\ serial = 0
    /\ late = [ip \in IP |-> 0]

\* now.Before(st.lockoutUntil)
LockedOut(ip) == now < lockoutUntil[ip]

\* mutant: a failure exactly one window old is kept
FreshInclusive(fs) == {f \in fs : f.time >= now - window}

\* ts.After(cutoff)
Fresh(fs) == {f \in fs : f.time > now - window}

Tick ==
    /\ now < MaxTime
    /\ now' = now + 1
    /\ UNCHANGED <<failures, lockoutUntil, handling, reply, counted, serial,
                   late>>

\* mutant: the middleware is left out
CheckLockoutSkipped(r, ip) ==
    /\ handling[r] = None
    /\ serial < MaxFailures
    /\ handling' = [handling EXCEPT ![r] = ip]
    /\ UNCHANGED <<now, failures, lockoutUntil, reply, counted, serial, late>>

\* Middleware and CheckLockout: a locked-out address gets a 429 and nothing
\* changes; any other goes on to the handler.
CheckLockout(r, ip) ==
    /\ handling[r] = None
    /\ serial < MaxFailures
    /\ IF LockedOut(ip)
       THEN reply' = Response(ip, "429") /\ UNCHANGED handling
       ELSE handling' = [handling EXCEPT ![r] = ip] /\ UNCHANGED reply
    /\ UNCHANGED <<now, failures, lockoutUntil, counted, serial, late>>

\* HandleVerify answers 200, 400 or 500: nothing is recorded.
Answer(r) ==
    /\ handling[r] # None
    /\ handling' = [handling EXCEPT ![r] = None]
    /\ reply' = Response(handling[r], "passed")
    /\ UNCHANGED <<now, failures, lockoutUntil, counted, serial, late>>

\* mutant: a failure during a lockout extends it
RecordFailureExtends(r) ==
    LET ip   == handling[r]
        f    == [n |-> serial, time |-> now]
        kept == Fresh(failures[ip]) \cup {f}
    IN  /\ ip # None
        /\ handling' = [handling EXCEPT ![r] = None]
        /\ reply' = Response(ip, "401")
        /\ failures' = [failures EXCEPT ![ip] = kept]
        /\ lockoutUntil' = [lockoutUntil EXCEPT ![ip] =
              IF Cardinality(kept) >= maxAttempts THEN now + lockout ELSE @]
        /\ counted' = [counted EXCEPT ![ip] = @ \cup {f}]
        /\ serial' = serial + 1
        /\ UNCHANGED <<now, late>>

\* mutant: the failure is appended before the lockout is looked at
RecordFailureAppends(r) ==
    LET ip   == handling[r]
        f    == [n |-> serial, time |-> now]
        kept == Fresh(failures[ip]) \cup {f}
    IN  /\ ip # None
        /\ handling' = [handling EXCEPT ![r] = None]
        /\ reply' = Response(ip, "401")
        /\ failures' = [failures EXCEPT ![ip] = kept]
        /\ IF LockedOut(ip)
           THEN /\ late' = [late EXCEPT ![ip] = @ + 1]
                /\ UNCHANGED <<lockoutUntil, counted, serial>>
           ELSE /\ lockoutUntil' = [lockoutUntil EXCEPT ![ip] =
                      IF Cardinality(kept) >= maxAttempts
                      THEN now + lockout ELSE @]
                /\ counted' = [counted EXCEPT ![ip] = @ \cup {f}]
                /\ serial' = serial + 1
                /\ late' = [late EXCEPT ![ip] = 0]
        /\ UNCHANGED now

\* HandleVerify answers 401: RecordFailure.  An existing lockout stands; the
\* failure that fills the last slot starts one.
RecordFailure(r) ==
    LET ip   == handling[r]
        f    == [n |-> serial, time |-> now]
        kept == Fresh(failures[ip]) \cup {f}
    IN  /\ ip # None
        /\ handling' = [handling EXCEPT ![r] = None]
        /\ reply' = Response(ip, "401")
        /\ IF LockedOut(ip)
           THEN /\ late' = [late EXCEPT ![ip] = @ + 1]
                /\ UNCHANGED <<failures, lockoutUntil, counted, serial>>
           ELSE /\ failures' = [failures EXCEPT ![ip] = kept]
                /\ lockoutUntil' = [lockoutUntil EXCEPT ![ip] =
                      IF Cardinality(kept) >= maxAttempts
                      THEN now + lockout ELSE @]
                /\ counted' = [counted EXCEPT ![ip] = @ \cup {f}]
                /\ serial' = serial + 1
                /\ late' = [late EXCEPT ![ip] = 0]
        /\ UNCHANGED now

\* The container restarts: the limiter's state is process-local.
Restart ==
    /\ failures' = [ip \in IP |-> {}]
    /\ lockoutUntil' = [ip \in IP |-> 0]
    /\ handling' = [r \in Request |-> None]
    /\ counted' = [ip \in IP |-> {}]
    /\ late' = [ip \in IP |-> 0]
    /\ UNCHANGED <<now, reply, serial>>

Next ==
    \/ Tick
    \/ Restart
    \/ \E r \in Request :
         \/ \E ip \in IP : CheckLockout(r, ip)
         \/ Answer(r)
         \/ RecordFailure(r)

Spec == Init /\ [][Next]_vars

(***************************************************************************)
(* Properties.                                                             *)
(***************************************************************************)
Failure == [n : Nat, time : Nat]

\* The type invariant.  The slice RecordFailure keeps holds only failures that
\* were counted: what fails during a lockout is not appended to it.
TypeOK ==
    /\ now \in Nat
    /\ failures \in [IP -> SUBSET Failure]
    /\ \A ip \in IP : failures[ip] \subseteq counted[ip]
    /\ lockoutUntil \in [IP -> Nat]
    /\ handling \in [Request -> IP \cup {None}]
    /\ reply \in [ip : IP, code : {"429", "401", "passed"}] \cup {None}
    /\ counted \in [IP -> SUBSET Failure]
    /\ serial \in Nat
    /\ late \in [IP -> Nat]

\* DD-037: the pruned slice and the single lockoutUntil refuse an address at
\* exactly the times that a limiter with a perfect memory would, no earlier and
\* no later, whatever the interleaving of checks and failures.
Budget ==
    INSTANCE FailureBudget
        WITH now <- now, counted <- counted, serial <- serial,
             handling <- handling, reply <- reply

ImplementsBudget == Budget!Spec

\* Once a lockout is over an address has its whole budget again: no failure of
\* before the lockout is still in the window.  (Needs lockout >= window.)
FreshBudgetAfterLockout ==
    \A ip \in IP : ~LockedOut(ip) =>
        \A f \in Fresh(failures[ip]) : f.time >= lockoutUntil[ip]

\* The check and the record are two critical sections, so requests let through
\* before a lockout may still fail during it; they are no more than the other
\* requests that were in progress when it began.
LateBounded ==
    \A ip \in IP : LockedOut(ip) => late[ip] <= Cardinality(Request) - 1

=============================================================================
