---------------------------- MODULE FailureBudget ----------------------------
(***************************************************************************)
(* What the rate limit on /auth/verify promises (DD-037), with a perfect   *)
(* memory: failed attempts are remembered for ever, an address is locked   *)
(* out for `lockout` from each failure that completes maxAttempts of them  *)
(* within `window`, and nothing that fails during a lockout counts.  An    *)
(* address is refused only while it is locked out.                         *)
(***************************************************************************)
EXTENDS Integers, FiniteSets

CONSTANTS
    IP,           \* source addresses
    Request,      \* requests in progress at the same time
    None,         \* no address
    window,       \* period over which failures are counted
    lockout,      \* how long an address stays blocked
    maxAttempts   \* failures within the window that block

VARIABLES
    now,       \* the clock
    counted,   \* per address, every failure counted, numbered
    serial,    \* number of the next failure
    handling,  \* per request, the address whose credentials are being checked
    reply      \* the last response: to which address, and what it said

vars == <<now, counted, serial, handling, reply>>

Response(ip, code) == [ip |-> ip, code |-> code]

\* The failures among `fs` that were within the window when f happened.
Within(fs, f) == {g \in fs : g.n <= f.n /\ g.time > f.time - window}

\* The failure f of an address completed the budget.
Trigger(fs, f) == Cardinality(Within(fs, f)) >= maxAttempts

Locked(ip) ==
    \E f \in counted[ip] :
        Trigger(counted[ip], f) /\ now < f.time + lockout

Init ==
    /\ now = 0
    /\ counted = [ip \in IP |-> {}]
    /\ serial = 0
    /\ handling = [r \in Request |-> None]
    /\ reply = None

Tick ==
    /\ now' = now + 1
    /\ UNCHANGED <<counted, serial, handling, reply>>

\* A request of an address that is locked out.
Refuse(r, ip) ==
    /\ handling[r] = None
    /\ Locked(ip)
    /\ reply' = Response(ip, "429")
    /\ UNCHANGED <<now, counted, serial, handling>>

\* A request is let through to the credentials check.
Admit(r, ip) ==
    /\ handling[r] = None
    /\ ~Locked(ip)
    /\ handling' = [handling EXCEPT ![r] = ip]
    /\ UNCHANGED <<now, counted, serial, reply>>

\* It ends in anything but a 401.
Pass(r) ==
    /\ handling[r] # None
    /\ handling' = [handling EXCEPT ![r] = None]
    /\ reply' = Response(handling[r], "passed")
    /\ UNCHANGED <<now, counted, serial>>

\* It ends in a 401, which counts unless the address was locked out meanwhile.
Fail(r) ==
    /\ handling[r] # None
    /\ handling' = [handling EXCEPT ![r] = None]
    /\ reply' = Response(handling[r], "401")
    /\ IF Locked(handling[r])
       THEN UNCHANGED <<counted, serial>>
       ELSE /\ counted' = [counted EXCEPT ![handling[r]] =
                             @ \cup {[n |-> serial, time |-> now]}]
            /\ serial' = serial + 1
    /\ UNCHANGED now

\* The limiter is process-local: a restart forgets everything.
Restart ==
    /\ counted' = [ip \in IP |-> {}]
    /\ handling' = [r \in Request |-> None]
    /\ UNCHANGED <<now, serial, reply>>

Next ==
    \/ Tick
    \/ Restart
    \/ \E r \in Request :
         \/ \E ip \in IP : Refuse(r, ip) \/ Admit(r, ip)
         \/ Pass(r)
         \/ Fail(r)

Spec == Init /\ [][Next]_vars

=============================================================================
