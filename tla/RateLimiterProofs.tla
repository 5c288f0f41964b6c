-------------------------- MODULE RateLimiterProofs --------------------------
(***************************************************************************)
(* Proofs about RateLimiter, for any addresses, requests, window, lockout  *)
(* and number of attempts.                                                 *)
(***************************************************************************)
EXTENDS RateLimiter, FiniteSetTheorems, TLAPS

(***************************************************************************)
(* Types.                                                                  *)
(***************************************************************************)
LEMMA TypeInit == Init => TypeOK
BY DEF Init, TypeOK, Failure

LEMMA TypeStep == TypeOK /\ [Next]_vars => TypeOK'
<1> SUFFICES ASSUME TypeOK, [Next]_vars PROVE TypeOK'
  OBVIOUS
<1> USE LimiterAssumption DEF LimiterAssumption, TypeOK, Failure
<1>1. CASE Tick
  BY <1>1 DEF Tick
<1>2. CASE Restart
  BY <1>2 DEF Restart
<1>3. ASSUME NEW r \in Request, NEW ip \in IP, CheckLockout(r, ip)
      PROVE  TypeOK'
  BY <1>3 DEF CheckLockout, Response
<1>4. ASSUME NEW r \in Request, Answer(r) PROVE TypeOK'
  BY <1>4 DEF Answer, Response
<1>5. ASSUME NEW r \in Request, RecordFailure(r) PROVE TypeOK'
  <2> DEFINE ip == handling[r]
             f == [n |-> serial, time |-> now]
             kept == Fresh(failures[ip]) \cup {f}
  <2>1. ip \in IP /\ f \in Failure /\ kept \in SUBSET Failure
    BY <1>5 DEF RecordFailure, Fresh
  <2>2. now + lockout \in Nat
    OBVIOUS
  <2>3. CASE LockedOut(ip)
    BY <1>5, <2>1, <2>3 DEF RecordFailure, Response
  <2>4. CASE ~LockedOut(ip)
    <3>1. failures' = [failures EXCEPT ![ip] = kept]
      BY <1>5, <2>4 DEF RecordFailure
    <3>2. lockoutUntil' \in [IP -> Nat]
      BY <1>5, <2>1, <2>2, <2>4 DEF RecordFailure
    <3>3. /\ counted' = [counted EXCEPT ![ip] = @ \cup {f}]
          /\ serial' = serial + 1
          /\ late' = [late EXCEPT ![ip] = 0]
          /\ handling' = [handling EXCEPT ![r] = None]
          /\ reply' = [ip |-> ip, code |-> "401"]
          /\ now' = now
      BY <1>5, <2>4 DEF RecordFailure, Response
    <3>4. failures' \in [IP -> SUBSET Failure]
      BY <2>1, <3>1
    <3>5. counted' \in [IP -> SUBSET Failure]
      BY <2>1, <3>3
    <3>6. \A a \in IP : failures'[a] \subseteq counted'[a]
      BY <2>1, <3>1, <3>3 DEF Fresh
    <3>7. reply' \in [ip : IP, code : {"429", "401", "passed"}] \cup {None}
      BY <2>1, <3>3
    <3>8. QED
      BY <3>2, <3>3, <3>4, <3>5, <3>6, <3>7
  <2>5. QED
    BY <2>3, <2>4
<1>6. CASE UNCHANGED vars
  BY <1>6 DEF vars
<1>7. QED
  BY <1>1, <1>2, <1>3, <1>4, <1>5, <1>6 DEF Next

\* Every variable keeps its type, whatever the clock and the history bounds.
THEOREM TypeCorrect == Spec => []TypeOK
BY TypeInit, TypeStep, PTL DEF Spec

(***************************************************************************)
(* The limiter against the limiter with a perfect memory.  The pruned      *)
(* slice holds at least every counted failure still in the window, so at a *)
(* record the kept slice is exactly the window; and lockoutUntil is the    *)
(* end of the lockout of the last failure that completed the budget.       *)
(***************************************************************************)
Remembered(ip) ==
    /\ failures[ip] \subseteq counted[ip]
    /\ Fresh(counted[ip]) \subseteq failures[ip]

Numbered(ip) == \A f \in counted[ip] : f.n < serial /\ f.time <= now

LockoutStands(ip) ==
    \A f \in counted[ip] : Budget!Trigger(counted[ip], f) =>
                              f.time + lockout <= lockoutUntil[ip]

LockoutEarned(ip) ==
    lockoutUntil[ip] # 0 =>
        \E f \in counted[ip] : /\ Budget!Trigger(counted[ip], f)
                               /\ lockoutUntil[ip] = f.time + lockout

Exact(ip) ==
    Remembered(ip) /\ Numbered(ip) /\ LockoutStands(ip) /\ LockoutEarned(ip)

BudgetInv == TypeOK /\ \A ip \in IP : Exact(ip)

\* lockoutUntil says what the perfect memory says.
LEMMA LockedSame ==
    ASSUME BudgetInv, NEW ip \in IP
    PROVE  LockedOut(ip) <=> Budget!Locked(ip)
<1> USE LimiterAssumption DEF LimiterAssumption, BudgetInv, TypeOK
<1>1. counted[ip] \subseteq Failure /\ lockoutUntil[ip] \in Nat /\ now \in Nat
  OBVIOUS
<1>2. ASSUME LockedOut(ip) PROVE Budget!Locked(ip)
  <2>1. lockoutUntil[ip] # 0 /\ now < lockoutUntil[ip]
    BY <1>1, <1>2 DEF LockedOut
  <2>2. PICK f \in counted[ip] : /\ Budget!Trigger(counted[ip], f)
                                 /\ lockoutUntil[ip] = f.time + lockout
    BY <2>1 DEF Exact, LockoutEarned
  <2>3. QED
    BY <2>1, <2>2 DEF Budget!Locked
<1>3. ASSUME Budget!Locked(ip) PROVE LockedOut(ip)
  <2>1. PICK f \in counted[ip] : /\ Budget!Trigger(counted[ip], f)
                                 /\ now < f.time + lockout
    BY <1>3 DEF Budget!Locked
  <2>2. f.time + lockout <= lockoutUntil[ip]
    BY <2>1 DEF Exact, LockoutStands
  <2>3. QED
    BY <1>1, <2>1, <2>2 DEF LockedOut, Failure
<1>4. QED
  BY <1>2, <1>3

\* The instance has its own copy of FiniteSets.
LEMMA SameCardinality == \A S : Budget!Cardinality(S) = Cardinality(S)
BY DEF Budget!Cardinality, Cardinality

\* A failure numbered after all others changes nobody's window but its own.
LEMMA WithinOld ==
    ASSUME NEW fs \in SUBSET Failure, NEW g \in Failure, NEW f \in fs,
           f.n < g.n
    PROVE  Budget!Within(fs \cup {g}, f) = Budget!Within(fs, f)
<1>1. ~(g.n <= f.n)
  BY DEF Failure
<1>2. QED
  BY <1>1 DEF Budget!Within

\* Recording a failure of an address that is not locked out keeps the account
\* of that address exact.
LEMMA RecordExact ==
    ASSUME BudgetInv, TypeOK', NEW r \in Request, RecordFailure(r),
           NEW ip \in IP, ip = handling[r], ~LockedOut(ip)
    PROVE  Exact(ip)'
<1> DEFINE f == [n |-> serial, time |-> now]
           kept == Fresh(failures[ip]) \cup {f}
           fs == counted[ip]
<1> USE LimiterAssumption DEF LimiterAssumption
<1>1. /\ ip \in IP
      /\ fs \subseteq Failure /\ failures[ip] \subseteq Failure
      /\ f \in Failure /\ now \in Nat /\ serial \in Nat
      /\ lockoutUntil[ip] \in Nat /\ lockoutUntil[ip] <= now
  BY DEF BudgetInv, TypeOK, Failure, LockedOut
<1>2. Exact(ip)
  BY <1>1 DEF BudgetInv
<1>3. /\ failures'[ip] = kept
      /\ counted'[ip] = fs \cup {f}
      /\ lockoutUntil'[ip] = IF Cardinality(kept) >= maxAttempts
                             THEN now + lockout ELSE lockoutUntil[ip]
      /\ serial' = serial + 1
      /\ now' = now
  BY <1>1 DEF RecordFailure, BudgetInv, TypeOK
<1>4. Remembered(ip)'
  <2>1. kept \subseteq fs \cup {f}
    BY <1>2 DEF Exact, Remembered, Fresh
  <2>2. Fresh(fs \cup {f}) \subseteq kept
    BY <1>2 DEF Exact, Remembered, Fresh
  <2>3. {g \in counted'[ip] : g.time > now' - window} \subseteq failures'[ip]
    BY <1>3, <2>2 DEF Fresh
  <2>4. QED
    BY <1>3, <2>1, <2>3 DEF Remembered, Fresh
<1>5. Numbered(ip)'
  <2>1. \A g \in fs : g.n < serial + 1 /\ g.time <= now
    BY <1>1, <1>2 DEF Exact, Numbered, Failure
  <2>2. f.n < serial + 1 /\ f.time <= now
    BY <1>1
  <2>3. QED
    BY <1>3, <2>1, <2>2 DEF Numbered
<1>6. Budget!Within(fs \cup {f}, f) = kept
  <2>1. \A g \in fs : g.n <= f.n
    BY <1>1, <1>2 DEF Exact, Numbered, Failure
  <2>2. f.n <= f.n /\ f.time > f.time - window
    BY <1>1
  <2>3. Budget!Within(fs \cup {f}, f) = Fresh(fs) \cup {f}
    BY <2>1, <2>2 DEF Budget!Within, Fresh
  <2>4. Fresh(fs) = Fresh(failures[ip])
    BY <1>2 DEF Exact, Remembered, Fresh
  <2>5. QED
    BY <2>3, <2>4
<1>7. \A g \in fs : Budget!Trigger(fs \cup {f}, g) <=> Budget!Trigger(fs, g)
  <2> SUFFICES ASSUME NEW g \in fs
               PROVE  Budget!Trigger(fs \cup {f}, g) <=> Budget!Trigger(fs, g)
    OBVIOUS
  <2>1. g.n < f.n
    BY <1>2 DEF Exact, Numbered
  <2>2. Budget!Within(fs \cup {f}, g) = Budget!Within(fs, g)
    BY <1>1, <2>1, WithinOld
  <2>3. QED
    BY <2>2 DEF Budget!Trigger
<1>8. Budget!Trigger(fs \cup {f}, f) <=> Cardinality(kept) >= maxAttempts
  BY <1>6, SameCardinality DEF Budget!Trigger
<1>9. lockoutUntil'[ip] \in Nat /\ lockoutUntil[ip] <= lockoutUntil'[ip]
  BY <1>1, <1>3
<1>10. LockoutStands(ip)'
  <2>1. ASSUME NEW g \in fs, Budget!Trigger(fs \cup {f}, g)
        PROVE  g.time + lockout <= lockoutUntil'[ip]
    BY <1>1, <1>2, <1>7, <1>9, <2>1 DEF Exact, LockoutStands, Failure
  <2>2. Budget!Trigger(fs \cup {f}, f) => f.time + lockout <= lockoutUntil'[ip]
    BY <1>1, <1>3, <1>8
  <2>3. \A g \in counted'[ip] : Budget!Trigger(counted'[ip], g) =>
                                   g.time + lockout <= lockoutUntil'[ip]
    BY <1>3, <2>1, <2>2
  <2>4. QED
    BY <2>3 DEF LockoutStands, Budget!Trigger, Budget!Within
<1>11. LockoutEarned(ip)'
  <2>1. CASE Cardinality(kept) >= maxAttempts
    <3>1. /\ f \in fs \cup {f}
          /\ Budget!Trigger(fs \cup {f}, f)
          /\ lockoutUntil'[ip] = f.time + lockout
      BY <1>3, <1>8, <2>1
    <3>2. QED
      BY <1>3, <3>1 DEF LockoutEarned, Budget!Trigger, Budget!Within
  <2>2. CASE ~(Cardinality(kept) >= maxAttempts)
    <3>1. lockoutUntil'[ip] = lockoutUntil[ip]
      BY <1>3, <2>2
    <3>2. lockoutUntil[ip] # 0 =>
            \E g \in fs : /\ Budget!Trigger(fs \cup {f}, g)
                          /\ lockoutUntil[ip] = g.time + lockout
      BY <1>2, <1>7 DEF Exact, LockoutEarned
    <3>3. QED
      BY <1>3, <3>1, <3>2 DEF LockoutEarned, Budget!Trigger, Budget!Within
  <2>3. QED
    BY <2>1, <2>2
<1>12. QED
  BY <1>4, <1>5, <1>10, <1>11 DEF Exact

LEMMA BudgetInit == Init => BudgetInv
<1> SUFFICES ASSUME Init PROVE BudgetInv
  OBVIOUS
<1>1. TypeOK
  BY TypeInit
<1>2. ASSUME NEW ip \in IP PROVE Exact(ip)
  BY DEF Init, Exact, Remembered, Numbered, LockoutStands, LockoutEarned, Fresh
<1>3. QED
  BY <1>1, <1>2 DEF BudgetInv

\* An account nothing was recorded in stays exact while time passes.
LEMMA ExactKept ==
    ASSUME BudgetInv, TypeOK', NEW ip \in IP,
           UNCHANGED <<failures[ip], lockoutUntil[ip], counted[ip]>>,
           now <= now', serial <= serial'
    PROVE  Exact(ip)'
<1> USE LimiterAssumption DEF LimiterAssumption
<1>1. /\ counted[ip] \subseteq Failure /\ Exact(ip)
      /\ now \in Nat /\ now' \in Nat /\ serial \in Nat /\ serial' \in Nat
  BY DEF BudgetInv, TypeOK
<1>2. Remembered(ip)'
  BY <1>1 DEF Exact, Remembered, Fresh, Failure
<1>3. Numbered(ip)'
  BY <1>1 DEF Exact, Numbered, Failure
<1>4. LockoutStands(ip)' /\ LockoutEarned(ip)'
  BY <1>1 DEF Exact, LockoutStands, LockoutEarned, Budget!Trigger,
              Budget!Within
<1>5. QED
  BY <1>2, <1>3, <1>4 DEF Exact

LEMMA BudgetStep == BudgetInv /\ [Next]_vars => BudgetInv'
<1> SUFFICES ASSUME BudgetInv, [Next]_vars PROVE BudgetInv'
  OBVIOUS
<1> USE LimiterAssumption DEF LimiterAssumption
<1>1. TypeOK /\ TypeOK'
  BY TypeStep DEF BudgetInv
<1>2. now \in Nat /\ serial \in Nat
  BY <1>1 DEF TypeOK
<1>3. SUFFICES ASSUME NEW ip \in IP PROVE Exact(ip)'
  BY <1>1 DEF BudgetInv
<1>4. CASE Tick \/ UNCHANGED vars
  BY <1>1, <1>2, <1>4, ExactKept DEF Tick, vars
<1>5. CASE Restart
  BY <1>5, <1>1 DEF Restart, Exact, Remembered, Numbered, LockoutStands,
                    LockoutEarned, Fresh
<1>6. ASSUME NEW r \in Request,
             Answer(r) \/ \E a \in IP : CheckLockout(r, a)
      PROVE  Exact(ip)'
  BY <1>1, <1>2, <1>6, ExactKept DEF Answer, CheckLockout
<1>7. ASSUME NEW r \in Request, RecordFailure(r) PROVE Exact(ip)'
  <2>1. CASE LockedOut(handling[r])
    BY <1>1, <1>2, <1>7, <2>1, ExactKept DEF RecordFailure
  <2>2. CASE ~LockedOut(handling[r]) /\ ip = handling[r]
    BY <1>1, <1>7, <2>2, RecordExact
  <2>3. CASE ~LockedOut(handling[r]) /\ ip # handling[r]
    <3>1. /\ UNCHANGED <<failures[ip], lockoutUntil[ip], counted[ip]>>
          /\ now' = now /\ serial' = serial + 1
      BY <1>1, <1>7, <2>3 DEF RecordFailure, TypeOK
    <3>2. QED
      BY <1>1, <1>2, <3>1, ExactKept
  <2>4. QED
    BY <2>1, <2>2, <2>3
<1>8. QED
  BY <1>4, <1>5, <1>6, <1>7 DEF Next

\* Every step of the limiter is one of the perfect memory's, or none.
LEMMA BudgetRefines ==
    ASSUME BudgetInv, [Next]_vars
    PROVE  [Budget!Next]_(Budget!vars)
<1> USE LimiterAssumption DEF LimiterAssumption
<1>1. TypeOK
  BY DEF BudgetInv
<1>2. CASE Tick
  BY <1>2 DEF Tick, Budget!Next, Budget!Tick
<1>3. CASE Restart
  BY <1>3 DEF Restart, Budget!Next, Budget!Restart
<1>4. ASSUME NEW r \in Request, NEW ip \in IP, CheckLockout(r, ip)
      PROVE  Budget!Refuse(r, ip) \/ Budget!Admit(r, ip)
  <2>1. LockedOut(ip) <=> Budget!Locked(ip)
    BY LockedSame
  <2>2. CASE LockedOut(ip)
    BY <1>4, <2>1, <2>2
       DEF CheckLockout, Budget!Refuse, Response, Budget!Response
  <2>3. CASE ~LockedOut(ip)
    BY <1>4, <2>1, <2>3 DEF CheckLockout, Budget!Admit
  <2>4. QED
    BY <2>2, <2>3
<1>5. ASSUME NEW r \in Request, Answer(r) PROVE Budget!Pass(r)
  BY <1>5 DEF Answer, Budget!Pass, Response, Budget!Response
<1>6. ASSUME NEW r \in Request, RecordFailure(r) PROVE Budget!Fail(r)
  <2>1. handling[r] \in IP
    BY <1>1, <1>6 DEF RecordFailure, TypeOK
  <2>2. LockedOut(handling[r]) <=> Budget!Locked(handling[r])
    BY <2>1, LockedSame
  <2>3. CASE LockedOut(handling[r])
    BY <1>6, <2>2, <2>3
       DEF RecordFailure, Budget!Fail, Response, Budget!Response
  <2>4. CASE ~LockedOut(handling[r])
    BY <1>6, <2>2, <2>4
       DEF RecordFailure, Budget!Fail, Response, Budget!Response
  <2>5. QED
    BY <2>3, <2>4
<1>7. CASE UNCHANGED vars
  BY <1>7 DEF vars, Budget!vars
<1>8. QED
  BY <1>2, <1>3, <1>4, <1>5, <1>6, <1>7 DEF Next, Budget!Next

\* DD-037: pruned slices and one lockoutUntil per address behave as the full
\* history of failures would, under any interleaving of requests.
THEOREM LimiterImplementsBudget == Spec => ImplementsBudget
<1>1. Init => Budget!Init
  BY DEF Init, Budget!Init
<1>2. Spec => []BudgetInv
  BY BudgetInit, BudgetStep, PTL DEF Spec
<1>3. BudgetInv /\ [Next]_vars => [Budget!Next]_(Budget!vars)
  BY BudgetRefines
<1>4. QED
  BY <1>1, <1>2, <1>3, PTL DEF Spec, ImplementsBudget, Budget!Spec

(***************************************************************************)
(* A full budget after a lockout, when the lockout is at least as long as  *)
(* the window: what was counted before the lockout began is older than the *)
(* window when it ends, and nothing is counted during it.                  *)
(***************************************************************************)
NoneDuring ==
    \A ip \in IP : \A f \in counted[ip] :
        \/ f.time >= lockoutUntil[ip]
        \/ f.time <= lockoutUntil[ip] - lockout

LEMMA NoneDuringStep ==
    BudgetInv /\ NoneDuring /\ [Next]_vars => NoneDuring'
<1> SUFFICES ASSUME BudgetInv, NoneDuring, [Next]_vars PROVE NoneDuring'
  OBVIOUS
<1> USE LimiterAssumption DEF LimiterAssumption, NoneDuring
<1>1. TypeOK
  BY DEF BudgetInv
<1>2. CASE Tick \/ UNCHANGED vars
  BY <1>2 DEF Tick, vars
<1>3. CASE Restart
  BY <1>3 DEF Restart
<1>4. ASSUME NEW r \in Request,
             Answer(r) \/ \E a \in IP : CheckLockout(r, a)
      PROVE  NoneDuring'
  BY <1>4 DEF Answer, CheckLockout
<1>5. ASSUME NEW r \in Request, RecordFailure(r) PROVE NoneDuring'
  <2> DEFINE a == handling[r]
             new == [n |-> serial, time |-> now]
  <2>1. CASE LockedOut(a)
    BY <1>5, <2>1 DEF RecordFailure
  <2>2. CASE ~LockedOut(a)
    <3>1. a \in IP /\ now \in Nat /\ lockoutUntil[a] \in Nat
          /\ lockoutUntil[a] <= now
      BY <1>1, <1>5, <2>2 DEF RecordFailure, TypeOK, LockedOut
    <3>2. /\ counted' = [counted EXCEPT ![a] = @ \cup {new}]
          /\ lockoutUntil'[a] \in {now + lockout, lockoutUntil[a]}
          /\ \A ip \in IP : ip # a => lockoutUntil'[ip] = lockoutUntil[ip]
      BY <1>1, <1>5, <2>2, <3>1 DEF RecordFailure, TypeOK
    <3>3. \A f \in counted[a] : f.time <= now
      BY <3>1 DEF BudgetInv, Exact, Numbered
    <3>4. ASSUME NEW ip \in IP, NEW f \in counted'[ip]
          PROVE  \/ f.time >= lockoutUntil'[ip]
                 \/ f.time <= lockoutUntil'[ip] - lockout
      <4>1. CASE ip # a
        BY <1>1, <3>1, <3>2, <4>1 DEF TypeOK
      <4>2. CASE ip = a /\ f = new
        BY <3>1, <3>2, <4>2
      <4>3. CASE ip = a /\ f # new
        <5>1. f \in counted[a]
          BY <1>1, <3>1, <3>2, <4>3 DEF TypeOK
        <5>2. f.time <= now /\ f.time \in Nat
          BY <1>1, <3>1, <3>3, <5>1 DEF TypeOK, Failure
        <5>3. \/ f.time >= lockoutUntil[a]
              \/ f.time <= lockoutUntil[a] - lockout
          BY <3>1, <5>1
        <5>4. QED
          BY <3>1, <3>2, <4>3, <5>2, <5>3
      <4>4. QED
        BY <4>1, <4>2, <4>3
    <3>5. QED
      BY <3>4
  <2>3. QED
    BY <2>1, <2>2
<1>6. QED
  BY <1>2, <1>3, <1>4, <1>5 DEF Next

\* With a lockout no shorter than the window (the defaults are fifteen and
\* five minutes) an address gets maxAttempts failures again after a lockout.
THEOREM FreshBudget ==
    ASSUME lockout >= window
    PROVE  Spec => []FreshBudgetAfterLockout
<1>1. Init => BudgetInv /\ NoneDuring
  BY BudgetInit DEF Init, NoneDuring
<1>2. BudgetInv /\ NoneDuring /\ [Next]_vars => BudgetInv' /\ NoneDuring'
  BY BudgetStep, NoneDuringStep
<1>3. BudgetInv /\ NoneDuring => FreshBudgetAfterLockout
  <2> SUFFICES ASSUME BudgetInv, NoneDuring, NEW ip \in IP, ~LockedOut(ip),
                      NEW f \in Fresh(failures[ip])
               PROVE  f.time >= lockoutUntil[ip]
    BY DEF FreshBudgetAfterLockout
  <2>1. f \in counted[ip] /\ f.time > now - window
    BY DEF BudgetInv, Exact, Remembered, Fresh
  <2>2. /\ f.time \in Nat /\ now \in Nat /\ lockoutUntil[ip] \in Nat
        /\ lockoutUntil[ip] <= now
    BY <2>1 DEF BudgetInv, TypeOK, Failure, LockedOut
  <2>3. f.time >= lockoutUntil[ip] \/ f.time <= lockoutUntil[ip] - lockout
    BY <2>1 DEF NoneDuring
  <2>4. QED
    BY <2>1, <2>2, <2>3, LimiterAssumption DEF LimiterAssumption
<1>4. QED
  BY <1>1, <1>2, <1>3, PTL DEF Spec

(***************************************************************************)
(* Requests let through before a lockout: each that fails during it was in *)
(* progress when it began, and there it is no longer.                      *)
(***************************************************************************)
InFlight(ip) == {r \in Request : handling[r] = ip}

LateInv ==
    /\ TypeOK
    /\ \A ip \in IP : LockedOut(ip) =>
          late[ip] + Cardinality(InFlight(ip)) <= Cardinality(Request) - 1

\* The requests of one address are finitely many, and one that ends is gone.
LEMMA InFlightFinite ==
    /\ Cardinality(Request) \in Nat
    /\ \A ip : /\ IsFiniteSet(InFlight(ip))
               /\ Cardinality(InFlight(ip)) \in Nat
<1>1. Cardinality(Request) \in Nat
  BY FS_CardinalityType, LimiterAssumption DEF LimiterAssumption
<1>2. ASSUME NEW ip
      PROVE  IsFiniteSet(InFlight(ip)) /\ Cardinality(InFlight(ip)) \in Nat
  <2>1. InFlight(ip) \subseteq Request
    BY DEF InFlight
  <2>2. IsFiniteSet(InFlight(ip))
    BY <2>1, FS_Subset, LimiterAssumption DEF LimiterAssumption
  <2>3. QED
    BY <2>2, FS_CardinalityType
<1>3. QED
  BY <1>1, <1>2

LEMMA InFlightEnds ==
    ASSUME TypeOK, NEW r \in Request, NEW ip \in IP, handling[r] = ip,
           handling' = [handling EXCEPT ![r] = None]
    PROVE  /\ InFlight(ip)' = InFlight(ip) \ {r}
           /\ Cardinality(InFlight(ip)') = Cardinality(InFlight(ip)) - 1
           /\ Cardinality(InFlight(ip)) <= Cardinality(Request)
           /\ \A a \in IP : a # ip => InFlight(a)' = InFlight(a)
<1>1. r \in InFlight(ip) /\ InFlight(ip) \subseteq Request
  BY DEF InFlight
<1>2. InFlight(ip)' = InFlight(ip) \ {r}
  BY LimiterAssumption DEF InFlight, TypeOK, LimiterAssumption
<1>3. Cardinality(InFlight(ip) \ {r}) = Cardinality(InFlight(ip)) - 1
  BY <1>1, InFlightFinite, FS_RemoveElement
<1>4. Cardinality(InFlight(ip)) <= Cardinality(Request)
  BY <1>1, FS_Subset, LimiterAssumption DEF LimiterAssumption
<1>5. \A a \in IP : a # ip => InFlight(a)' = InFlight(a)
  BY LimiterAssumption DEF InFlight, TypeOK, LimiterAssumption
<1>6. QED
  BY <1>2, <1>3, <1>4, <1>5

LEMMA LateStep == LateInv /\ [Next]_vars => LateInv'
<1> SUFFICES ASSUME LateInv, [Next]_vars PROVE LateInv'
  OBVIOUS
<1>1. TypeOK /\ TypeOK'
  BY TypeStep DEF LateInv
<1>2. SUFFICES ASSUME NEW ip \in IP, LockedOut(ip)'
               PROVE  late'[ip] + Cardinality(InFlight(ip)')
                         <= Cardinality(Request) - 1
  BY <1>1 DEF LateInv, LockedOut
<1>3. now \in Nat /\ lockoutUntil[ip] \in Nat /\ late[ip] \in Nat
  BY <1>1 DEF TypeOK
<1>4. CASE Tick \/ UNCHANGED vars
  <2>1. LockedOut(ip) /\ InFlight(ip)' = InFlight(ip) /\ late' = late
    BY <1>2, <1>3, <1>4 DEF Tick, vars, LockedOut, InFlight
  <2>2. QED
    BY <2>1 DEF LateInv
<1>5. CASE Restart
  <2>1. lockoutUntil'[ip] = 0 /\ now' = now
    BY <1>5 DEF Restart
  <2>2. QED
    BY <1>2, <1>3, <2>1 DEF LockedOut
<1>6. ASSUME NEW r \in Request, NEW a \in IP, CheckLockout(r, a)
      PROVE  late'[ip] + Cardinality(InFlight(ip)') <= Cardinality(Request) - 1
  <2>1. LockedOut(ip) /\ late' = late
        /\ \/ handling' = handling
           \/ a # ip /\ handling' = [handling EXCEPT ![r] = a]
    BY <1>2, <1>6 DEF CheckLockout, LockedOut
  <2>2. InFlight(ip)' = InFlight(ip)
    BY <1>1, <1>6, <2>1, LimiterAssumption
       DEF CheckLockout, InFlight, TypeOK, LimiterAssumption
  <2>3. QED
    BY <2>1, <2>2 DEF LateInv
<1>7. ASSUME NEW r \in Request, Answer(r)
      PROVE  late'[ip] + Cardinality(InFlight(ip)') <= Cardinality(Request) - 1
  <2>1. PICK a \in IP : a = handling[r]
    BY <1>1, <1>7 DEF Answer, TypeOK
  <2>2. /\ LockedOut(ip) /\ late' = late
        /\ handling' = [handling EXCEPT ![r] = None]
    BY <1>2, <1>7 DEF Answer, LockedOut
  <2>3. /\ Cardinality(InFlight(a)') = Cardinality(InFlight(a)) - 1
        /\ ip # a => InFlight(ip)' = InFlight(ip)
    BY <1>1, <2>1, <2>2, InFlightEnds
  <2>4. late[ip] + Cardinality(InFlight(ip)) <= Cardinality(Request) - 1
    BY <2>2 DEF LateInv
  <2>5. Cardinality(InFlight(ip)) \in Nat /\ Cardinality(Request) \in Nat
    BY InFlightFinite
  <2>6. CASE ip = a
    BY <1>3, <2>2, <2>3, <2>4, <2>5, <2>6
  <2>7. CASE ip # a
    BY <2>2, <2>3, <2>4, <2>7
  <2>8. QED
    BY <2>6, <2>7
<1>8. ASSUME NEW r \in Request, RecordFailure(r)
      PROVE  late'[ip] + Cardinality(InFlight(ip)') <= Cardinality(Request) - 1
  <2>0. PICK a \in IP : a = handling[r]
    BY <1>1, <1>8 DEF RecordFailure, TypeOK
  <2>1. now' = now /\ handling' = [handling EXCEPT ![r] = None]
    BY <1>8 DEF RecordFailure
  <2>2. /\ Cardinality(InFlight(a)') = Cardinality(InFlight(a)) - 1
        /\ Cardinality(InFlight(a)) <= Cardinality(Request)
        /\ ip # a => InFlight(ip)' = InFlight(ip)
    BY <1>1, <2>0, <2>1, InFlightEnds
  <2>3. /\ Cardinality(InFlight(ip)) \in Nat
        /\ Cardinality(Request) \in Nat
    BY InFlightFinite
  <2>4. CASE ip # a
    <3>1. LockedOut(ip) /\ late'[ip] = late[ip]
      BY <1>1, <1>2, <1>8, <2>0, <2>1, <2>4 DEF RecordFailure, LockedOut, TypeOK
    <3>2. QED
      BY <2>2, <2>4, <3>1 DEF LateInv
  <2>5. CASE ip = a /\ LockedOut(a)
    <3>1. late'[ip] = late[ip] + 1
      BY <1>1, <1>8, <2>0, <2>1, <2>5 DEF RecordFailure, TypeOK
    <3>2. late[ip] + Cardinality(InFlight(ip)) <= Cardinality(Request) - 1
      BY <2>5 DEF LateInv
    <3>3. Cardinality(InFlight(ip)') = Cardinality(InFlight(ip)) - 1
      BY <2>2, <2>5
    <3>4. QED
      BY <1>3, <2>3, <3>1, <3>2, <3>3
  <2>6. CASE ip = a /\ ~LockedOut(a)
    <3>1. late'[ip] = 0
      BY <1>1, <1>8, <2>0, <2>1, <2>6 DEF RecordFailure, TypeOK
    <3>2. Cardinality(InFlight(ip)') = Cardinality(InFlight(ip)) - 1
      BY <2>2, <2>6
    <3>3. QED
      BY <2>2, <2>3, <2>6, <3>1, <3>2
  <2>7. QED
    BY <2>4, <2>5, <2>6
<1>9. QED
  BY <1>4, <1>5, <1>6, <1>7, <1>8 DEF Next

\* The gap between the check and the record lets at most the other requests in
\* progress through, for any number of them.
THEOREM LateIsBounded == Spec => []LateBounded
<1>1. Init => LateInv
  BY TypeInit DEF Init, LateInv, LockedOut
<1>2. LateInv => LateBounded
  <2> SUFFICES ASSUME LateInv, NEW ip \in IP, LockedOut(ip)
               PROVE  late[ip] <= Cardinality(Request) - 1
    BY DEF LateBounded
  <2>1. late[ip] + Cardinality(InFlight(ip)) <= Cardinality(Request) - 1
    BY DEF LateInv
  <2>2. late[ip] \in Nat
    BY DEF LateInv, TypeOK
  <2>3. QED
    BY <2>1, <2>2, InFlightFinite
<1>3. QED
  BY <1>1, <1>2, LateStep, PTL DEF Spec

=============================================================================
