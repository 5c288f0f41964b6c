----------------------------- MODULE TokenLedger -----------------------------
(***************************************************************************)
(* What a store of enrolment tokens promises: each answer is given at one  *)
(* moment between question and reply, from the ledger as it is then and    *)
(* the time of the question.  A token that is accepted stands in the       *)
(* ledger, and a one-time token leaves it with that answer.  A token is    *)
(* refused only when it does not stand there.  Instead of an answer there  *)
(* may be an error, which says nothing and leaves the ledger alone.  The   *)
(* ledger loses other tokens only when they have expired, when their user  *)
(* is withdrawn, or all at once.                                           *)
(***************************************************************************)
EXTENDS Integers

CONSTANTS
    User,      \* users
    Token,     \* token values
    Conn,      \* questions at the same time
    None,      \* no value; no expiry
    TTLs,      \* lifetimes, 0 meaning no expiry
    OneTimes   \* kinds of tokens: one-time or not

VARIABLES
    now,       \* the clock
    ledger,    \* the tokens, with user, expiry and kind
    issued,    \* token values ever issued
    asked      \* per question: user, token, when, and the answer

vars == <<now, ledger, issued, asked>>

Question(u, t, time) == [user |-> u, token |-> t, at |-> time, answer |-> "open"]

NoQuestion == [user |-> None, token |-> None, at |-> 0, answer |-> "idle"]

Valid(row, time) == row.expires = None \/ row.expires > time

\* What the question q is about.
About(q) == {row \in ledger : /\ row.user = q.user
                              /\ row.id = q.token
                              /\ Valid(row, q.at)}

Init ==
    /\ now = 0
    /\ ledger = {}
    /\ issued = {}
    /\ asked = [b \in Conn |-> NoQuestion]

Tick ==
    /\ now' = now + 1
    /\ UNCHANGED <<ledger, issued, asked>>

Issue(u, t, ttl, oneTime) ==
    /\ t \notin issued
    /\ issued' = issued \cup {t}
    /\ ledger' = ledger \cup
         {[id |-> t, user |-> u, one_time |-> oneTime,
           expires |-> IF ttl > 0 THEN now + ttl ELSE None]}
    /\ UNCHANGED <<now, asked>>

Withdraw(u) ==
    /\ ledger' = {row \in ledger : row.user # u}
    /\ UNCHANGED <<now, issued, asked>>

\* Tokens nobody can use any more are dropped.
Forget ==
    /\ ledger' \subseteq ledger
    /\ \A row \in ledger \ ledger' : ~Valid(row, now)
    /\ UNCHANGED <<now, issued, asked>>

\* The ledger is not kept across restarts, and questions go unanswered.
Lose ==
    /\ ledger' = {}
    /\ asked' = [b \in Conn |-> NoQuestion]
    /\ UNCHANGED <<now, issued>>

Ask(b, u, t) ==
    /\ asked[b].answer = "idle"
    /\ asked' = [asked EXCEPT ![b] = Question(u, t, now)]
    /\ UNCHANGED <<now, ledger, issued>>

Accept(b) ==
    /\ asked[b].answer = "open"
    /\ \E row \in About(asked[b]) :
          ledger' = IF row.one_time THEN ledger \ {row} ELSE ledger
    /\ asked' = [asked EXCEPT ![b].answer = "accepted"]
    /\ UNCHANGED <<now, issued>>

Refuse(b) ==
    /\ asked[b].answer = "open"
    /\ About(asked[b]) = {}
    /\ asked' = [asked EXCEPT ![b].answer = "rejected"]
    /\ UNCHANGED <<now, ledger, issued>>

Fail(b) ==
    /\ asked[b].answer = "open"
    /\ asked' = [asked EXCEPT ![b].answer = "failed"]
    /\ UNCHANGED <<now, ledger, issued>>

Reply(b) ==
    /\ asked[b].answer \in {"accepted", "rejected", "failed"}
    /\ asked' = [asked EXCEPT ![b] = NoQuestion]
    /\ UNCHANGED <<now, ledger, issued>>

Next ==
    \/ Tick
    \/ Forget
    \/ Lose
    \/ \E u \in User :
         \/ Withdraw(u)
         \/ \E t \in Token, ttl \in TTLs, oneTime \in OneTimes :
              Issue(u, t, ttl, oneTime)
    \/ \E b \in Conn :
         \/ \E u \in User, t \in Token : Ask(b, u, t)
         \/ Accept(b)
         \/ Refuse(b)
         \/ Fail(b)
         \/ Reply(b)

Spec == Init /\ [][Next]_vars

=============================================================================
