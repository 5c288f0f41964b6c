--------------------------- MODULE EnrollmentTokens ---------------------------
(***************************************************************************)
(* Enrolment tokens: the SQLite table of ldap-proxy, the LDAP and HTTP     *)
(* handlers that verify a token as a password, and the monitor's requests  *)
(* that get, create and delete tokens through the REST API.                *)
(*                                                                         *)
(* SQLite runs in WAL mode: a transaction that has read keeps its          *)
(* snapshot, and its first write fails at once when another connection     *)
(* has committed a write since.                                            *)
(***************************************************************************)
EXTENDS Integers

CONSTANTS
    User,        \* users, as they bind
    Token,       \* token values
    Conn,        \* bind and verify handlers at work at the same time
    Admin,       \* enrolment requests of the monitor at the same time
    None,        \* no value; expires_at NULL
    TTLs,        \* ttl_minutes values requests carry, 0 meaning no expiry
    OneTimes,    \* one_time values requests carry
    MaxTime,     \* bound on the clock
    MaxFaults    \* bound on the number of failures

TokensAssumption ==
    /\ None \notin Nat /\ None \notin User /\ None \notin Token
    /\ TTLs \subseteq Nat
    /\ OneTimes \subseteq BOOLEAN
    /\ MaxTime \in Nat /\ MaxFaults \in Nat

ASSUME TokensAssumption

Row == [id : Token, user : User, expires : Nat \cup {None}, one_time : BOOLEAN]

VARIABLES
    now,       \* the clock, in seconds
    rows,      \* the tokens table
    bind,      \* per handler, the Verify in progress
    enroll,    \* per monitor request, the user it is enrolling, or None
    handed,    \* tokens some administrator has been given
    faults,    \* failures so far
    born,      \* history: tokens ever inserted
    once,      \* history: the one-time ones among them
    uses       \* history: per token, the binds that were accepted by deleting it

vars == <<now, rows, bind, enroll, handed, faults, born, once, uses>>

NoBind == [pc |-> "idle", user |-> None, token |-> None, at |-> 0,
           snapshot |-> {}, seen |-> {}, dead |-> {}]

Init ==
    /\ now = 0
    /\ rows = {}
    /\ bind = [b \in Conn |-> NoBind]
    /\ enroll = [a \in Admin |-> None]
    /\ handed = {}
    /\ faults = 0
    /\ born = {}
    /\ once = {}
    /\ uses = [t \in Token |-> 0]

Fault == faults < MaxFaults /\ faults' = faults + 1

Live(row, t) == row.expires = None \/ row.expires > t

Dead == {t \in born : ~\E row \in rows : row.id = t /\ Live(row, now)}

Tick ==
    /\ now < MaxTime
    /\ now' = now + 1
    /\ UNCHANGED <<rows, bind, enroll, handed, faults, born, once, uses>>

(***************************************************************************)
(* TokenStore.Verify, called by HandleBind with a token as the password.   *)
(***************************************************************************)
\* The clock is read once, for the whole of Verify.
VerifyStart(b, u, t) ==
    /\ bind[b].pc = "idle"
    /\ t \in handed
    /\ bind' = [bind EXCEPT ![b] = [NoBind EXCEPT !.pc = "clean", !.user = u,
                                      !.token = t, !.at = now, !.dead = Dead]]
    /\ UNCHANGED <<now, rows, enroll, handed, faults, born, once, uses>>

\* mutant: the clean-up takes tokens in their last second along
CleanEarly(b) ==
    /\ bind[b].pc = "clean"
    /\ \/ /\ rows' = {row \in rows : Live(row, bind[b].at + 1)}
          /\ UNCHANGED faults
       \/ Fault /\ UNCHANGED rows
    /\ bind' = [bind EXCEPT ![b].pc = "select"]
    /\ UNCHANGED <<now, enroll, handed, born, once, uses>>

\* The clean-up of every user's expired tokens, its own transaction; an error
\* (the table is busy) is not looked at.
Clean(b) ==
    /\ bind[b].pc = "clean"
    /\ \/ rows' = {row \in rows : Live(row, bind[b].at)} /\ UNCHANGED faults
       \/ Fault /\ UNCHANGED rows
    /\ bind' = [bind EXCEPT ![b].pc = "select"]
    /\ UNCHANGED <<now, enroll, handed, born, once, uses>>

\* mutant: expiry is left to the clean-up
MatchAny(o) == {row \in rows : row.user = o.user /\ row.id = o.token}

\* mutant: a token in its last second no longer matches
MatchEarly(o) ==
    {row \in rows : row.user = o.user /\ row.id = o.token /\ Live(row, o.at + 1)}

\* The rows the query of Verify selects.
Match(o) ==
    {row \in rows : row.user = o.user /\ row.id = o.token /\ Live(row, o.at)}

\* The transaction begins with the SELECT.  No row: false.  A reusable token:
\* true, after a COMMIT of nothing.  A one-time token is still to be deleted.
\* An error of BEGIN, SELECT or COMMIT: false, with the error.
Select(b) ==
    LET o == bind[b]
        Ends(pc) == bind' = [bind EXCEPT ![b].pc = pc]
    IN  /\ o.pc = "select"
        /\ \/ /\ \/ Match(o) = {} /\ Ends("rejected")
                 \/ (\E row \in Match(o) : ~row.one_time) /\ Ends("accepted")
                 \/ /\ \E row \in Match(o) : row.one_time
                    /\ bind' = [bind EXCEPT ![b] = [o EXCEPT !.pc = "consume",
                                                      !.snapshot = rows,
                                                      !.seen = born]]
              /\ UNCHANGED faults
           \/ Fault /\ Ends("failed")
        /\ UNCHANGED <<now, rows, enroll, handed, born, once, uses>>

\* mutant: the deletion does not depend on the snapshot of the selection
ConsumeBlind(b) ==
    LET o == bind[b]
    IN  /\ o.pc = "consume"
        /\ rows' = {row \in rows : row.id # o.token}
        /\ bind' = [bind EXCEPT ![b].pc = "accepted"]
        /\ uses' = [uses EXCEPT ![o.token] = @ + 1]
        /\ UNCHANGED <<now, enroll, handed, faults, born, once>>

\* DELETE and COMMIT of a one-time token: an error when somebody has written
\* since the SELECT ("stale"), or when the store fails.
Consume(b) ==
    LET o == bind[b]
        Ends(pc) == bind' = [bind EXCEPT ![b].pc = pc]
    IN  /\ o.pc = "consume"
        /\ \/ /\ rows = o.snapshot /\ born = o.seen
              /\ rows' = {row \in rows : row.id # o.token}
              /\ uses' = [uses EXCEPT ![o.token] = @ + 1]
              /\ Ends("accepted")
              /\ UNCHANGED faults
           \/ /\ rows # o.snapshot \/ born # o.seen
              /\ Ends("stale")
              /\ UNCHANGED <<rows, uses, faults>>
           \/ /\ Fault
              /\ Ends("failed")
              /\ UNCHANGED <<rows, uses>>
        /\ UNCHANGED <<now, enroll, handed, born, once>>

\* mutant: the transaction is not rolled back
ReplyOpen(b) ==
    /\ bind[b].pc \in {"accepted", "rejected", "stale", "failed"}
    /\ bind' = [bind EXCEPT ![b].pc = "idle"]
    /\ UNCHANGED <<now, rows, enroll, handed, faults, born, once, uses>>

\* Verify returns; what is left of its transaction is rolled back.  HandleBind
\* logs an error and goes on to LLDAP, as it does after a plain no, and there a
\* token is nobody's password.
Reply(b) ==
    /\ bind[b].pc \in {"accepted", "rejected", "stale", "failed"}
    /\ bind' = [bind EXCEPT ![b] = NoBind]
    /\ UNCHANGED <<now, rows, enroll, handed, faults, born, once, uses>>

(***************************************************************************)
(* The monitor: get_or_create_enrollment_token and delete_enrollment_tokens*)
(***************************************************************************)
Active(u) == {row \in rows : row.user = u /\ Live(row, now)}

\* GET /tokens/{username}: an active token is reused, else one is created.
GetActive(a, u) ==
    /\ enroll[a] = None
    /\ \/ \E row \in Active(u) :
             handed' = handed \cup {row.id} /\ UNCHANGED enroll
       \/ /\ Active(u) = {}
          /\ enroll' = [enroll EXCEPT ![a] = u]
          /\ UNCHANGED handed
    /\ UNCHANGED <<now, rows, bind, faults, born, once, uses>>

\* POST /tokens.  When the reply is lost, _proxy_request sends it again.
Create(a, t, ttl, oneTime) ==
    /\ enroll[a] # None
    /\ t \notin born
    /\ rows' = rows \cup
         {[id |-> t, user |-> enroll[a], one_time |-> oneTime,
           expires |-> IF ttl > 0 THEN now + ttl ELSE None]}
    /\ born' = born \cup {t}
    /\ \/ /\ handed' = handed \cup {t}
          /\ enroll' = [enroll EXCEPT ![a] = None]
          /\ UNCHANGED faults
       \/ Fault /\ UNCHANGED <<handed, enroll>>
    /\ once' = IF oneTime THEN once \cup {t} ELSE once
    /\ UNCHANGED <<now, bind, uses>>

\* The last attempt of _proxy_request fails as well: the request ends in a 500.
GiveUp(a) ==
    /\ enroll[a] # None
    /\ Fault
    /\ enroll' = [enroll EXCEPT ![a] = None]
    /\ UNCHANGED <<now, rows, bind, handed, born, once, uses>>

\* DELETE /tokens/{username}, when a certificate of the user is revoked.
DeleteByUsername(u) ==
    /\ \E row \in rows : row.user = u
    /\ rows' = {row \in rows : row.user # u}
    /\ UNCHANGED <<now, bind, enroll, handed, faults, born, once, uses>>

\* ldap-proxy restarts: the database is on tmpfs and dies with the container.
Restart ==
    /\ Fault
    /\ rows' = {}
    /\ bind' = [b \in Conn |-> NoBind]
    /\ UNCHANGED <<now, enroll, handed, born, once, uses>>

Next ==
    \/ Tick
    \/ Restart
    \/ \E b \in Conn :
         \/ \E u \in User, t \in Token : VerifyStart(b, u, t)
         \/ Clean(b)
         \/ Select(b)
         \/ Consume(b)
         \/ Reply(b)
    \/ \E a \in Admin :
         \/ \E u \in User : GetActive(a, u)
         \/ \E t \in Token, ttl \in TTLs, oneTime \in OneTimes :
              Create(a, t, ttl, oneTime)
         \/ GiveUp(a)
    \/ \E u \in User : DeleteByUsername(u)

Spec == Init /\ [][Next]_vars

(***************************************************************************)
(* The refinement: the table is the ledger, and a Verify is a question     *)
(* that has no answer before it is accepted, rejected or in error.         *)
(***************************************************************************)
AsQuestion(o) ==
    [user |-> o.user, token |-> o.token, at |-> o.at,
     answer |-> IF o.pc \in {"clean", "select", "consume"} THEN "open"
                ELSE IF o.pc = "stale" THEN "failed"
                ELSE o.pc]

Asked == [b \in Conn |-> AsQuestion(bind[b])]

Ledger == INSTANCE TokenLedger WITH ledger <- rows, issued <- born, asked <- Asked

(***************************************************************************)
(* Properties.                                                             *)
(***************************************************************************)
Bind == [pc : {"idle", "clean", "select", "consume", "accepted", "rejected",
               "stale", "failed"},
         user : User \cup {None}, token : Token \cup {None}, at : Nat,
         snapshot : SUBSET Row, seen : SUBSET Token, dead : SUBSET Token]

\* The type invariant.  The id of a row is a key, and no handler keeps a
\* transaction open once it has answered.
TypeOK ==
    /\ now \in Nat
    /\ rows \subseteq Row
    /\ \A x, y \in rows : x.id = y.id => x = y
    /\ bind \in [Conn -> Bind]
    /\ \A b \in Conn : bind[b].pc = "idle" => bind[b].snapshot = {}
    /\ enroll \in [Admin -> User \cup {None}]
    /\ handed \subseteq Token
    /\ faults \in 0..MaxFaults
    /\ born \subseteq Token
    /\ once \subseteq Token
    /\ uses \in [Token -> Nat]

\* Verify "uses a transaction to prevent concurrent consumption of one-time
\* tokens": whatever the interleaving, a one-time token is accepted once.
OneTimeOnce == \A t \in once : uses[t] <= 1

\* A bind is accepted only with a token that was neither expired nor deleted
\* when Verify began, however long Verify took and whatever the clean-up did.
NoDeadTokenAccepted ==
    \A b \in Conn : bind[b].pc = "accepted" => bind[b].token \notin bind[b].dead

\* Verify "checks if the password matches a valid token for the given
\* username.  Returns true if matched": when it has said no without an error,
\* no valid token of that user has that value, whatever clean-ups, deletions
\* and other binds came in between.  And where the store does not fail, an
\* error is the fate of one-time tokens only: what others write meanwhile
\* never keeps a reusable token from matching.
ValidTokenMatches ==
    \A b \in Conn :
        /\ bind[b].pc = "rejected" =>
              ~\E row \in rows : /\ row.id = bind[b].token
                                 /\ row.user = bind[b].user
                                 /\ Live(row, now)
        /\ bind[b].pc = "stale" => bind[b].token \in once

\* Verify's clock reading, clean-up, selection and deletion, in transactions of
\* their own and between those of other handlers and of the monitor, answer as
\* one look at the table does, and a clean-up takes nobody's live token.
ImplementsLedger == Ledger!Spec

=============================================================================
