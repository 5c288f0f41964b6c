------------------------ MODULE EnrollmentTokensProofs ------------------------
(***************************************************************************)
(* Proofs about EnrollmentTokens, for any users, tokens, handlers,         *)
(* requests, lifetimes and failures.                                       *)
(***************************************************************************)
EXTENDS EnrollmentTokens, TLAPS

(***************************************************************************)
(* Types.  A token value is inserted once, which makes it a key.           *)
(***************************************************************************)
TypeInv ==
    /\ TypeOK
    /\ \A row \in rows : row.id \in born
    /\ handed \subseteq born
    /\ \A b \in Conn : bind[b].pc # "idle" => bind[b].token \in handed

LEMMA TypeInit == Init => TypeInv
BY TokensAssumption DEF Init, TypeInv, TypeOK, NoBind, Bind, TokensAssumption

LEMMA TypeStep == TypeInv /\ [Next]_vars => TypeInv'
<1> SUFFICES ASSUME TypeInv, [Next]_vars PROVE TypeInv'
  OBVIOUS
<1> USE TokensAssumption DEF TokensAssumption, TypeInv, TypeOK
<1>1. CASE Tick
  BY <1>1 DEF Tick
<1>2. CASE Restart
  BY <1>2 DEF Restart, Fault, NoBind, Bind
<1>3. ASSUME NEW b \in Conn, NEW u \in User, NEW t \in Token,
             VerifyStart(b, u, t)
      PROVE  TypeInv'
  <2> DEFINE o == [NoBind EXCEPT !.pc = "clean", !.user = u, !.token = t,
                                 !.at = now, !.dead = Dead]
  <2>1. Dead \subseteq Token
    BY DEF Dead
  <2>2. o \in Bind /\ o.snapshot = {} /\ o.token = t
    BY <2>1 DEF NoBind, Bind
  <2>3. /\ bind' = [bind EXCEPT ![b] = o] /\ t \in handed
        /\ UNCHANGED <<now, rows, enroll, handed, faults, born, once, uses>>
    BY <1>3 DEF VerifyStart
  <2> HIDE DEF o
  <2>4. QED
    BY <2>2, <2>3
<1>4. ASSUME NEW b \in Conn, Clean(b) PROVE TypeInv'
  <2>1. rows' \subseteq rows /\ faults' \in 0..MaxFaults
    BY <1>4 DEF Clean, Fault
  <2>2. QED
    BY <1>4, <2>1 DEF Clean, Bind
<1>5. ASSUME NEW b \in Conn, Select(b) PROVE TypeInv'
  <2> DEFINE o == [bind[b] EXCEPT !.pc = "consume", !.snapshot = rows, !.seen = born]
  <2>1. bind[b] \in Bind /\ bind[b].pc = "select"
    BY <1>5 DEF Select
  <2>2. o \in Bind /\ o.pc = "consume" /\ o.token = bind[b].token
    BY <2>1 DEF Bind
  <2>3. /\ UNCHANGED <<now, rows, enroll, handed, born, once, uses>>
        /\ faults' \in 0..MaxFaults
    BY <1>5 DEF Select, Fault
  <2>4. CASE bind' = [bind EXCEPT ![b] = o]
    <3> HIDE DEF o
    <3>1. QED
      BY <2>1, <2>2, <2>3, <2>4
  <2>5. CASE \E pc \in {"accepted", "rejected", "failed"} :
                bind' = [bind EXCEPT ![b].pc = pc]
    BY <2>1, <2>3, <2>5 DEF Bind
  <2>6. QED
    BY <1>5, <2>4, <2>5 DEF Select
<1>6. ASSUME NEW b \in Conn, Consume(b) PROVE TypeInv'
  <2>1. /\ rows' \subseteq rows
        /\ \E pc \in {"accepted", "stale", "failed"} :
              bind' = [bind EXCEPT ![b].pc = pc]
        /\ bind[b].pc = "consume"
        /\ UNCHANGED <<now, enroll, handed, born, once>>
        /\ faults' \in 0..MaxFaults
    BY <1>6 DEF Consume, Fault
  <2>2. uses' \in [Token -> Nat]
    BY <1>6 DEF Consume
  <2>3. QED
    BY <2>1, <2>2 DEF Bind
<1>7. ASSUME NEW b \in Conn, Reply(b) PROVE TypeInv'
  BY <1>7 DEF Reply, NoBind, Bind
<1>8. ASSUME NEW a \in Admin, NEW u \in User, GetActive(a, u) PROVE TypeInv'
  BY <1>8 DEF GetActive, Active, Row
<1>9. ASSUME NEW a \in Admin, NEW t \in Token, NEW ttl \in TTLs,
             NEW oneTime \in OneTimes, Create(a, t, ttl, oneTime)
      PROVE  TypeInv'
  <2> DEFINE row == [id |-> t, user |-> enroll[a], one_time |-> oneTime,
                     expires |-> IF ttl > 0 THEN now + ttl ELSE None]
  <2>1. row \in Row /\ row.id = t
    BY <1>9 DEF Create, Row
  <2>2. rows' = rows \cup {row} /\ t \notin born /\ born' = born \cup {t}
    BY <1>9 DEF Create
  <2>3. faults' \in 0..MaxFaults
    BY <1>9 DEF Create, Fault
  <2> HIDE DEF row
  <2>4. /\ rows' \subseteq Row
        /\ \A x, y \in rows' : x.id = y.id => x = y
        /\ \A x \in rows' : x.id \in born'
    BY <2>1, <2>2
  <2>5. QED
    BY <1>9, <2>2, <2>3, <2>4 DEF Create
<1>10. ASSUME NEW u \in User, DeleteByUsername(u) PROVE TypeInv'
  <2>1. rows' \subseteq rows
    BY <1>10 DEF DeleteByUsername
  <2>2. QED
    BY <1>10, <2>1 DEF DeleteByUsername
<1>11. ASSUME NEW a \in Admin, GiveUp(a) PROVE TypeInv'
  BY <1>11 DEF GiveUp, Fault
<1>12. CASE UNCHANGED vars
  BY <1>12 DEF vars
<1>13. QED
  BY <1>1, <1>2, <1>3, <1>4, <1>5, <1>6, <1>7, <1>8, <1>9, <1>10, <1>11,
     <1>12 DEF Next

\* Every variable keeps its type; ids stay unique in the table.
THEOREM TypeCorrect == Spec => []TypeOK
<1>1. TypeInv => TypeOK
  BY DEF TypeInv
<1>2. QED
  BY <1>1, TypeInit, TypeStep, PTL DEF Spec

(***************************************************************************)
(* One-time tokens.  A row still in the table has not been consumed, and a *)
(* handler deletes a row only when the table is the one it selected from,  *)
(* so the row it accepts for is still there.                               *)
(***************************************************************************)
\* The one-time row a handler has selected and is about to delete.
Found(o) ==
    \E row \in o.snapshot : /\ row.id = o.token
                            /\ row.user = o.user
                            /\ row.one_time
                            /\ Live(row, o.at)

OnceInv ==
    /\ \A row \in rows : uses[row.id] = 0
    /\ \A t \in Token : uses[t] <= 1
    /\ \A t \in Token \ born : uses[t] = 0
    /\ \A b \in Conn : bind[b].pc = "consume" => Found(bind[b])

LEMMA OnceStep == TypeInv /\ OnceInv /\ [Next]_vars => OnceInv'
<1> SUFFICES ASSUME TypeInv, OnceInv, [Next]_vars PROVE OnceInv'
  OBVIOUS
<1> USE TokensAssumption DEF TokensAssumption, TypeInv, TypeOK, OnceInv, Found, Live
<1>1. CASE Tick \/ UNCHANGED vars
  BY <1>1 DEF Tick, vars
<1>2. CASE Restart
  BY <1>2 DEF Restart, NoBind
<1>3. ASSUME NEW b \in Conn, NEW u \in User, NEW t \in Token,
             VerifyStart(b, u, t)
      PROVE  OnceInv'
  BY <1>3 DEF VerifyStart, NoBind
<1>4. ASSUME NEW b \in Conn, Clean(b) PROVE OnceInv'
  <2>1. /\ rows' \subseteq rows /\ UNCHANGED <<born, uses>>
        /\ bind' = [bind EXCEPT ![b].pc = "select"]
    BY <1>4 DEF Clean
  <2>2. \A c \in Conn : bind'[c].pc = "consume" => bind'[c] = bind[c]
    BY <2>1 DEF Bind
  <2>3. QED
    BY <2>1, <2>2
<1>5. ASSUME NEW b \in Conn, Select(b) PROVE OnceInv'
  <2>1. UNCHANGED <<rows, born, uses>> /\ bind[b] \in Bind
    BY <1>5 DEF Select
  <2>2. CASE /\ \E row \in Match(bind[b]) : row.one_time
             /\ bind' = [bind EXCEPT ![b] = [bind[b] EXCEPT !.pc = "consume",
                                               !.snapshot = rows, !.seen = born]]
    <3>1. PICK row \in Match(bind[b]) : row.one_time /\
                bind' = [bind EXCEPT ![b] = [bind[b] EXCEPT !.pc = "consume",
                                               !.snapshot = rows, !.seen = born]]
      BY <2>2
    <3>2. /\ row \in rows /\ row.id = bind[b].token /\ row.user = bind[b].user
          /\ row.one_time /\ Live(row, bind[b].at)
      BY <3>1 DEF Match
    <3>3. /\ bind'[b].snapshot = rows /\ bind'[b].token = bind[b].token
          /\ bind'[b].user = bind[b].user /\ bind'[b].at = bind[b].at
      BY <2>1, <3>1 DEF Bind
    <3>4. \A c \in Conn : c # b => bind'[c] = bind[c]
      BY <3>1
    <3>5. QED
      BY <2>1, <3>2, <3>3, <3>4
  <2>3. CASE \E pc \in {"accepted", "rejected", "failed"} :
                bind' = [bind EXCEPT ![b].pc = pc]
    <3>1. \A c \in Conn : bind'[c].pc = "consume" => bind'[c] = bind[c]
      BY <2>1, <2>3 DEF Bind
    <3>2. QED
      BY <2>1, <3>1
  <2>4. QED
    BY <1>5, <2>2, <2>3 DEF Select
<1>6. ASSUME NEW b \in Conn, Consume(b) PROVE OnceInv'
  <2>1. /\ bind[b].pc = "consume" /\ born' = born
        /\ \E pc \in {"accepted", "stale", "failed"} :
              bind' = [bind EXCEPT ![b].pc = pc]
    BY <1>6 DEF Consume
  <2>2. \A c \in Conn : bind'[c].pc = "consume" => bind'[c] = bind[c]
    BY <2>1 DEF Bind
  <2>3. CASE UNCHANGED <<rows, uses>>
    BY <2>1, <2>2, <2>3
  <2>4. CASE /\ rows = bind[b].snapshot
             /\ uses' = [uses EXCEPT ![bind[b].token] = @ + 1]
             /\ rows' = {x \in rows : x.id # bind[b].token}
    <3>1. PICK row \in rows : row.id = bind[b].token
      BY <2>1, <2>4
    <3>2. uses[bind[b].token] = 0 /\ bind[b].token \in Token
          /\ bind[b].token \in born
      BY <3>1 DEF Row
    <3>3. \A x \in rows' : uses'[x.id] = 0
      BY <2>4 DEF Row
    <3>4. QED
      BY <2>1, <2>2, <2>4, <3>2, <3>3
  <2>5. QED
    BY <1>6, <2>3, <2>4 DEF Consume
<1>7. ASSUME NEW b \in Conn, Reply(b) PROVE OnceInv'
  BY <1>7 DEF Reply, NoBind
<1>8. ASSUME NEW a \in Admin, NEW u \in User, GetActive(a, u) PROVE OnceInv'
  BY <1>8 DEF GetActive
<1>9. ASSUME NEW a \in Admin, NEW t \in Token, NEW ttl \in TTLs,
             NEW oneTime \in OneTimes, Create(a, t, ttl, oneTime)
      PROVE  OnceInv'
  <2>1. /\ \A x \in rows' : x \in rows \/ x.id = t
        /\ t \in Token \ born
        /\ born' = born \cup {t}
        /\ UNCHANGED <<bind, uses>>
    BY <1>9 DEF Create
  <2>2. QED
    BY <2>1
<1>10. ASSUME NEW u \in User, DeleteByUsername(u) PROVE OnceInv'
  BY <1>10 DEF DeleteByUsername
<1>11. ASSUME NEW a \in Admin, GiveUp(a) PROVE OnceInv'
  BY <1>11 DEF GiveUp
<1>12. QED
  BY <1>1, <1>2, <1>3, <1>4, <1>5, <1>6, <1>7, <1>8, <1>9, <1>10, <1>11
     DEF Next

\* tokens.go: the transaction prevents concurrent consumption of one-time
\* tokens, for any number of handlers.
THEOREM OneTimeTokensOnce == Spec => []OneTimeOnce
<1>1. Init => TypeInv /\ OnceInv
  BY TypeInit DEF Init, OnceInv, NoBind
<1>2. TypeInv /\ OnceInv /\ [Next]_vars => TypeInv' /\ OnceInv'
  BY TypeStep, OnceStep
<1>3. TypeInv /\ OnceInv => OneTimeOnce
  BY DEF TypeInv, TypeOK, OnceInv, OneTimeOnce
<1>4. QED
  BY <1>1, <1>2, <1>3, PTL DEF Spec

(***************************************************************************)
(* Dead tokens.  A token that was dead when Verify read the clock has no   *)
(* row that is live by that reading, then or later.                        *)
(***************************************************************************)
DeadInv ==
    \A b \in Conn : bind[b].pc # "idle" =>
        /\ bind[b].dead \subseteq born
        /\ \A row \in rows : row.id \in bind[b].dead => ~Live(row, bind[b].at)
        /\ bind[b].pc \in {"consume", "accepted"} =>
              bind[b].token \notin bind[b].dead

\* What a step can do to the table and to a handler it leaves alone.
LEMMA DeadKept ==
    ASSUME TypeInv, DeadInv, NEW b \in Conn, bind'[b] = bind[b],
           \A x \in rows' : x \in rows \/ x.id \notin born, born \subseteq born'
    PROVE  bind'[b].pc # "idle" =>
             /\ bind'[b].dead \subseteq born'
             /\ \A row \in rows' : row.id \in bind'[b].dead =>
                                      ~Live(row, bind'[b].at)
             /\ bind'[b].pc \in {"consume", "accepted"} =>
                   bind'[b].token \notin bind'[b].dead
BY DEF DeadInv

LEMMA DeadStep == TypeInv /\ DeadInv /\ [Next]_vars => DeadInv'
<1> SUFFICES ASSUME TypeInv, DeadInv, [Next]_vars PROVE DeadInv'
  OBVIOUS
<1> USE TokensAssumption DEF TokensAssumption
<1>1. bind \in [Conn -> Bind]
  BY DEF TypeInv, TypeOK
<1>2. CASE Tick \/ UNCHANGED vars
  BY <1>2 DEF Tick, vars, DeadInv, Live
<1>3. CASE Restart
  BY <1>3 DEF Restart, NoBind, DeadInv
<1>4. ASSUME NEW b \in Conn, NEW u \in User, NEW t \in Token,
             VerifyStart(b, u, t)
      PROVE  DeadInv'
  <2> DEFINE o == [NoBind EXCEPT !.pc = "clean", !.user = u, !.token = t,
                                 !.at = now, !.dead = Dead]
  <2>1. o.pc = "clean" /\ o.dead = Dead /\ o.at = now
    BY DEF NoBind
  <2>2. bind' = [bind EXCEPT ![b] = o] /\ UNCHANGED <<rows, born>>
    BY <1>4 DEF VerifyStart
  <2> HIDE DEF o
  <2>3. bind'[b] = o /\ \A c \in Conn : c # b => bind'[c] = bind[c]
    BY <1>1, <2>2
  <2>4. /\ o.dead \subseteq born
        /\ \A row \in rows : row.id \in o.dead => ~Live(row, o.at)
    BY <2>1 DEF Dead
  <2>5. QED
    BY <2>1, <2>2, <2>3, <2>4 DEF DeadInv, Live
<1>5. ASSUME NEW b \in Conn, Clean(b) PROVE DeadInv'
  <2>1. rows' \subseteq rows /\ born' = born
        /\ bind' = [bind EXCEPT ![b].pc = "select"]
        /\ bind[b].pc = "clean"
    BY <1>5 DEF Clean
  <2>2. /\ bind'[b].dead = bind[b].dead /\ bind'[b].at = bind[b].at
        /\ bind'[b].pc = "select"
        /\ \A c \in Conn : c # b => bind'[c] = bind[c]
    BY <1>1, <2>1 DEF Bind
  <2>3. QED
    BY <2>1, <2>2 DEF DeadInv, Live
<1>6. ASSUME NEW b \in Conn, Select(b) PROVE DeadInv'
  <2>1. UNCHANGED <<rows, born>> /\ bind[b].pc = "select"
    BY <1>6 DEF Select
  <2>2. /\ bind'[b].dead = bind[b].dead /\ bind'[b].at = bind[b].at
        /\ bind'[b].token = bind[b].token
        /\ bind'[b].pc \in {"consume", "accepted"} => Match(bind[b]) # {}
        /\ \A c \in Conn : c # b => bind'[c] = bind[c]
    <3>1. CASE /\ Match(bind[b]) # {}
               /\ bind' = [bind EXCEPT ![b] = [bind[b] EXCEPT !.pc = "consume",
                                                !.snapshot = rows, !.seen = born]]
      <4> DEFINE o == [bind[b] EXCEPT !.pc = "consume", !.snapshot = rows, !.seen = born]
      <4>1. /\ o.dead = bind[b].dead /\ o.at = bind[b].at
            /\ o.token = bind[b].token /\ o.pc = "consume"
        BY <1>1 DEF Bind
      <4> HIDE DEF o
      <4>2. QED
        BY <1>1, <3>1, <4>1 DEF o
    <3>2. CASE \E pc \in {"accepted", "rejected", "failed"} :
                  /\ bind' = [bind EXCEPT ![b].pc = pc]
                  /\ pc = "accepted" => Match(bind[b]) # {}
      BY <1>1, <3>2 DEF Bind
    <3>3. QED
      BY <1>6, <3>1, <3>2 DEF Select
  <2>3. ASSUME Match(bind[b]) # {} PROVE bind[b].token \notin bind[b].dead
    BY <2>1, <2>3 DEF Match, DeadInv
  <2>4. QED
    BY <2>1, <2>2, <2>3 DEF DeadInv, Live
<1>7. ASSUME NEW b \in Conn, Consume(b) PROVE DeadInv'
  <2>1. rows' \subseteq rows /\ born' = born /\ bind[b].pc = "consume"
    BY <1>7 DEF Consume
  <2>2. /\ bind'[b].dead = bind[b].dead /\ bind'[b].at = bind[b].at
        /\ bind'[b].token = bind[b].token
        /\ \A c \in Conn : c # b => bind'[c] = bind[c]
    BY <1>1, <1>7 DEF Consume, Bind
  <2>3. QED
    BY <2>1, <2>2 DEF DeadInv, Live
<1>8. ASSUME NEW b \in Conn, Reply(b) PROVE DeadInv'
  BY <1>1, <1>8 DEF Reply, NoBind, DeadInv, Live
<1>9. ASSUME NEW a \in Admin, NEW u \in User, GetActive(a, u) PROVE DeadInv'
  BY <1>9 DEF GetActive, DeadInv, Live
<1>10. ASSUME NEW a \in Admin, NEW t \in Token, NEW ttl \in TTLs,
              NEW oneTime \in OneTimes, Create(a, t, ttl, oneTime)
       PROVE  DeadInv'
  <2>1. /\ \A x \in rows' : x \in rows \/ x.id \notin born
        /\ born \subseteq born' /\ bind' = bind
    BY <1>10 DEF Create
  <2>2. \A b \in Conn : bind'[b].pc # "idle" =>
             /\ bind'[b].dead \subseteq born'
             /\ \A row \in rows' : row.id \in bind'[b].dead =>
                                      ~Live(row, bind'[b].at)
             /\ bind'[b].pc \in {"consume", "accepted"} =>
                   bind'[b].token \notin bind'[b].dead
    BY <2>1, DeadKept
  <2>3. QED
    BY <2>2 DEF DeadInv, Live
<1>11. ASSUME NEW u \in User, DeleteByUsername(u) PROVE DeadInv'
  BY <1>11 DEF DeleteByUsername, DeadInv, Live
<1>12. ASSUME NEW a \in Admin, GiveUp(a) PROVE DeadInv'
  BY <1>12 DEF GiveUp, DeadInv, Live
<1>13. QED
  BY <1>2, <1>3, <1>4, <1>5, <1>6, <1>7, <1>8, <1>9, <1>10, <1>11, <1>12
     DEF Next

\* No bind is accepted with a token that had expired or was deleted before
\* Verify began, even when the clean-up fails.
THEOREM DeadTokensRejected == Spec => []NoDeadTokenAccepted
<1>1. Init => TypeInv /\ DeadInv
  BY TypeInit DEF Init, DeadInv, NoBind
<1>2. TypeInv /\ DeadInv /\ [Next]_vars => TypeInv' /\ DeadInv'
  BY TypeStep, DeadStep
<1>3. TypeInv /\ DeadInv => NoDeadTokenAccepted
  BY DEF DeadInv, NoDeadTokenAccepted
<1>4. QED
  BY <1>1, <1>2, <1>3, PTL DEF Spec

(***************************************************************************)
(* Valid tokens.  A row that Verify did not find by its own clock reading  *)
(* is not there later either, no reading is ahead of the clock, and a      *)
(* handler that has something to delete has it for a one-time token.       *)
(***************************************************************************)
Missed(o, rs) ==
    \A row \in rs : row.id = o.token /\ row.user = o.user => ~Live(row, o.at)

MatchInv ==
    /\ \A row \in rows : row.one_time => row.id \in once
    /\ \A b \in Conn :
          /\ bind[b].at <= now
          /\ bind[b].pc = "rejected" => Missed(bind[b], rows)
          /\ bind[b].pc \in {"consume", "stale"} => bind[b].token \in once

LEMMA MatchStep == TypeInv /\ MatchInv /\ [Next]_vars => MatchInv'
<1> SUFFICES ASSUME TypeInv, MatchInv, [Next]_vars PROVE MatchInv'
  OBVIOUS
<1> USE TokensAssumption DEF TokensAssumption
<1>1. bind \in [Conn -> Bind] /\ now \in Nat
  BY DEF TypeInv, TypeOK
<1>2. CASE Tick
  <2>1. \A b \in Conn : bind[b].at \in Nat
    BY <1>1 DEF Bind
  <2>2. QED
    BY <1>1, <1>2, <2>1 DEF Tick, MatchInv, Missed, Live
<1>3. CASE Restart
  BY <1>1, <1>3 DEF Restart, NoBind, MatchInv
<1>4. ASSUME NEW b \in Conn, NEW u \in User, NEW t \in Token,
             VerifyStart(b, u, t)
      PROVE  MatchInv'
  <2> DEFINE o == [NoBind EXCEPT !.pc = "clean", !.user = u, !.token = t,
                                 !.at = now, !.dead = Dead]
  <2>1. o.pc = "clean" /\ o.at = now
    BY DEF NoBind
  <2>2. bind' = [bind EXCEPT ![b] = o] /\ UNCHANGED <<now, rows, once>>
    BY <1>4 DEF VerifyStart
  <2> HIDE DEF o
  <2>3. bind'[b] = o /\ \A c \in Conn : c # b => bind'[c] = bind[c]
    BY <1>1, <2>2
  <2>4. QED
    BY <1>1, <2>1, <2>2, <2>3 DEF MatchInv, Missed, Live
<1>5. ASSUME NEW b \in Conn, Clean(b) PROVE MatchInv'
  <2>1. /\ rows' \subseteq rows /\ UNCHANGED <<now, once>>
        /\ bind' = [bind EXCEPT ![b].pc = "select"]
    BY <1>5 DEF Clean
  <2>2. /\ bind'[b].at = bind[b].at /\ bind'[b].pc = "select"
        /\ \A c \in Conn : c # b => bind'[c] = bind[c]
    BY <1>1, <2>1 DEF Bind
  <2>3. QED
    BY <2>1, <2>2 DEF MatchInv, Missed, Live
<1>6. ASSUME NEW b \in Conn, Select(b) PROVE MatchInv'
  <2>1. UNCHANGED <<now, rows, once>>
    BY <1>6 DEF Select
  <2>2. /\ bind'[b].at = bind[b].at
        /\ bind'[b].token = bind[b].token /\ bind'[b].user = bind[b].user
        /\ \/ bind'[b].pc = "accepted"
           \/ bind'[b].pc = "rejected" /\ Match(bind[b]) = {}
           \/ bind'[b].pc = "failed"
           \/ /\ bind'[b].pc = "consume"
              /\ \E row \in Match(bind[b]) : row.one_time
        /\ \A c \in Conn : c # b => bind'[c] = bind[c]
    <3>1. CASE /\ \E row \in Match(bind[b]) : row.one_time
               /\ bind' = [bind EXCEPT ![b] = [bind[b] EXCEPT !.pc = "consume",
                                                !.snapshot = rows, !.seen = born]]
      <4> DEFINE o == [bind[b] EXCEPT !.pc = "consume", !.snapshot = rows, !.seen = born]
      <4>1. /\ o.at = bind[b].at /\ o.token = bind[b].token
            /\ o.user = bind[b].user /\ o.pc = "consume"
        BY <1>1 DEF Bind
      <4> HIDE DEF o
      <4>2. QED
        BY <1>1, <3>1, <4>1 DEF o
    <3>2. CASE \E pc \in {"accepted", "rejected", "failed"} :
                  /\ bind' = [bind EXCEPT ![b].pc = pc]
                  /\ pc = "rejected" => Match(bind[b]) = {}
      BY <1>1, <3>2 DEF Bind
    <3>3. QED
      BY <1>6, <3>1, <3>2 DEF Select
  <2>3. ASSUME NEW row \in Match(bind[b]), row.one_time
        PROVE  bind[b].token \in once
    BY <2>3 DEF Match, MatchInv
  <2>4. Match(bind[b]) = {} => Missed(bind[b], rows)
    BY DEF Match, Missed
  <2>5. QED
    BY <2>1, <2>2, <2>3, <2>4 DEF MatchInv, Missed, Live
<1>7. ASSUME NEW b \in Conn, Consume(b) PROVE MatchInv'
  <2>1. rows' \subseteq rows /\ UNCHANGED <<now, once>> /\ bind[b].pc = "consume"
    BY <1>7 DEF Consume
  <2>2. /\ bind'[b].at = bind[b].at /\ bind'[b].pc # "rejected"
        /\ bind'[b].token = bind[b].token /\ bind'[b].user = bind[b].user
        /\ \A c \in Conn : c # b => bind'[c] = bind[c]
    BY <1>1, <1>7 DEF Consume, Bind
  <2>3. QED
    BY <2>1, <2>2 DEF MatchInv, Missed, Live
<1>8. ASSUME NEW b \in Conn, Reply(b) PROVE MatchInv'
  <2>1. bind'[b] = NoBind /\ \A c \in Conn : c # b => bind'[c] = bind[c]
    BY <1>1, <1>8 DEF Reply
  <2>2. UNCHANGED <<now, rows, once>>
    BY <1>8 DEF Reply
  <2>3. QED
    BY <1>1, <2>1, <2>2 DEF MatchInv, Missed, Live, NoBind
<1>9. ASSUME NEW a \in Admin, NEW u \in User, GetActive(a, u) PROVE MatchInv'
  BY <1>9 DEF GetActive, MatchInv, Missed, Live
<1>10. ASSUME NEW a \in Admin, NEW t \in Token, NEW ttl \in TTLs,
              NEW oneTime \in OneTimes, Create(a, t, ttl, oneTime)
       PROVE  MatchInv'
  <2>1. /\ \A x \in rows' : x \in rows \/ (x.id = t /\ x.one_time = oneTime)
        /\ t \notin born
        /\ once' = IF oneTime THEN once \cup {t} ELSE once
        /\ UNCHANGED <<now, bind>>
    BY <1>10 DEF Create
  <2>2. ASSUME NEW b \in Conn, bind[b].pc = "rejected"
        PROVE  Missed(bind[b], rows')
    <3>1. bind[b].token \in handed /\ handed \subseteq born
      BY <2>2 DEF TypeInv
    <3>2. Missed(bind[b], rows)
      BY <2>2 DEF MatchInv
    <3>3. QED
      BY <2>1, <3>1, <3>2 DEF Missed
  <2>3. QED
    BY <2>1, <2>2 DEF MatchInv, Missed, Live
<1>11. ASSUME NEW u \in User, DeleteByUsername(u) PROVE MatchInv'
  BY <1>11 DEF DeleteByUsername, MatchInv, Missed, Live
<1>12. ASSUME NEW a \in Admin, GiveUp(a) PROVE MatchInv'
  BY <1>12 DEF GiveUp, MatchInv, Missed, Live
<1>13. CASE UNCHANGED vars
  BY <1>13 DEF vars, MatchInv, Missed, Live
<1>14. QED
  BY <1>2, <1>3, <1>4, <1>5, <1>6, <1>7, <1>8, <1>9, <1>10, <1>11, <1>12,
     <1>13 DEF Next

\* A plain no means that the user has no valid token of that value, whatever
\* clean-ups, deletions and other binds Verify runs beside; what others write
\* meanwhile makes an error of one-time tokens only.
THEOREM ValidTokensMatch == Spec => []ValidTokenMatches
<1>1. Init => TypeInv /\ MatchInv
  BY TypeInit DEF Init, MatchInv, NoBind
<1>2. TypeInv /\ MatchInv /\ [Next]_vars => TypeInv' /\ MatchInv'
  BY TypeStep, MatchStep
<1>3. TypeInv /\ MatchInv => ValidTokenMatches
  <2> SUFFICES ASSUME TypeInv, MatchInv, NEW b \in Conn,
                      bind[b].pc = "rejected", NEW row \in rows,
                      row.id = bind[b].token, row.user = bind[b].user,
                      Live(row, now)
               PROVE  FALSE
    BY DEF ValidTokenMatches, MatchInv
  <2>1. /\ bind[b].at \in Nat /\ now \in Nat /\ bind[b].at <= now
        /\ row.expires \in Nat \cup {None}
    BY DEF MatchInv, TypeInv, TypeOK, Bind, Row
  <2>2. Live(row, bind[b].at)
    BY <2>1, TokensAssumption DEF Live, TokensAssumption
  <2>3. QED
    BY <2>2 DEF MatchInv, Missed
<1>4. QED
  BY <1>1, <1>2, <1>3, PTL DEF Spec

(***************************************************************************)
(* Refinement.  A bind is answered where Select or Consume decides: then   *)
(* the table is what it was when the row was selected, the row is the only *)
(* one with its token, and it is live by the reading of the clock.  Every  *)
(* other step of a handler is a stutter, or drops expired rows.            *)
(***************************************************************************)
\* What a step of one handler does to the questions.
LEMMA AskedStep ==
    ASSUME bind \in [Conn -> Bind], NEW b \in Conn, NEW o,
           bind' = [bind EXCEPT ![b] = o]
    PROVE  Asked' = [Asked EXCEPT ![b] = AsQuestion(o)]
BY DEF Asked

LEMMA AskedAnswer ==
    ASSUME NEW b \in Conn, NEW o \in Bind, NEW pc \in {"accepted", "rejected", "failed"}
    PROVE  /\ Asked[b] = AsQuestion(bind[b])
           /\ AsQuestion([o EXCEPT !.pc = pc]) =
                 [AsQuestion(o) EXCEPT !.answer = pc]
BY DEF Asked, AsQuestion, Bind

\* A step of a handler that has not been answered yet and is not now.
LEMMA AskedSame ==
    ASSUME bind \in [Conn -> Bind], NEW b \in Conn, NEW o,
           bind' = [bind EXCEPT ![b] = o], AsQuestion(o) = AsQuestion(bind[b])
    PROVE  Asked' = Asked
BY DEF Asked

\* An answer changes the one field of the one question.
LEMMA AskedAnswered ==
    ASSUME bind \in [Conn -> Bind], NEW b \in Conn,
           NEW pc \in {"accepted", "rejected", "failed"},
           bind' = [bind EXCEPT ![b].pc = pc]
    PROVE  Asked' = [Asked EXCEPT ![b].answer = pc]
<1>1. bind[b] \in Bind
  OBVIOUS
<1>2. bind' = [bind EXCEPT ![b] = [bind[b] EXCEPT !.pc = pc]]
  OBVIOUS
<1>3. Asked' = [Asked EXCEPT ![b] = AsQuestion([bind[b] EXCEPT !.pc = pc])]
  BY <1>2, AskedStep
<1>4. QED
  BY <1>1, <1>3, AskedAnswer

\* The rows the question is about are those that Verify would select.
LEMMA AboutIsMatch ==
    ASSUME NEW b \in Conn
    PROVE  Ledger!About(Asked[b]) = Match(bind[b])
BY DEF Ledger!About, Ledger!Valid, Match, Live, Asked, AsQuestion

LEMMA StepRefines ==
    ASSUME TypeInv, OnceInv, MatchInv, NEW b \in Conn,
           Clean(b) \/ Select(b) \/ Consume(b) \/ Reply(b)
    PROVE  [Ledger!Next]_(Ledger!vars)
<1> USE TokensAssumption DEF TokensAssumption
<1>1. /\ bind \in [Conn -> Bind] /\ bind[b] \in Bind /\ now \in Nat
      /\ rows \subseteq Row /\ bind[b].at \in Nat /\ bind[b].at <= now
  BY DEF TypeInv, TypeOK, MatchInv, Bind
<1>2. Asked[b] = AsQuestion(bind[b])
  BY DEF Asked
<1>3. CASE Clean(b)
  <2>1. /\ bind' = [bind EXCEPT ![b] = [bind[b] EXCEPT !.pc = "select"]]
        /\ bind[b].pc = "clean"
        /\ UNCHANGED <<now, born>>
    BY <1>3 DEF Clean
  <2>2. AsQuestion([bind[b] EXCEPT !.pc = "select"]) = AsQuestion(bind[b])
    BY <1>1, <2>1 DEF AsQuestion, Bind
  <2>3. Asked' = Asked
    BY <1>1, <2>1, <2>2, AskedSame
  <2>4. CASE rows' = rows
    BY <2>1, <2>3, <2>4 DEF Ledger!vars
  <2>5. CASE rows' = {row \in rows : Live(row, bind[b].at)}
    <3>1. \A row \in rows \ rows' : ~Ledger!Valid(row, now)
      BY <1>1, <2>5 DEF Live, Ledger!Valid, Row
    <3>2. Ledger!Forget
      BY <2>1, <2>3, <2>5, <3>1 DEF Ledger!Forget
    <3>3. QED
      BY <3>2 DEF Ledger!Next
  <2>6. QED
    BY <1>3, <2>4, <2>5 DEF Clean
<1>4. ASSUME bind[b].pc \in {"select", "consume"},
             bind' = [bind EXCEPT ![b].pc = "failed"] \/ bind' = [bind EXCEPT ![b].pc = "stale"],
             UNCHANGED <<now, rows, born>>
      PROVE  Ledger!Next
  <2>1. Asked' = [Asked EXCEPT ![b].answer = "failed"]
    <3>1. CASE bind' = [bind EXCEPT ![b].pc = "failed"]
      BY <1>1, <3>1, AskedAnswered
    <3>2. CASE bind' = [bind EXCEPT ![b].pc = "stale"]
      <4> DEFINE o == [bind[b] EXCEPT !.pc = "stale"]
      <4>1. AsQuestion(o) = [AsQuestion(bind[b]) EXCEPT !.answer = "failed"]
        BY <1>1 DEF AsQuestion, Bind
      <4>2. bind' = [bind EXCEPT ![b] = o]
        BY <3>2
      <4> HIDE DEF o
      <4>3. Asked' = [Asked EXCEPT ![b] = AsQuestion(o)]
        BY <1>1, <4>2, AskedStep
      <4>4. QED
        BY <1>2, <4>1, <4>3
    <3>3. QED
      BY <1>4, <3>1, <3>2
  <2>2. Asked[b].answer = "open"
    BY <1>2, <1>4 DEF AsQuestion
  <2>3. Ledger!Fail(b)
    BY <1>4, <2>1, <2>2 DEF Ledger!Fail
  <2>4. QED
    BY <2>3 DEF Ledger!Next
<1>5. ASSUME bind[b].pc \in {"select", "consume"},
             NEW row \in Match(bind[b]),
             bind' = [bind EXCEPT ![b].pc = "accepted"],
             rows' = IF row.one_time THEN rows \ {row} ELSE rows,
             UNCHANGED <<now, born>>
      PROVE  Ledger!Next
  <2>1. Asked' = [Asked EXCEPT ![b].answer = "accepted"]
    BY <1>1, <1>5, AskedAnswered
  <2>2. Asked[b].answer = "open"
    BY <1>2, <1>5 DEF AsQuestion
  <2>3. row \in Ledger!About(Asked[b])
    BY AboutIsMatch
  <2>4. Ledger!Accept(b)
    BY <1>5, <2>1, <2>2, <2>3 DEF Ledger!Accept
  <2>5. QED
    BY <2>4 DEF Ledger!Next
<1>6. CASE Select(b)
  <2>1. bind[b].pc = "select" /\ UNCHANGED <<now, rows, born>>
    BY <1>6 DEF Select
  <2>2. CASE /\ Match(bind[b]) = {}
             /\ bind' = [bind EXCEPT ![b].pc = "rejected"]
    <3>1. Asked' = [Asked EXCEPT ![b].answer = "rejected"]
      BY <1>1, <2>2, AskedAnswered
    <3>2. Asked[b].answer = "open"
      BY <1>2, <2>1 DEF AsQuestion
    <3>3. Ledger!Refuse(b)
      BY <2>1, <2>2, <3>1, <3>2, AboutIsMatch DEF Ledger!Refuse
    <3>4. QED
      BY <3>3 DEF Ledger!Next
  <2>3. CASE bind' = [bind EXCEPT ![b] = [bind[b] EXCEPT !.pc = "consume",
                                            !.snapshot = rows, !.seen = born]]
    <3> DEFINE o == [bind[b] EXCEPT !.pc = "consume", !.snapshot = rows,
                                    !.seen = born]
    <3>1. AsQuestion(o) = AsQuestion(bind[b])
      BY <1>1, <2>1 DEF AsQuestion, Bind
    <3> HIDE DEF o
    <3>2. Asked' = Asked
      BY <1>1, <2>3, <3>1, AskedSame DEF o
    <3>3. QED
      BY <2>1, <3>2 DEF Ledger!vars
  <2>4. CASE /\ \E row \in Match(bind[b]) : ~row.one_time
             /\ bind' = [bind EXCEPT ![b].pc = "accepted"]
    BY <1>5, <2>1, <2>4
  <2>5. CASE bind' = [bind EXCEPT ![b].pc = "failed"]
    BY <1>4, <2>1, <2>5
  <2>6. QED
    BY <1>6, <2>2, <2>3, <2>4, <2>5 DEF Select
<1>7. CASE Consume(b)
  <2>1. bind[b].pc = "consume" /\ UNCHANGED <<now, born>>
    BY <1>7 DEF Consume
  <2>2. CASE /\ rows = bind[b].snapshot
             /\ rows' = {x \in rows : x.id # bind[b].token}
             /\ bind' = [bind EXCEPT ![b].pc = "accepted"]
    <3>1. PICK row \in rows : /\ row.id = bind[b].token
                              /\ row.user = bind[b].user
                              /\ row.one_time
                              /\ Live(row, bind[b].at)
      BY <2>1, <2>2 DEF OnceInv, Found
    <3>2. row \in Match(bind[b])
      BY <3>1 DEF Match
    <3>3. {x \in rows : x.id # bind[b].token} = rows \ {row}
      BY <3>1 DEF TypeInv, TypeOK
    <3>4. QED
      BY <1>5, <2>1, <2>2, <3>1, <3>2, <3>3
  <2>3. CASE /\ rows' = rows
             /\ \/ bind' = [bind EXCEPT ![b].pc = "failed"]
                \/ bind' = [bind EXCEPT ![b].pc = "stale"]
    BY <1>4, <2>1, <2>3
  <2>4. QED
    BY <1>7, <2>2, <2>3 DEF Consume
<1>8. CASE Reply(b)
  <2>1. /\ bind[b].pc \in {"accepted", "rejected", "stale", "failed"}
        /\ bind' = [bind EXCEPT ![b] = NoBind]
        /\ UNCHANGED <<now, rows, born>>
    BY <1>8 DEF Reply
  <2>2. AsQuestion(NoBind) = Ledger!NoQuestion
    BY DEF AsQuestion, NoBind, Ledger!NoQuestion
  <2>3. Asked' = [Asked EXCEPT ![b] = Ledger!NoQuestion]
    BY <1>1, <2>1, <2>2, AskedStep
  <2>4. Asked[b].answer \in {"accepted", "rejected", "failed"}
    BY <1>2, <2>1 DEF AsQuestion
  <2>5. Ledger!Reply(b)
    BY <2>1, <2>3, <2>4 DEF Ledger!Reply
  <2>6. QED
    BY <2>5 DEF Ledger!Next
<1>9. QED
  BY <1>3, <1>6, <1>7, <1>8

\* Every step of the handlers, the monitor and the clock is one of the ledger's,
\* or none.
LEMMA LedgerRefines ==
    ASSUME TypeInv, OnceInv, MatchInv, [Next]_vars
    PROVE  [Ledger!Next]_(Ledger!vars)
<1> USE TokensAssumption DEF TokensAssumption
<1>1. bind \in [Conn -> Bind] /\ enroll \in [Admin -> User \cup {None}]
  BY DEF TypeInv, TypeOK
<1>2. bind' = bind => Asked' = Asked
  BY DEF Asked
<1>3. CASE Tick
  BY <1>2, <1>3 DEF Tick, Ledger!Tick, Ledger!Next
<1>4. CASE Restart
  <2>1. Asked' = [b \in Conn |-> Ledger!NoQuestion]
    BY <1>4 DEF Restart, Asked, AsQuestion, NoBind, Ledger!NoQuestion
  <2>2. Ledger!Lose
    BY <1>4, <2>1 DEF Restart, Ledger!Lose
  <2>3. QED
    BY <2>2 DEF Ledger!Next
<1>5. ASSUME NEW b \in Conn, NEW u \in User, NEW t \in Token,
             VerifyStart(b, u, t)
      PROVE  Ledger!Next
  <2> DEFINE o == [NoBind EXCEPT !.pc = "clean", !.user = u, !.token = t,
                                 !.at = now, !.dead = Dead]
  <2>1. AsQuestion(o) = Ledger!Question(u, t, now)
    BY DEF AsQuestion, NoBind, Ledger!Question
  <2>2. /\ bind' = [bind EXCEPT ![b] = o] /\ bind[b].pc = "idle"
        /\ UNCHANGED <<now, rows, born>>
    BY <1>5 DEF VerifyStart
  <2> HIDE DEF o
  <2>3. Asked' = [Asked EXCEPT ![b] = Ledger!Question(u, t, now)]
    BY <1>1, <2>1, <2>2, AskedStep
  <2>4. Asked[b].answer = "idle"
    BY <2>2 DEF Asked, AsQuestion
  <2>5. Ledger!Ask(b, u, t)
    BY <2>2, <2>3, <2>4 DEF Ledger!Ask
  <2>6. QED
    BY <2>5 DEF Ledger!Next
<1>6. ASSUME NEW b \in Conn, Clean(b) \/ Select(b) \/ Consume(b) \/ Reply(b)
      PROVE  [Ledger!Next]_(Ledger!vars)
  BY <1>6, StepRefines
<1>7. ASSUME NEW a \in Admin, NEW t \in Token, NEW ttl \in TTLs,
             NEW oneTime \in OneTimes, Create(a, t, ttl, oneTime)
      PROVE  Ledger!Next
  <2>1. enroll[a] \in User
    BY <1>1, <1>7 DEF Create
  <2>2. Ledger!Issue(enroll[a], t, ttl, oneTime)
    BY <1>2, <1>7 DEF Create, Ledger!Issue
  <2>3. QED
    BY <2>1, <2>2 DEF Ledger!Next
<1>8. ASSUME NEW u \in User, DeleteByUsername(u) PROVE Ledger!Next
  <2>1. Ledger!Withdraw(u)
    BY <1>2, <1>8 DEF DeleteByUsername, Ledger!Withdraw
  <2>2. QED
    BY <2>1 DEF Ledger!Next
<1>9. CASE \/ \E a \in Admin : GiveUp(a) \/ \E u \in User : GetActive(a, u)
           \/ UNCHANGED vars
  <2>1. UNCHANGED <<now, rows, born, bind>>
    BY <1>9 DEF GiveUp, GetActive, vars
  <2>2. QED
    BY <1>2, <2>1 DEF Ledger!vars
<1>10. QED
  BY <1>3, <1>4, <1>5, <1>6, <1>7, <1>8, <1>9 DEF Next

\* tokens.go: Verify answers as one look at the table would, for any number of
\* handlers, tokens and requests of the monitor, clean-ups and restarts included.
THEOREM TokensImplementLedger == Spec => ImplementsLedger
<1>1. Init => Ledger!Init
  BY DEF Init, Ledger!Init, Asked, AsQuestion, NoBind, Ledger!NoQuestion
<1>2. Init => TypeInv /\ OnceInv /\ MatchInv
  BY TypeInit DEF Init, OnceInv, MatchInv, NoBind
<1>3. TypeInv /\ OnceInv /\ MatchInv /\ [Next]_vars
        => TypeInv' /\ OnceInv' /\ MatchInv'
  BY TypeStep, OnceStep, MatchStep
<1>4. TypeInv /\ OnceInv /\ MatchInv /\ [Next]_vars => [Ledger!Next]_(Ledger!vars)
  BY LedgerRefines
<1>5. QED
  BY <1>1, <1>2, <1>3, <1>4, PTL DEF Spec, ImplementsLedger, Ledger!Spec

=============================================================================
