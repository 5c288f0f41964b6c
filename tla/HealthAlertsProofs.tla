-------------------------- MODULE HealthAlertsProofs --------------------------
(***************************************************************************)
(* Proofs about HealthAlerts, for any services, sources, channels and      *)
(* cooldown. The polls and the engine need two facts of the evaluator: a   *)
(* verdict's status is a level (VerdictAssumption), and it is worth a      *)
(* notification when that level reaches alert_min_level. What it computes  *)
(* is proved after that, service by service: Judgement for the status,     *)
(* RowsOnly for the rows, and StoredInv for what becomes of them.          *)
(***************************************************************************)
EXTENDS HealthAlerts, SequenceTheorems, FiniteSetTheorems, WellFoundedInduction, TLAPS

LEMMA VerdictWorthy ==
    ASSUME NEW s \in Service, NEW v \in Verdicts(s)
    PROVE  /\ v.status \in State
           /\ v.should_alert <=> v.status \in Worthy[s]
<1>1. v.status \in State
  BY VerdictAssumption
<1>2. PICK x \in Sources[s] : v = Evaluate(s, Probe(s, x))
  BY DEF Verdicts
<1>3. v.should_alert = (Status[v.status] >= Status[Thresholds(s).alert_min_level])
  BY <1>2 DEF Evaluate
<1>4. QED
  BY <1>1, <1>3 DEF Worthy

(***************************************************************************)
(* Types.                                                                  *)
(***************************************************************************)
LEMMA TypeInit == Init => TypeOK
<1> SUFFICES ASSUME Init PROVE TypeOK
  OBVIOUS
<1>1. Len(BootOrder) \in Nat
  BY ServiceAssumption
<1>2. \A p \in Poller : PollOK(p)
  BY DEF Init, PollOK
<1>3. ~Busy(Startup)
  BY DEF Init, Busy, Idle, Poller
<1>4. QED
  BY <1>1, <1>2, <1>3, CooldownAssumption DEF Init, TypeOK, Unseen

\* Whatever else a step of poll p does, the polls keep their shape.
LEMMA PollMoves ==
    ASSUME TypeOK, NEW p \in Poller, NEW q,
           poll' = [poll EXCEPT ![p] = q], now' = now,
           poll'[p] = q => PollOK(p)'
    PROVE  /\ DOMAIN poll' = Poller
           /\ \A r \in Poller : PollOK(r)'
           /\ poll'[p] = q
           /\ \A r \in Poller \ {p} : poll'[r] = poll[r]
<1>1. poll'[p] = q /\ DOMAIN poll' = Poller
  BY DEF TypeOK
<1>2. \A r \in Poller \ {p} : poll'[r] = poll[r]
  BY DEF TypeOK
<1>3. \A r \in Poller \ {p} : PollOK(r)'
  BY <1>2 DEF TypeOK, PollOK
<1>4. QED
  BY <1>1, <1>2, <1>3

\* A poll that ends leaves start_scheduler's counter in its range.
LEMMA FinishKeeps ==
    ASSUME TypeOK, NEW p \in Poller, Busy(p), Finish(p)
    PROVE  /\ boot' \in 0..Len(BootOrder)
           /\ Busy(Startup)' => boot' < Len(BootOrder)
<1>1. Len(BootOrder) \in Nat /\ Startup \in Poller
  BY ServiceAssumption DEF Poller
<1>2. CASE p = Startup
  <2>1. poll'[Startup] = Idle /\ boot' = boot + 1 /\ boot < Len(BootOrder)
    BY <1>2 DEF Finish, TypeOK
  <2>2. QED
    BY <1>1, <2>1 DEF TypeOK, Busy, Idle
<1>3. CASE p # Startup
  <2>1. poll'[Startup] = poll[Startup] /\ boot' = boot
    BY <1>1, <1>3 DEF Finish, TypeOK
  <2>2. QED
    BY <2>1 DEF TypeOK, Busy
<1>4. QED
  BY <1>2, <1>3

\* The poll of p is at pc, with the shape that belongs to it.
LEMMA Shape ==
    ASSUME TypeOK, NEW p \in Poller
    PROVE  /\ poll[p].pc \in {"store", "clock"} =>
                /\ poll[p].service \in Service
                /\ poll[p].from \in Sources[poll[p].service]
                /\ poll[p].verdict \in Verdicts(poll[p].service)
                /\ poll[p] \in [pc : {"store", "clock"}, service : {poll[p].service},
                                from : Sources[poll[p].service],
                                verdict : Verdicts(poll[p].service)]
           /\ poll[p].pc = "decide" =>
                /\ poll[p].service \in Service
                /\ poll[p].verdict \in Verdicts(poll[p].service)
                /\ poll[p].at \in 0..now
           /\ poll[p].pc \in {"record", "send"} =>
                /\ poll[p].alert \in Alerts
                /\ poll[p].left \in Seq(Channel)
                /\ poll[p].pc = "send" => poll[p].left # <<>>
                /\ poll[p] \in [pc : {"record", "send"}, alert : Alerts, left : Seq(Channel)]
BY DEF TypeOK, PollOK, Idle

LEMMA StartupTurn ==
    ASSUME NEW i \in 0..Len(BootOrder), i < Len(BootOrder)
    PROVE  BootOrder[i + 1] \in Service /\ i + 1 \in 0..Len(BootOrder)
BY ServiceAssumption

LEMMA TypeRead ==
    ASSUME TypeOK, NEW p \in Poller, NEW s \in Service, Read(p, s),
           p = Startup => boot < Len(BootOrder)
    PROVE  TypeOK'
<1> DEFINE q == [pc |-> "store", service |-> s, from |-> source[s],
                 verdict |-> Evaluate(s, Probe(s, source[s]))]
<1>1. source[s] \in Sources[s] /\ q.verdict \in Verdicts(s)
  BY DEF TypeOK, Verdicts
<1>2. q \in [pc : {"store", "clock"}, service : {s}, from : Sources[s], verdict : Verdicts(s)]
  BY <1>1
<1>3. poll' = [poll EXCEPT ![p] = q]
  BY DEF Read
<1> HIDE DEF q
<1>4. UNCHANGED <<now, source, cache, engine, boot>>
  BY DEF Read
<1>5. poll'[p] = q => PollOK(p)'
  BY <1>2 DEF PollOK
<1>6. /\ DOMAIN poll' = Poller
      /\ \A r \in Poller : PollOK(r)'
      /\ \A r \in Poller \ {p} : poll'[r] = poll[r]
  BY <1>3, <1>4, <1>5, PollMoves
<1>7. Busy(Startup)' => boot' < Len(BootOrder)
  BY <1>4, <1>6 DEF TypeOK, Busy, Poller
<1>8. QED
  BY <1>4, <1>6, <1>7 DEF TypeOK, engine

LEMMA TypeStore ==
    ASSUME TypeOK, NEW p \in Poller, Store(p)
    PROVE  TypeOK'
<1> DEFINE s == poll[p].service
           q == [poll[p] EXCEPT !.pc = "clock"]
           e == [status |-> poll[p].verdict.status, message |-> poll[p].verdict.why,
                 data |-> Probe(s, poll[p].from), from |-> poll[p].from]
<1>1. /\ poll[p].pc = "store"
      /\ poll' = [poll EXCEPT ![p] = q]
      /\ cache' = [cache EXCEPT ![s] = e]
      /\ UNCHANGED <<now, source, engine, boot>>
  BY DEF Store
<1>2. /\ s \in Service
      /\ poll[p] \in [pc : {"store", "clock"}, service : {s}, from : Sources[s],
                      verdict : Verdicts(s)]
  BY <1>1, Shape
<1>3. q \in [pc : {"store", "clock"}, service : {s}, from : Sources[s], verdict : Verdicts(s)]
  BY <1>2
<1>4. e.status \in State /\ e.from \in Sources[s]
  BY <1>2, VerdictWorthy
<1>5. Busy(p)
  BY <1>1 DEF Busy
<1> HIDE DEF s, q, e
<1>6. poll'[p] = q => PollOK(p)'
  BY <1>2, <1>3 DEF PollOK
<1>7. /\ DOMAIN poll' = Poller
      /\ \A r \in Poller : PollOK(r)'
      /\ \A r \in Poller \ {p} : poll'[r] = poll[r]
  BY <1>1, <1>6, PollMoves
<1>8. /\ DOMAIN cache' = Service
      /\ \A t \in Service : cache'[t] # None =>
             cache'[t].status \in State /\ cache'[t].from \in Sources[t]
  BY <1>1, <1>2, <1>4 DEF TypeOK
<1>9. Busy(Startup)' => boot' < Len(BootOrder)
  BY <1>1, <1>5, <1>7 DEF TypeOK, Busy, Poller
<1>10. QED
  BY <1>1, <1>7, <1>8, <1>9 DEF TypeOK, engine

LEMMA TypeReadClock ==
    ASSUME TypeOK, NEW p \in Poller, ReadClock(p)
    PROVE  TypeOK'
<1> DEFINE s == poll[p].service
           q == [pc |-> "decide", service |-> s, verdict |-> poll[p].verdict, at |-> now]
<1>1. /\ poll[p].pc = "clock"
      /\ poll' = [poll EXCEPT ![p] = q]
      /\ UNCHANGED <<now, source, cache, engine, boot>>
  BY DEF ReadClock
<1>2. s \in Service /\ poll[p].verdict \in Verdicts(s) /\ now \in 0..now
  BY <1>1, Shape, CooldownAssumption DEF TypeOK
<1>3. q \in [pc : {"decide"}, service : {s}, verdict : Verdicts(s), at : 0..now]
  BY <1>2
<1>4. Busy(p)
  BY <1>1 DEF Busy
<1> HIDE DEF s, q
<1>5. poll'[p] = q => PollOK(p)'
  BY <1>1, <1>2, <1>3 DEF PollOK
<1>6. /\ DOMAIN poll' = Poller
      /\ \A r \in Poller : PollOK(r)'
      /\ \A r \in Poller \ {p} : poll'[r] = poll[r]
  BY <1>1, <1>5, PollMoves
<1>7. Busy(Startup)' => boot' < Len(BootOrder)
  BY <1>1, <1>4, <1>6 DEF TypeOK, Busy, Poller
<1>8. QED
  BY <1>1, <1>6, <1>7 DEF TypeOK, engine

\* What Decide does, by cases, with the shape of its poll expanded.
LEMMA DecideCases ==
    ASSUME TypeOK, NEW p \in Poller, Decide(p),
           NEW s, s = poll[p].service, NEW v, v = poll[p].verdict,
           NEW at, at = poll[p].at,
           NEW alert, alert = [service |-> s, state |-> v.status, at |-> at]
    PROVE  /\ s \in Service /\ v \in Verdicts(s) /\ at \in 0..now /\ alert \in Alerts
           /\ Busy(p)
           /\ UNCHANGED <<now, source, cache, sent>>
           /\ last' = [last EXCEPT ![s] = v.status]
           /\ seen' = IF seen[s].state = v.status THEN seen
                      ELSE [seen EXCEPT ![s] = [state |-> v.status, at |-> at]]
           /\ \/ /\ last[s] = v.status \/ v.status = "ok"
                 /\ Finish(p) /\ UNCHANGED <<lastAlert, alerts>>
              \/ /\ last[s] # v.status
                 /\ Notifies(s, v, at)
                 /\ lastAlert' = [lastAlert EXCEPT ![s] = at]
                 /\ alerts' = alerts \cup {alert}
                 /\ poll' = [poll EXCEPT ![p] = [pc |-> "record", alert |-> alert,
                                                left |-> Channels]]
                 /\ UNCHANGED boot
              \/ /\ last[s] # v.status
                 /\ ~Notifies(s, v, at)
                 /\ UNCHANGED <<lastAlert, alerts>>
                 /\ poll' = [poll EXCEPT ![p] = [pc |-> "record", alert |-> alert,
                                                left |-> <<>>]]
                 /\ UNCHANGED boot
<1>1. poll[p].pc = "decide"
  BY DEF Decide
<1>2. s \in Service /\ v \in Verdicts(s) /\ at \in 0..now
  BY <1>1, Shape
<1>3. alert \in Alerts
  BY <1>2, VerdictWorthy, CooldownAssumption DEF Alerts, TypeOK
<1>4. Busy(p)
  BY <1>1 DEF Busy
<1>5. /\ UNCHANGED <<now, source, cache, sent>>
      /\ last' = [last EXCEPT ![s] = v.status]
      /\ seen' = IF seen[s].state = v.status THEN seen
                 ELSE [seen EXCEPT ![s] = [state |-> v.status, at |-> at]]
      /\ IF last[s] = v.status \/ (last[s] = None /\ v.status = "ok")
         THEN Finish(p) /\ UNCHANGED <<lastAlert, alerts>>
         ELSE /\ lastAlert' = IF Notifies(s, v, at) THEN [lastAlert EXCEPT ![s] = at] ELSE lastAlert
              /\ alerts' = IF Notifies(s, v, at) THEN alerts \cup {alert} ELSE alerts
              /\ poll' = [poll EXCEPT ![p] =
                            [pc |-> "record", alert |-> alert,
                             left |-> IF Notifies(s, v, at) THEN Channels ELSE <<>>]]
              /\ UNCHANGED boot
  BY DEF Decide
<1> HIDE DEF Busy
<1>6. QED
  BY <1>2, <1>3, <1>4, <1>5

LEMMA TypeDecide ==
    ASSUME TypeOK, NEW p \in Poller, Decide(p)
    PROVE  TypeOK'
<1> DEFINE s == poll[p].service
           v == poll[p].verdict
           at == poll[p].at
           alert == [service |-> s, state |-> v.status, at |-> at]
           Sent(left) == [pc |-> "record", alert |-> alert, left |-> left]
<1>1. /\ s \in Service /\ v \in Verdicts(s) /\ at \in 0..now /\ alert \in Alerts
      /\ Busy(p)
      /\ UNCHANGED <<now, source, cache>>
      /\ last' = [last EXCEPT ![s] = v.status]
      /\ seen' = IF seen[s].state = v.status THEN seen
                 ELSE [seen EXCEPT ![s] = [state |-> v.status, at |-> at]]
      /\ \/ Finish(p) /\ UNCHANGED <<lastAlert, alerts>>
         \/ /\ lastAlert' = [lastAlert EXCEPT ![s] = at] \/ lastAlert' = lastAlert
            /\ alerts' = alerts \cup {alert} \/ alerts' = alerts
            /\ \E left \in {Channels, <<>>} : poll' = [poll EXCEPT ![p] = Sent(left)]
            /\ UNCHANGED boot
  BY DecideCases
<1>2. v.status \in State /\ at \in 0..MaxTime /\ at \in (-Cooldown)..MaxTime
  BY <1>1, VerdictWorthy, CooldownAssumption DEF TypeOK
<1>3. \A left \in {Channels, <<>>} :
         Sent(left) \in [pc : {"record"}, alert : Alerts, left : Seq(Channel)]
  <2>1. {Channels, <<>>} \subseteq Seq(Channel)
    BY ChannelsAssumption, EmptySeq
  <2>2. alert \in Alerts
    BY <1>1
  <2> HIDE DEF alert
  <2>3. QED
    BY <2>1, <2>2
<1> HIDE DEF s, v, at, alert, Sent
<1>4. /\ last' \in [Service -> State \cup {None}]
      /\ seen' \in [Service -> [state : State \cup {None}, at : 0..MaxTime]]
      /\ \A t \in Service : seen'[t].state = last'[t]
  BY <1>1, <1>2 DEF TypeOK
<1>5. /\ lastAlert' \in [Service -> (-Cooldown)..MaxTime]
      /\ alerts' \subseteq Alerts
  BY <1>1, <1>2 DEF TypeOK
<1>6. /\ DOMAIN poll' = Poller
      /\ \A r \in Poller : PollOK(r)'
      /\ boot' \in 0..Len(BootOrder)
      /\ Busy(Startup)' => boot' < Len(BootOrder)
  <2>1. CASE Finish(p)
    <3>1. poll' = [poll EXCEPT ![p] = Idle]
      BY <2>1 DEF Finish
    <3>2. poll'[p] = Idle => PollOK(p)'
      BY DEF PollOK
    <3>3. QED
      BY <1>1, <2>1, <3>1, <3>2, PollMoves, FinishKeeps
  <2>2. ASSUME NEW left \in {Channels, <<>>}, poll' = [poll EXCEPT ![p] = Sent(left)],
               UNCHANGED boot
        PROVE  <1>6!1 /\ <1>6!2 /\ <1>6!3 /\ <1>6!4
    <3>1. poll'[p] = Sent(left) => PollOK(p)'
      BY <1>3 DEF PollOK
    <3>2. /\ DOMAIN poll' = Poller
          /\ \A r \in Poller : PollOK(r)'
          /\ \A r \in Poller \ {p} : poll'[r] = poll[r]
      BY <1>1, <2>2, <3>1, PollMoves
    <3>3. QED
      BY <1>1, <2>2, <3>2 DEF TypeOK, Busy, Poller
  <2>3. QED
    BY <1>1, <2>1, <2>2
<1>7. QED
  BY <1>1, <1>4, <1>5, <1>6 DEF TypeOK

LEMMA TypeRecord ==
    ASSUME TypeOK, NEW p \in Poller, Record(p)
    PROVE  TypeOK'
<1>1. /\ poll[p].pc = "record"
      /\ UNCHANGED <<now, source, cache, engine>>
      /\ \/ Finish(p)
         \/ /\ poll[p].left # <<>> /\ UNCHANGED boot
            /\ poll' = [poll EXCEPT ![p] = [poll[p] EXCEPT !.pc = "send"]]
  BY DEF Record
<1>2. poll[p] \in [pc : {"record", "send"}, alert : Alerts, left : Seq(Channel)] /\ Busy(p)
  BY <1>1, Shape DEF Busy
<1>3. /\ DOMAIN poll' = Poller
      /\ \A r \in Poller : PollOK(r)'
      /\ boot' \in 0..Len(BootOrder)
      /\ Busy(Startup)' => boot' < Len(BootOrder)
  <2>1. CASE Finish(p)
    <3>1. poll' = [poll EXCEPT ![p] = Idle]
      BY <2>1 DEF Finish
    <3>2. poll'[p] = Idle => PollOK(p)'
      BY DEF PollOK
    <3>3. QED
      BY <1>1, <1>2, <2>1, <3>1, <3>2, PollMoves, FinishKeeps
  <2>2. CASE ~Finish(p)
    <3> DEFINE q == [poll[p] EXCEPT !.pc = "send"]
    <3>1. poll' = [poll EXCEPT ![p] = q] /\ UNCHANGED boot
      BY <1>1, <2>2
    <3>2. q \in [pc : {"send"}, alert : Alerts, left : Seq(Channel) \ {<<>>}]
      BY <1>1, <1>2, <2>2
    <3> HIDE DEF q
    <3>3. poll'[p] = q => PollOK(p)'
      BY <3>2 DEF PollOK
    <3>4. /\ DOMAIN poll' = Poller
          /\ \A r \in Poller : PollOK(r)'
          /\ \A r \in Poller \ {p} : poll'[r] = poll[r]
      BY <1>1, <3>1, <3>3, PollMoves
    <3>5. QED
      BY <1>2, <3>1, <3>4 DEF TypeOK, Busy, Poller
  <2>3. QED
    BY <2>1, <2>2
<1>4. QED
  BY <1>1, <1>3 DEF TypeOK, engine

LEMMA TypeSend ==
    ASSUME TypeOK, NEW p \in Poller, Send(p)
    PROVE  TypeOK'
<1> DEFINE q == [poll[p] EXCEPT !.left = Tail(@)]
<1>1. /\ poll[p].pc = "send"
      /\ UNCHANGED <<now, source, cache, engine>>
      /\ \/ Finish(p)
         \/ /\ Len(poll[p].left) # 1 /\ UNCHANGED boot
            /\ poll' = [poll EXCEPT ![p] = q]
  BY DEF Send
<1>2. /\ poll[p] \in [pc : {"record", "send"}, alert : Alerts, left : Seq(Channel)]
      /\ poll[p].left \in Seq(Channel) /\ poll[p].left # <<>>
      /\ Busy(p)
  BY <1>1, Shape DEF Busy
<1>3. Len(poll[p].left) # 1 =>
         q \in [pc : {"send"}, alert : Alerts, left : Seq(Channel) \ {<<>>}]
  <2> SUFFICES ASSUME Len(poll[p].left) # 1
               PROVE  q \in [pc : {"send"}, alert : Alerts, left : Seq(Channel) \ {<<>>}]
    OBVIOUS
  <2> DEFINE l == poll[p].left
  <2>1. l \in Seq(Channel) /\ l # <<>> /\ Len(l) # 1
    BY <1>2
  <2>2. Tail(l) \in Seq(Channel) /\ Len(Tail(l)) = Len(l) - 1 /\ Len(l) \in Nat /\ Len(l) # 0
    BY <2>1, HeadTailProperties, EmptySeq, LenProperties
  <2> HIDE DEF l
  <2>3. Len(Tail(l)) # 0
    BY <2>1, <2>2
  <2>4. \A x : x = <<>> => Len(x) = 0
    BY EmptySeq
  <2>5. Tail(l) # <<>>
    BY <2>3, <2>4, Zenon
  <2> USE DEF l
  <2>6. QED
    BY <1>1, <1>2, <2>2, <2>5
<1> HIDE DEF q
<1>4. /\ DOMAIN poll' = Poller
      /\ \A r \in Poller : PollOK(r)'
      /\ boot' \in 0..Len(BootOrder)
      /\ Busy(Startup)' => boot' < Len(BootOrder)
  <2>1. CASE Finish(p)
    <3>1. poll' = [poll EXCEPT ![p] = Idle]
      BY <2>1 DEF Finish
    <3>2. poll'[p] = Idle => PollOK(p)'
      BY DEF PollOK
    <3>3. QED
      BY <1>1, <1>2, <2>1, <3>1, <3>2, PollMoves, FinishKeeps
  <2>2. CASE ~Finish(p)
    <3>1. poll' = [poll EXCEPT ![p] = q] /\ UNCHANGED boot
      BY <1>1, <2>2
    <3>2. poll'[p] = q => PollOK(p)'
      BY <1>1, <1>3, <2>2 DEF PollOK
    <3>3. /\ DOMAIN poll' = Poller
          /\ \A r \in Poller : PollOK(r)'
          /\ \A r \in Poller \ {p} : poll'[r] = poll[r]
      BY <1>1, <3>1, <3>2, PollMoves
    <3>4. QED
      BY <1>2, <3>1, <3>3 DEF TypeOK, Busy, Poller
  <2>3. QED
    BY <2>1, <2>2
<1>5. QED
  BY <1>1, <1>4 DEF TypeOK, engine

LEMMA TypeStep == TypeOK /\ [Next]_vars => TypeOK'
<1> SUFFICES ASSUME TypeOK, [Next]_vars PROVE TypeOK'
  OBVIOUS
<1>1. CASE Tick
  <2>1. /\ now \in Nat /\ now' = now + 1 /\ now' \in 0..MaxTime /\ 0..now \subseteq 0..now'
        /\ UNCHANGED <<source, cache, engine, poll, boot>>
    BY <1>1, CooldownAssumption DEF Tick, TypeOK
  <2>2. \A p \in Poller : PollOK(p)'
    BY <2>1 DEF TypeOK, PollOK
  <2>3. QED
    BY <2>1, <2>2 DEF TypeOK, engine, Busy
<1>2. CASE Restart
  <2>1. \A p \in Poller : PollOK(p)'
    BY <1>2 DEF Restart, PollOK
  <2>2. ~Busy(Startup)' /\ boot' = 0 /\ Len(BootOrder) \in Nat
    BY <1>2, ServiceAssumption DEF Restart, Busy, Idle, Poller
  <2>3. QED
    BY <1>2, <2>1, <2>2, CooldownAssumption DEF Restart, TypeOK, Unseen
<1>3. CASE StartupReads
  <2>1. BootOrder[boot + 1] \in Service
    BY <1>3, StartupTurn DEF StartupReads, TypeOK
  <2>2. QED
    BY <1>3, <2>1, TypeRead DEF StartupReads, Poller
<1>4. ASSUME NEW s \in Service, Change(s) PROVE TypeOK'
  <2>1. PICK x \in Sources[s] : source' = [source EXCEPT ![s] = x]
    BY <1>4 DEF Change
  <2>2. DOMAIN source' = Service /\ \A t \in Service : source'[t] \in Sources[t]
    BY <2>1 DEF TypeOK
  <2>3. UNCHANGED <<now, cache, engine, poll, boot>>
    BY <1>4 DEF Change
  <2>4. QED
    BY <2>2, <2>3 DEF TypeOK, engine, PollOK, Busy
<1>5. ASSUME NEW s \in Service, JobReads(s) PROVE TypeOK'
  BY <1>5, TypeRead, ServiceAssumption DEF JobReads, Poller
<1>6. ASSUME NEW p \in Poller, PollStep(p) PROVE TypeOK'
  BY <1>6, TypeStore, TypeReadClock, TypeDecide, TypeRecord, TypeSend DEF PollStep
<1>7. CASE UNCHANGED vars
  BY <1>7 DEF vars, engine, TypeOK, PollOK, Busy
<1>8. QED
  BY <1>1, <1>2, <1>3, <1>4, <1>5, <1>6, <1>7 DEF Next

\* Types, and that what a poll carries belongs together, for any services,
\* sources, channels and bounds.
THEOREM TypeCorrect == Spec => []TypeOK
BY TypeInit, TypeStep, PTL DEF Spec

(***************************************************************************)
(* The engine against the policy. _last_alert_time is the time of the      *)
(* newest alert of the service, so comparing with it is comparing with     *)
(* every alert there has been - also for a caller that read its clock      *)
(* before another one alerted.                                             *)
(***************************************************************************)
Newest(s) ==
    \/ lastAlert[s] = -Cooldown /\ \A a \in alerts : a.service # s
    \/ \E a \in alerts : /\ a.service = s /\ a.at = lastAlert[s]
                         /\ \A b \in alerts : b.service = s => b.at <= a.at

EngineInv == TypeOK /\ \A s \in Service : Newest(s)

LEMMA EngineInit == Init => EngineInv
BY TypeInit DEF Init, EngineInv, Newest

\* The engine's condition is the policy's.
LEMMA NotifiesExact ==
    ASSUME EngineInv, NEW s \in Service, NEW v \in Verdicts(s), NEW at \in 0..now
    PROVE  Notifies(s, v, at) <=>
             /\ v.status # "ok"
             /\ v.status \in Worthy[s]
             /\ \A a \in alerts : a.service = s => at - a.at >= Cooldown
<1>1. v.should_alert <=> v.status \in Worthy[s]
  BY VerdictWorthy
<1>2. /\ at \in Nat /\ Cooldown \in Nat /\ lastAlert[s] \in Int
      /\ \A a \in alerts : a.at \in Nat
  BY CooldownAssumption DEF EngineInv, TypeOK, Alerts
<1>3. at - lastAlert[s] >= Cooldown <=>
        \A a \in alerts : a.service = s => at - a.at >= Cooldown
  BY <1>2 DEF EngineInv, Newest
<1>4. QED
  BY <1>1, <1>3 DEF Notifies

LEMMA NewestDecide ==
    ASSUME EngineInv, NEW p \in Poller, Decide(p)
    PROVE  \A t \in Service : Newest(t)'
<1>0. PICK s, v, at, alert :
         /\ s = poll[p].service /\ v = poll[p].verdict /\ at = poll[p].at
         /\ alert = [service |-> s, state |-> v.status, at |-> at]
  OBVIOUS
<1>1. /\ s \in Service /\ v \in Verdicts(s) /\ at \in 0..now
      /\ \/ UNCHANGED <<lastAlert, alerts>>
         \/ /\ Notifies(s, v, at)
            /\ lastAlert' = [lastAlert EXCEPT ![s] = at]
            /\ alerts' = alerts \cup {alert}
  BY <1>0, DecideCases DEF EngineInv
<1>2. alert.service = s /\ alert.at = at
  BY <1>0
<1>3. CASE UNCHANGED <<lastAlert, alerts>>
  BY <1>3 DEF EngineInv, Newest
<1>4. CASE /\ Notifies(s, v, at)
           /\ lastAlert' = [lastAlert EXCEPT ![s] = at]
           /\ alerts' = alerts \cup {alert}
  <2>1. \A a \in alerts : a.service = s => a.at <= at
    <3>1. /\ at \in Nat /\ Cooldown \in Nat
          /\ \A a \in alerts : a.at \in Nat
      BY <1>1, CooldownAssumption DEF EngineInv, TypeOK, Alerts
    <3>2. \A a \in alerts : a.service = s => at - a.at >= Cooldown
      BY <1>1, <1>4, NotifiesExact
    <3>3. QED
      BY <3>1, <3>2
  <2>2. /\ at \in Nat /\ lastAlert'[s] = at
        /\ \A t \in Service \ {s} : lastAlert'[t] = lastAlert[t]
    BY <1>1, <1>4, CooldownAssumption DEF EngineInv, TypeOK
  <2>3. Newest(s)'
    BY <1>2, <1>4, <2>1, <2>2 DEF Newest
  <2>4. \A t \in Service \ {s} : Newest(t)'
    BY <1>2, <1>4, <2>2 DEF EngineInv, Newest
  <2>5. QED
    BY <2>3, <2>4
<1>5. QED
  BY <1>1, <1>3, <1>4

\* Every other step leaves the engine alone, or forgets it.
LEMMA EngineSteps ==
    ASSUME [Next]_vars
    PROVE  \/ Tick \/ Restart
           \/ \E p \in Poller : Decide(p)
           \/ UNCHANGED <<now, engine>>
BY DEF Next, PollStep, StartupReads, JobReads, Read, Change, Store, ReadClock, Record, Send, vars

LEMMA EngineStep == EngineInv /\ [Next]_vars => EngineInv'
<1> SUFFICES ASSUME EngineInv, [Next]_vars PROVE EngineInv'
  OBVIOUS
<1>1. TypeOK'
  BY TypeStep DEF EngineInv
<1>2. CASE Tick
  BY <1>1, <1>2 DEF Tick, engine, EngineInv, Newest
<1>3. CASE Restart
  BY <1>1, <1>3 DEF Restart, EngineInv, Newest
<1>4. ASSUME NEW p \in Poller, Decide(p) PROVE EngineInv'
  BY <1>1, <1>4, NewestDecide DEF EngineInv
<1>5. CASE UNCHANGED <<now, engine>>
  BY <1>1, <1>5 DEF engine, EngineInv, Newest
<1>6. QED
  BY <1>2, <1>3, <1>4, <1>5, EngineSteps

LEMMA DecideTells ==
    ASSUME EngineInv, NEW p \in Poller, Decide(p)
    PROVE  [Policy!Next]_(Policy!vars)
<1>0. PICK s, v, at, alert :
         /\ s = poll[p].service /\ v = poll[p].verdict /\ at = poll[p].at
         /\ alert = [service |-> s, state |-> v.status, at |-> at]
  OBVIOUS
<1>1. /\ s \in Service /\ v \in Verdicts(s) /\ at \in 0..now
      /\ now' = now
      /\ seen' = IF seen[s].state = v.status THEN seen
                 ELSE [seen EXCEPT ![s] = [state |-> v.status, at |-> at]]
      /\ \/ /\ last[s] = v.status \/ v.status = "ok"
            /\ alerts' = alerts
         \/ /\ last[s] # v.status /\ Notifies(s, v, at)
            /\ alerts' = alerts \cup {alert}
         \/ /\ last[s] # v.status /\ ~Notifies(s, v, at)
            /\ alerts' = alerts
  BY <1>0, DecideCases DEF EngineInv
<1>2. v.status \in State /\ seen[s].state = last[s]
  BY <1>1, VerdictWorthy DEF EngineInv, TypeOK
<1>3. Notifies(s, v, at) <=>
        /\ v.status # "ok"
        /\ v.status \in Worthy[s]
        /\ \A a \in alerts : a.service = s => at - a.at >= Cooldown
  BY <1>1, NotifiesExact
<1>4. CASE last[s] = v.status
  BY <1>1, <1>2, <1>4 DEF Policy!vars
<1>6. CASE last[s] # v.status
  <2>1. Policy!Tell(s, v.status, at)
    BY <1>0, <1>1, <1>2, <1>3, <1>6 DEF Policy!Tell
  <2>2. QED
    BY <1>1, <1>2, <2>1 DEF Policy!Next
<1>7. QED
  BY <1>4, <1>6

\* check_and_alert, with one state and one time per service, a clock read
\* before the lock and any number of concurrent polls, decides exactly as the
\* policy that remembers every alert (DD-022).
THEOREM EngineImplementsPolicy == Spec => ImplementsPolicy
<1>1. Init => Policy!Init
  BY DEF Init, Policy!Init, Unseen, Policy!Unseen
<1>2. Spec => []EngineInv
  BY EngineInit, EngineStep, PTL DEF Spec
<1>3. EngineInv /\ [Next]_vars => [Policy!Next]_(Policy!vars)
  <2> SUFFICES ASSUME EngineInv, [Next]_vars PROVE [Policy!Next]_(Policy!vars)
    OBVIOUS
  <2>1. CASE Tick
    BY <2>1 DEF Tick, engine, Policy!Next, Policy!Tick
  <2>2. CASE Restart
    BY <2>2 DEF Restart, Policy!Next, Policy!Forget, Unseen, Policy!Unseen
  <2>3. CASE UNCHANGED <<now, engine>>
    BY <2>3 DEF engine, Policy!vars
  <2>4. QED
    BY <2>1, <2>2, <2>3, DecideTells, EngineSteps
<1>4. QED
  BY <1>1, <1>2, <1>3, PTL DEF Spec, ImplementsPolicy, Policy!Spec

(***************************************************************************)
(* What becomes of an alert.                                               *)
(***************************************************************************)
OnItsWay(a, c, p) ==
    /\ poll[p].pc \in {"record", "send"}
    /\ poll[p].alert = a
    /\ \E j \in DOMAIN poll[p].left : poll[p].left[j] = c

GoesOut(a, c) == <<a, c>> \in sent \/ \E p \in Poller : OnItsWay(a, c, p)

LEMMA GoOutUnfold == AlertsGoOut <=> \A a \in alerts : \A i \in DOMAIN Channels : GoesOut(a, Channels[i])
BY DEF AlertsGoOut, GoesOut, OnItsWay

\* A step of one poll loses no alert if that poll keeps what it has to send, or
\* has sent it.
LEMMA KeepsGoing ==
    ASSUME TypeOK, NEW p \in Poller, NEW q, poll' = [poll EXCEPT ![p] = q],
           sent \subseteq sent', NEW a, NEW c, GoesOut(a, c),
           OnItsWay(a, c, p) => OnItsWay(a, c, p)' \/ <<a, c>> \in sent'
    PROVE  GoesOut(a, c)'
<1>1. \A r \in Poller \ {p} : poll'[r] = poll[r]
  BY DEF TypeOK
<1>2. \A r \in Poller \ {p} : OnItsWay(a, c, r) => OnItsWay(a, c, r)'
  BY <1>1 DEF OnItsWay
<1>3. QED
  BY <1>2 DEF GoesOut

LEMMA OutDecide ==
    ASSUME TypeOK, AlertsGoOut, NEW p \in Poller, Decide(p)
    PROVE  AlertsGoOut'
<1>0. PICK s, v, at, alert :
         /\ s = poll[p].service /\ v = poll[p].verdict /\ at = poll[p].at
         /\ alert = [service |-> s, state |-> v.status, at |-> at]
  OBVIOUS
<1>1. /\ UNCHANGED sent
      /\ \/ Finish(p) /\ UNCHANGED alerts
         \/ /\ alerts' = alerts \cup {alert}
            /\ poll' = [poll EXCEPT ![p] = [pc |-> "record", alert |-> alert, left |-> Channels]]
         \/ /\ alerts' = alerts
            /\ poll' = [poll EXCEPT ![p] = [pc |-> "record", alert |-> alert, left |-> <<>>]]
  BY <1>0, DecideCases
<1>2. PICK q : poll' = [poll EXCEPT ![p] = q]
  BY <1>1 DEF Finish
<1>3. \A a, c : ~OnItsWay(a, c, p)
  BY DEF Decide, OnItsWay
<1>4. \A a \in alerts : \A i \in DOMAIN Channels : GoesOut(a, Channels[i])'
  BY <1>1, <1>2, <1>3, KeepsGoing, GoOutUnfold
<1>5. ASSUME alerts' # alerts, NEW i \in DOMAIN Channels
      PROVE  GoesOut(alert, Channels[i])'
  <2>1. poll'[p] = [pc |-> "record", alert |-> alert, left |-> Channels]
    BY <1>1, <1>5 DEF TypeOK
  <2>2. OnItsWay(alert, Channels[i], p)'
    BY <2>1 DEF OnItsWay
  <2>3. QED
    BY <2>2 DEF GoesOut
<1>6. alerts' \subseteq alerts \cup {alert}
  BY <1>1
<1>7. \A a \in alerts' : \A i \in DOMAIN Channels : GoesOut(a, Channels[i])'
  BY <1>4, <1>5, <1>6
<1>8. QED
  BY <1>7 DEF AlertsGoOut, GoesOut, OnItsWay

LEMMA OutRecord ==
    ASSUME TypeOK, NEW p \in Poller, Record(p), NEW a, NEW c, OnItsWay(a, c, p)
    PROVE  OnItsWay(a, c, p)'
<1>1. poll[p].left # <<>>
  BY DEF OnItsWay
<1>2. poll' = [poll EXCEPT ![p] = [poll[p] EXCEPT !.pc = "send"]]
  BY <1>1 DEF Record
<1>3. poll[p] \in [pc : {"record", "send"}, alert : Alerts, left : Seq(Channel)]
  BY Shape DEF Record
<1>4. /\ poll'[p].pc = "send" /\ poll'[p].alert = poll[p].alert
      /\ poll'[p].left = poll[p].left
  BY <1>2, <1>3 DEF TypeOK
<1>5. QED
  BY <1>4 DEF OnItsWay

LEMMA OutSend ==
    ASSUME TypeOK, NEW p \in Poller, Send(p), NEW a, NEW c, OnItsWay(a, c, p)
    PROVE  OnItsWay(a, c, p)' \/ <<a, c>> \in sent'
<1> DEFINE l == poll[p].left
<1>1. /\ poll[p] \in [pc : {"record", "send"}, alert : Alerts, left : Seq(Channel)]
      /\ l \in Seq(Channel) /\ l # <<>>
  BY Shape DEF Send
<1>2. sent' = sent \cup {<<a, Head(l)>>}
  BY DEF Send, OnItsWay
<1>3. PICK j \in DOMAIN l : l[j] = c
  BY DEF OnItsWay
<1>4. DOMAIN l = 1..Len(l) /\ Len(l) \in Nat /\ Head(l) = l[1]
  BY <1>1, LenProperties
<1>5. CASE j = 1
  BY <1>2, <1>3, <1>4, <1>5
<1>6. CASE j # 1
  <2>1. poll' = [poll EXCEPT ![p] = [poll[p] EXCEPT !.left = Tail(l)]]
    BY <1>3, <1>4, <1>6 DEF Send
  <2>2. poll'[p].pc = "send" /\ poll'[p].alert = poll[p].alert /\ poll'[p].left = Tail(l)
    BY <1>1, <2>1 DEF TypeOK, Send
  <2>3. /\ Tail(l) \in Seq(Channel) /\ Len(Tail(l)) = Len(l) - 1
        /\ \A i \in 1..Len(Tail(l)) : Tail(l)[i] = l[i + 1]
    BY <1>1, HeadTailProperties
  <2>4. DOMAIN Tail(l) = 1..Len(Tail(l))
    BY <2>3, LenProperties
  <2>5. j - 1 \in DOMAIN Tail(l) /\ Tail(l)[j - 1] = c
    BY <1>3, <1>4, <1>6, <2>3, <2>4
  <2>6. QED
    BY <2>2, <2>5 DEF OnItsWay
<1>7. QED
  BY <1>5, <1>6

LEMMA OutStep == TypeOK /\ AlertsGoOut /\ [Next]_vars => AlertsGoOut'
<1> SUFFICES ASSUME TypeOK, AlertsGoOut, [Next]_vars PROVE AlertsGoOut'
  OBVIOUS
<1>1. ASSUME NEW p \in Poller, NEW q, poll' = [poll EXCEPT ![p] = q],
             sent \subseteq sent', UNCHANGED alerts,
             \A a, c : OnItsWay(a, c, p) => OnItsWay(a, c, p)' \/ <<a, c>> \in sent'
      PROVE  AlertsGoOut'
  <2>1. \A a \in alerts' : \A i \in DOMAIN Channels : GoesOut(a, Channels[i])'
    BY <1>1, KeepsGoing, GoOutUnfold
  <2>2. QED
    BY <2>1 DEF AlertsGoOut, GoesOut, OnItsWay
<1>2. CASE Tick \/ (\E s \in Service : Change(s)) \/ UNCHANGED vars
  BY <1>2 DEF Tick, Change, engine, vars, AlertsGoOut
<1>3. CASE Restart
  BY <1>3 DEF Restart, AlertsGoOut
<1>4. ASSUME NEW p \in Poller, NEW s \in Service, Read(p, s) PROVE AlertsGoOut'
  <2>1. \A a, c : ~OnItsWay(a, c, p)
    BY <1>4 DEF Read, Busy, OnItsWay
  <2>2. UNCHANGED <<alerts, sent>> /\ \E q : poll' = [poll EXCEPT ![p] = q]
    BY <1>4 DEF Read, engine
  <2>3. QED
    BY <1>1, <2>1, <2>2
<1>5. ASSUME NEW p \in Poller, Store(p) \/ ReadClock(p) PROVE AlertsGoOut'
  <2>1. \A a, c : ~OnItsWay(a, c, p)
    BY <1>5 DEF Store, ReadClock, OnItsWay
  <2>2. UNCHANGED <<alerts, sent>> /\ \E q : poll' = [poll EXCEPT ![p] = q]
    BY <1>5 DEF Store, ReadClock, engine
  <2>3. QED
    BY <1>1, <2>1, <2>2
<1>6. ASSUME NEW p \in Poller, Record(p) PROVE AlertsGoOut'
  <2>1. UNCHANGED <<alerts, sent>> /\ \E q : poll' = [poll EXCEPT ![p] = q]
    BY <1>6 DEF Record, Finish, engine
  <2>2. QED
    BY <1>1, <1>6, <2>1, OutRecord
<1>7. ASSUME NEW p \in Poller, Send(p) PROVE AlertsGoOut'
  <2>1. /\ UNCHANGED alerts /\ sent \subseteq sent'
        /\ \E q : poll' = [poll EXCEPT ![p] = q]
    BY <1>7 DEF Send, Finish, engine
  <2>2. QED
    BY <1>1, <1>7, <2>1, OutSend
<1>8. ASSUME NEW p \in Poller, Decide(p) PROVE AlertsGoOut'
  BY <1>8, OutDecide
<1>9. StartupReads => \E s \in Service : Read(Startup, s)
  BY StartupTurn DEF StartupReads, TypeOK
<1>10. QED
  BY <1>2, <1>3, <1>4, <1>5, <1>6, <1>7, <1>8, <1>9
     DEF Next, PollStep, JobReads, Poller

\* An alert that was decided is sent to every channel, or the poll that decided
\* it still has that channel to send to, whatever rows and channels fail and
\* whatever other polls do.
THEOREM AlertsAllGoOut == Spec => []AlertsGoOut
<1>1. Init => AlertsGoOut
  BY DEF Init, AlertsGoOut
<1>2. QED
  BY <1>1, TypeCorrect, OutStep, PTL DEF Spec
(***************************************************************************)
(* What the evaluator makes of a source, of any length and with any        *)
(* numbers.                                                                *)
(***************************************************************************)
LEMMA Levels ==
    /\ State = {"ok", "note", "warning", "critical"}
    /\ Status["ok"] = 0 /\ Status["note"] = 1
    /\ Status["warning"] = 2 /\ Status["critical"] = 3
BY DEF State, Status

\* A set of indices has a least one.
LEMMA Least ==
    ASSUME NEW S \in SUBSET Nat, S # {}
    PROVE  \E m \in S : \A k \in S : m <= k
<1>1. PICK m \in S : \A k \in S : <<k, m>> \notin OpToRel(<, Nat)
  BY WFMin, NatLessThanWellFounded, Zenon
<1>2. \A k \in S : k \in Nat /\ m \in Nat /\ ~(k < m)
  BY <1>1 DEF OpToRel
<1>3. QED
  BY <1>2

\* WorstOf goes by the level, and answers with one of the verdicts.
LEMMA Worst ==
    ASSUME NEW n \in Nat, NEW v, DOMAIN v = 1..n, \A i \in 1..n : v[i].status \in State
    PROVE  /\ WorstOf(v).status \in State
           /\ \A i \in 1..n : Status[v[i].status] <= Status[WorstOf(v).status]
           /\ WorstOf(v) = Fine \/ \E i \in 1..n : WorstOf(v) = v[i]
<1> DEFINE lvl(i) == Status[v[i].status]
           Above(i, j) == Status[v[i].status] > Status[v[j].status]
           first == {i \in DOMAIN v : \A j \in DOMAIN v :
                       i # j => Above(i, j) \/ (i < j /\ ~Above(j, i))}
<1>1. \A i \in 1..n : /\ lvl(i) \in 0..3
                      /\ v[i].status # "ok" => lvl(i) > 0
                      /\ v[i].status = "ok" => lvl(i) = 0
  BY Levels
<1>2. Fine.status = "ok"
  BY DEF Fine, Verdict
<1>3. \A i \in first : \A j \in 1..n : lvl(j) <= lvl(i)
  BY <1>1
<1>4. n # 0 => first # {}
  <2> SUFFICES ASSUME n # 0 PROVE first # {}
    OBVIOUS
  <2>1. PICK top \in 0..3 : /\ \E i \in 1..n : lvl(i) = top
                            /\ \A i \in 1..n : lvl(i) <= top
    <3> DEFINE At(k) == \E i \in 1..n : lvl(i) = k
    <3>1. 1 \in 1..n
      OBVIOUS
    <3>2. CASE At(3)
      BY <1>1, <3>2
    <3>3. CASE ~At(3) /\ At(2)
      BY <1>1, <3>3
    <3>4. CASE ~At(3) /\ ~At(2) /\ At(1)
      BY <1>1, <3>4
    <3>5. CASE ~At(3) /\ ~At(2) /\ ~At(1)
      BY <1>1, <3>1, <3>5
    <3>6. QED
      BY <3>2, <3>3, <3>4, <3>5
  <2>2. PICK m \in {i \in 1..n : lvl(i) = top} :
           \A k \in {i \in 1..n : lvl(i) = top} : m <= k
    <3> DEFINE S == {i \in 1..n : lvl(i) = top}
    <3>1. S \in SUBSET Nat /\ S # {}
      BY <2>1
    <3> HIDE DEF S
    <3>2. \E m \in S : \A k \in S : m <= k
      BY <3>1, Least
    <3>3. QED
      BY <3>2 DEF S
  <2>3. m \in first
    BY <1>1, <2>1, <2>2
  <2>4. QED
    BY <2>3
<1>5. WorstOf(v) = IF \E i \in first : v[i].status # "ok"
                   THEN v[CHOOSE i \in first : TRUE] ELSE Fine
  BY DEF WorstOf
<1>6. first \subseteq 1..n
  OBVIOUS
<1> HIDE DEF first
<1>7. CASE \E i \in first : v[i].status # "ok"
  <2> DEFINE c == CHOOSE i \in first : TRUE
  <2>1. c \in first
    BY <1>7
  <2>2. WorstOf(v) = v[c] /\ c \in 1..n
    BY <1>5, <1>6, <1>7, <2>1
  <2> HIDE DEF c
  <2>3. QED
    BY <1>3, <2>1, <2>2
<1>8. CASE \A i \in first : v[i].status = "ok"
  <2>1. WorstOf(v) = Fine
    BY <1>5, <1>8
  <2>2. \A i \in 1..n : lvl(i) = 0
    <3> SUFFICES ASSUME NEW j \in 1..n PROVE lvl(j) = 0
      OBVIOUS
    <3>1. PICK i \in first : i \in 1..n /\ v[i].status = "ok"
      <4>1. n # 0
        OBVIOUS
      <4>2. QED
        BY <1>4, <1>6, <1>8, <4>1
    <3>2. lvl(i) = 0 /\ lvl(j) <= lvl(i) /\ lvl(j) \in 0..3
      BY <1>1, <1>3, <3>1
    <3> HIDE DEF lvl
    <3>3. QED
      BY <3>2
  <2>3. QED
    BY <1>2, <2>1, <2>2, Levels
<1>9. QED
  BY <1>7, <1>8

\* Picked leaves nothing chosen out and adds nothing.
LEMMA PickedExactly ==
    ASSUME NEW n \in Nat, NEW s, DOMAIN s = 1..n, NEW chosen \in SUBSET (1..n)
    PROVE  /\ \E m \in Nat : DOMAIN Picked(s, chosen) = 1..m
           /\ \A k \in DOMAIN Picked(s, chosen) : \E i \in chosen : Picked(s, chosen)[k] = s[i]
           /\ \A i \in chosen : \E k \in DOMAIN Picked(s, chosen) : Picked(s, chosen)[k] = s[i]
<1> DEFINE m == Cardinality(chosen)
           upto(i) == {j \in chosen : j <= i}
           rank == [i \in chosen |-> Cardinality(upto(i))]
           q == [k \in 1..m |-> s[CHOOSE i \in chosen : Cardinality(upto(i)) = k]]
<1>1. IsFiniteSet(chosen) /\ m \in Nat
  <2>1. IsFiniteSet(1..n)
    BY FS_Interval
  <2>2. QED
    BY <2>1, FS_Subset, FS_CardinalityType
<1>2. \A i \in chosen : /\ IsFiniteSet(upto(i)) /\ Cardinality(upto(i)) \in 1..m
  <2> SUFFICES ASSUME NEW i \in chosen
               PROVE  IsFiniteSet(upto(i)) /\ Cardinality(upto(i)) \in 1..m
    OBVIOUS
  <2>1. IsFiniteSet(upto(i)) /\ Cardinality(upto(i)) <= m /\ Cardinality(upto(i)) \in Nat
    BY <1>1, FS_Subset, FS_CardinalityType
  <2>2. upto(i) # {}
    OBVIOUS
  <2>3. Cardinality(upto(i)) # 0
    BY <2>1, <2>2, FS_EmptySet
  <2>4. QED
    BY <1>1, <2>1, <2>3
<1>3. \A i, j \in chosen : i < j => Cardinality(upto(i)) # Cardinality(upto(j))
  <2> SUFFICES ASSUME NEW i \in chosen, NEW j \in chosen, i < j,
                      Cardinality(upto(i)) = Cardinality(upto(j))
               PROVE  FALSE
    OBVIOUS
  <2>1. upto(i) \in SUBSET upto(j) /\ j \in upto(j) /\ j \notin upto(i)
    <3>1. chosen \subseteq Int /\ i \in Int /\ j \in Int
      OBVIOUS
    <3>2. \A x \in chosen : x <= i => x <= j
      BY <3>1
    <3>3. j <= j /\ ~(j <= i)
      BY <3>1
    <3>4. upto(i) \subseteq upto(j)
      BY <3>2
    <3>5. QED
      BY <3>3, <3>4
  <2>2. IsFiniteSet(upto(j))
    BY <1>2
  <2> HIDE DEF upto
  <2>3. QED
    BY <2>1, <2>2, FS_Subset
<1>4. rank \in Injection(chosen, 1..m)
  <2>1. rank \in [chosen -> 1..m]
    BY <1>2
  <2>2. ASSUME NEW i \in chosen, NEW j \in chosen, rank[i] = rank[j] PROVE i = j
    BY <1>3, <2>2
  <2>3. QED
    BY <2>1, <2>2, Zenon DEF Injection, IsInjective
<1>5. rank \in Surjection(chosen, 1..m)
  <2>1. IsFiniteSet(1..m) /\ Cardinality(1..m) = m
    BY <1>1, FS_Interval
  <2>2. QED
    BY <1>4, <2>1, FS_Injection
<1>6. \A k \in 1..m : \E i \in chosen : Cardinality(upto(i)) = k
  BY <1>5 DEF Surjection
<1>7. \A k \in 1..m : \E i \in chosen : q[k] = s[i]
  BY <1>6
<1>8. ASSUME NEW i \in chosen PROVE \E k \in 1..m : q[k] = s[i]
  <2> DEFINE k == Cardinality(upto(i))
             c == CHOOSE j \in chosen : Cardinality(upto(j)) = k
  <2>1. c \in chosen /\ Cardinality(upto(c)) = k
    OBVIOUS
  <2>2. c = i
    <3> HIDE DEF c
    <3>1. chosen \subseteq Nat /\ c \in Nat /\ i \in Nat
      BY <2>1
    <3> HIDE DEF upto
    <3>2. QED
      BY <1>3, <2>1, <3>1
  <2>3. q[k] = s[i] /\ k \in 1..m
    BY <1>2, <2>2
  <2>4. QED
    BY <2>3
<1>9. CASE chosen = DOMAIN s
  <2>1. Picked(s, chosen) = s
    BY <1>9 DEF Picked
  <2>2. QED
    BY <1>9, <2>1
<1>10. CASE chosen # DOMAIN s
  <2>1. Picked(s, chosen) = q
    BY <1>10 DEF Picked
  <2>2. DOMAIN q = 1..m
    OBVIOUS
  <2> HIDE DEF q, m
  <2>3. QED
    BY <1>1, <1>7, <1>8, <2>1, <2>2
<1>11. QED
  BY <1>9, <1>10

\* One threshold on one item, and an item that carries an error.
LEMMA ItemLevel ==
    ASSUME NEW item, ~Erroneous(item), NEW t, NEW l, t.levels = <<l>>,
           l.key \in DOMAIN item, CheckThreshold(item[l.key], l) \in State
    PROVE  /\ ItemStatus(item, t).status = CheckThreshold(item[l.key], l)
           /\ ItemStatus(item, t) = Verdict(ItemStatus(item, t).status, ItemStatus(item, t).why)
<1> DEFINE c == CheckThreshold(item[l.key], l)
           known == Picked(t.levels, {i \in DOMAIN t.levels : t.levels[i].key \in DOMAIN item})
           v == [i \in DOMAIN known |-> Verdict(CheckThreshold(item[known[i].key], known[i]), item.name)]
<1>1. DOMAIN t.levels = 1..1 /\ t.levels[1] = l
  OBVIOUS
<1>2. known = t.levels
  <2>1. {i \in DOMAIN t.levels : t.levels[i].key \in DOMAIN item} = DOMAIN t.levels
    BY <1>1
  <2>2. QED
    BY <2>1 DEF Picked
<1>3. ItemStatus(item, t) = WorstOf(v)
  BY DEF ItemStatus
<1>4. DOMAIN v = 1..1 /\ v[1] = Verdict(c, item.name)
  BY <1>1, <1>2
<1> HIDE DEF known, v
<1>5. v[1].status = c
  BY <1>4 DEF Verdict
<1>6. /\ Status[c] <= Status[WorstOf(v).status]
      /\ WorstOf(v) = Fine \/ WorstOf(v) = v[1]
  <2>1. /\ \A i \in 1..1 : v[i].status \in State
        /\ 1 \in Nat /\ 1 \in 1..1 /\ \A i \in 1..1 : i = 1
    BY <1>5
  <2>2. QED
    BY <1>4, <1>5, <2>1, Worst
<1>7. Status[c] = 0 => c = "ok"
  BY Levels
<1> HIDE DEF c
<1>8. CASE WorstOf(v) = Fine
  <2>1. Fine.status = "ok" /\ Fine = Verdict(Fine.status, Fine.why)
    BY DEF Fine, Verdict
  <2>2. c = "ok"
    BY <1>6, <1>7, <1>8, <2>1, Levels DEF c
  <2>3. QED
    BY <1>3, <1>8, <2>1, <2>2 DEF c
<1>9. CASE WorstOf(v) = v[1]
  <2>1. v[1] = Verdict(v[1].status, v[1].why)
    BY <1>4 DEF Verdict
  <2>2. QED
    BY <1>3, <1>5, <1>9, <2>1 DEF c
<1>10. QED
  BY <1>6, <1>8, <1>9

LEMMA ErrorLevel ==
    ASSUME NEW name, NEW t
    PROVE  /\ ItemStatus(Unreadable(name), t) = Verdict(t.error_status, name)
           /\ Judged(Unreadable(name), t)
BY DEF Unreadable, Erroneous, ItemStatus, Judged

\* The evaluation of a list: the worst of what is judged.
LEMMA ListWorst ==
    ASSUME NEW n \in Nat, NEW items, DOMAIN items = 1..n, NEW t,
           \A i \in 1..n : ItemStatus(items[i], t).status \in State
    PROVE  LET w == EvaluateList(items, t)
           IN  /\ w.status \in State
               /\ \A i \in 1..n : Judged(items[i], t) =>
                      Status[ItemStatus(items[i], t).status] <= Status[w.status]
               /\ \/ w = Fine
                  \/ \E i \in 1..n : Judged(items[i], t) /\ w = ItemStatus(items[i], t)
<1> DEFINE heard == {i \in DOMAIN items : Judged(items[i], t)}
           judged == Picked(items, heard)
           v == [k \in DOMAIN judged |-> ItemStatus(judged[k], t)]
<1>1. EvaluateList(items, t) = WorstOf(v)
  BY DEF EvaluateList
<1>2. heard \in SUBSET (1..n)
  OBVIOUS
<1>3. /\ \E m \in Nat : DOMAIN judged = 1..m
      /\ \A k \in DOMAIN judged : \E i \in heard : judged[k] = items[i]
      /\ \A i \in heard : \E k \in DOMAIN judged : judged[k] = items[i]
  <2> HIDE DEF heard
  <2>1. QED
    BY <1>2, PickedExactly
<1>4. PICK m \in Nat : DOMAIN judged = 1..m
  BY <1>3
<1>5. \A i \in heard : i \in 1..n /\ Judged(items[i], t)
  OBVIOUS
<1>6. \A i \in 1..n : Judged(items[i], t) => i \in heard
  OBVIOUS
<1> HIDE DEF heard, judged
<1>7. /\ DOMAIN v = 1..m
      /\ \A k \in 1..m : v[k] = ItemStatus(judged[k], t)
  BY <1>4
<1>8. \A k \in 1..m : v[k].status \in State
  BY <1>3, <1>4, <1>5, <1>7
<1> HIDE DEF v
<1>9. /\ WorstOf(v).status \in State
      /\ \A k \in 1..m : Status[v[k].status] <= Status[WorstOf(v).status]
      /\ WorstOf(v) = Fine \/ \E k \in 1..m : WorstOf(v) = v[k]
  BY <1>7, <1>8, Worst
<1>10. \A i \in 1..n : Judged(items[i], t) => \E k \in 1..m : v[k] = ItemStatus(items[i], t)
  BY <1>3, <1>4, <1>6, <1>7
<1>11. \A k \in 1..m : \E i \in 1..n : Judged(items[i], t) /\ v[k] = ItemStatus(items[i], t)
  BY <1>3, <1>4, <1>5, <1>7
<1>12. \A i \in 1..n : Judged(items[i], t) =>
          Status[ItemStatus(items[i], t).status] <= Status[WorstOf(v).status]
  BY <1>9, <1>10
<1>13. WorstOf(v) = Fine \/ \E i \in 1..n : Judged(items[i], t) /\ WorstOf(v) = ItemStatus(items[i], t)
  BY <1>9, <1>11
<1>14. QED
  BY <1>1, <1>9, <1>12, <1>13

\* What IsWorstPart comes down to.
LEMMA Meets ==
    ASSUME NEW s, NEW x, NEW st \in State, st = Evaluate(s, Probe(s, x)).status,
           ~x.up => st = "critical",
           \A i \in Heard(s, x) : Status[PartLevel(s, x.parts[i])] <= Status[st],
           \/ st = "ok" \/ ~x.up
           \/ \E i \in Heard(s, x) : PartLevel(s, x.parts[i]) = st
    PROVE  IsWorstPart(s, x)
<1> DEFINE levels == {Status[PartLevel(s, x.parts[i])] : i \in Heard(s, x)} \cup {0}
                       \cup IF x.up THEN {} ELSE {3}
<1>1. Status[st] \in 0..3 /\ (st = "ok" => Status[st] = 0) /\ (st = "critical" => Status[st] = 3)
  BY Levels
<1>2. \A l \in levels : \/ l = 0 \/ (l = 3 /\ ~x.up)
                        \/ \E i \in Heard(s, x) : l = Status[PartLevel(s, x.parts[i])]
  OBVIOUS
<1>3. \A l \in levels : l <= Status[st]
  BY <1>1, <1>2
<1>4. Status[st] \in levels
  BY <1>1
<1>5. QED
  BY <1>3, <1>4 DEF IsWorstPart

\* The n items speak of the parts of x: each item that is judged is ok or has
\* the level of some part, and each part that is not ok, and not overlooked, has
\* the level of such an item.
SpeakOf(s, x, items, n) ==
    /\ DOMAIN items = 1..n
    /\ \A k \in 1..n :
         /\ ItemStatus(items[k], Thresholds(s)).status \in State
         /\ Judged(items[k], Thresholds(s)) =>
               \/ ItemStatus(items[k], Thresholds(s)).status = "ok"
               \/ \E i \in Heard(s, x) :
                     PartLevel(s, x.parts[i]) = ItemStatus(items[k], Thresholds(s)).status
    /\ \A i \in Heard(s, x) :
         \/ PartLevel(s, x.parts[i]) = "ok"
         \/ \E k \in 1..n : /\ Judged(items[k], Thresholds(s))
                            /\ PartLevel(s, x.parts[i]) = ItemStatus(items[k], Thresholds(s)).status

\* A list of items, of the parts that are judged.
LEMMA ItemsMeet ==
    ASSUME NEW s, s # "containers", NEW x, x.up = TRUE, NEW items,
           Probe(s, x) = [kind |-> "items", items |-> items],
           NEW n \in Nat, SpeakOf(s, x, items, n)
    PROVE  IsWorstPart(s, x)
<1> DEFINE t == Thresholds(s)
           w == EvaluateList(items, t)
<1>1. Evaluate(s, Probe(s, x)).status = w.status
  BY DEF Evaluate, Judge
<1>0. /\ DOMAIN items = 1..n
      /\ \A k \in 1..n : ItemStatus(items[k], t).status \in State
  BY DEF SpeakOf
<1>2. /\ w.status \in State
      /\ \A k \in 1..n : Judged(items[k], t) =>
                      Status[ItemStatus(items[k], t).status] <= Status[w.status]
      /\ w = Fine \/ \E k \in 1..n : Judged(items[k], t) /\ w = ItemStatus(items[k], t)
  <2> HIDE DEF t
  <2>1. QED
    BY <1>0, ListWorst
<1> HIDE DEF w, t
<1>3. Fine.status = "ok" /\ 0 <= Status[w.status] /\ Status["ok"] = 0
  BY <1>2, Levels DEF Fine, Verdict
<1>4. \A i \in Heard(s, x) : Status[PartLevel(s, x.parts[i])] <= Status[w.status]
  BY <1>2, <1>3 DEF t, SpeakOf
<1>5. w.status = "ok" \/ \E i \in Heard(s, x) : PartLevel(s, x.parts[i]) = w.status
  BY <1>2, <1>3 DEF t, SpeakOf
<1>6. QED
  BY <1>1, <1>2, <1>4, <1>5, Meets

(***************************************************************************)
(* One service after the other.                                            *)
(***************************************************************************)
LEMMA Sourced ==
    ASSUME NEW s, NEW x, Formed(s, x)
    PROVE  /\ \E n \in Nat : DOMAIN x.parts = 1..n
           /\ \A i \in DOMAIN x.parts : PartOK(s, x.parts[i])
BY DEF Formed

\* A service that could not be asked at all, or whose reading is an error.
LEMMA ErrorsMeet ==
    ASSUME NEW s, NEW x, Probe(s, x).kind = "error",
           \A i \in DOMAIN x.parts : PartLevel(s, x.parts[i]) \in State,
           ~x.up \/ \E i \in Heard(s, x) : PartLevel(s, x.parts[i]) = "critical"
    PROVE  IsWorstPart(s, x)
<1>1. Evaluate(s, Probe(s, x)).status = "critical"
  BY DEF Evaluate, Judge, Verdict
<1>2. \A i \in Heard(s, x) : Status[PartLevel(s, x.parts[i])] <= Status["critical"]
  BY Levels DEF Heard
<1>3. QED
  BY <1>1, <1>2, Levels, Meets

LEMMA Graded == \A c, w : Grade(c, w) \in State
  BY Levels DEF Grade

\* A number with two thresholds, and an answer.
LEMMA NumberLevel ==
    ASSUME NEW value \in Int, NEW l, NEW key, NEW warning \in Int, NEW critical \in Int,
           l = [key |-> key, warning |-> warning, critical |-> critical]
    PROVE  /\ warning < critical =>
                CheckThreshold(value, l) = Grade(value >= critical, value >= warning)
           /\ ~(warning < critical) =>
                CheckThreshold(value, l) = Grade(value <= critical, value <= warning)
<1>1. "map" \notin DOMAIN l /\ l.warning = warning /\ l.critical = critical
  OBVIOUS
<1>2. QED
  BY <1>1 DEF CheckThreshold, Grade

\* The items are made from the chosen parts, one by one, and grade as they
\* should, or are ok if of an overlooked part; and a part that is neither chosen
\* nor overlooked grades like one that is chosen.
MadeFrom(s, x, chosen, items) ==
    /\ DOMAIN items = DOMAIN Picked(x.parts, chosen)
    /\ \A k \in DOMAIN items : \A i \in chosen : Picked(x.parts, chosen)[k] = x.parts[i] =>
          /\ ItemStatus(items[k], Thresholds(s)).status \in State
          /\ IF i \notin Heard(s, x)
             THEN ItemStatus(items[k], Thresholds(s)).status = "ok"
             ELSE IF Judged(items[k], Thresholds(s))
             THEN PartLevel(s, x.parts[i]) = ItemStatus(items[k], Thresholds(s)).status
             ELSE PartLevel(s, x.parts[i]) = "ok"
Spoken(s, x, chosen) ==
    \A i \in Heard(s, x) :
        \/ PartLevel(s, x.parts[i]) = "ok"
        \/ \E j \in chosen \cap Heard(s, x) : PartLevel(s, x.parts[j]) = PartLevel(s, x.parts[i])

\* Nothing of the other services is overlooked.
LEMMA AllHeard ==
    ASSUME NEW s, s \notin {"containers", "disk", "updates"}, NEW x
    PROVE  Heard(s, x) = DOMAIN x.parts
<1>1. \A p : ~Overlooked(s, p)
  BY DEF Overlooked
<1>2. QED
  BY <1>1 DEF Heard

LEMMA PickedMeet ==
    ASSUME NEW s, s # "containers", NEW x, x.up = TRUE, NEW chosen, NEW items,
           Formed(s, x), chosen \subseteq DOMAIN x.parts,
           Probe(s, x) = [kind |-> "items", items |-> items],
           MadeFrom(s, x, chosen, items), Spoken(s, x, chosen)
    PROVE  IsWorstPart(s, x)
<1> DEFINE parts == x.parts
           kept == Picked(parts, chosen)
<1>1. PICK n \in Nat : DOMAIN parts = 1..n
  BY Sourced
<1>2. chosen \in SUBSET (1..n)
  BY <1>1
<1>3. /\ \E m \in Nat : DOMAIN kept = 1..m
      /\ \A k \in DOMAIN kept : \E i \in chosen : kept[k] = parts[i]
      /\ \A i \in chosen : \E k \in DOMAIN kept : kept[k] = parts[i]
  <2>1. \A t, c : DOMAIN t = 1..n /\ c \in SUBSET (1..n) =>
           /\ \E m \in Nat : DOMAIN Picked(t, c) = 1..m
           /\ \A k \in DOMAIN Picked(t, c) : \E i \in c : Picked(t, c)[k] = t[i]
           /\ \A i \in c : \E k \in DOMAIN Picked(t, c) : Picked(t, c)[k] = t[i]
    BY PickedExactly
  <2> HIDE DEF parts
  <2>2. QED
    BY <1>1, <1>2, <2>1
<1>4. PICK m \in Nat : DOMAIN items = 1..m
  BY <1>3 DEF MadeFrom
<1>5. \A k \in 1..m :
         /\ ItemStatus(items[k], Thresholds(s)).status \in State
         /\ Judged(items[k], Thresholds(s)) =>
               \/ ItemStatus(items[k], Thresholds(s)).status = "ok"
               \/ \E i \in Heard(s, x) :
                     PartLevel(s, x.parts[i]) = ItemStatus(items[k], Thresholds(s)).status
  <2> SUFFICES ASSUME NEW k \in 1..m
               PROVE  /\ ItemStatus(items[k], Thresholds(s)).status \in State
                      /\ Judged(items[k], Thresholds(s)) =>
                           \/ ItemStatus(items[k], Thresholds(s)).status = "ok"
                           \/ \E i \in Heard(s, x) :
                                 PartLevel(s, x.parts[i]) = ItemStatus(items[k], Thresholds(s)).status
    OBVIOUS
  <2>1. PICK i \in chosen : kept[k] = parts[i]
    BY <1>3, <1>4 DEF MadeFrom
  <2>2. CASE i \in Heard(s, x)
    BY <1>4, <2>1, <2>2 DEF MadeFrom
  <2>3. CASE i \notin Heard(s, x)
    BY <1>4, <2>1, <2>3 DEF MadeFrom
  <2>4. QED
    BY <2>2, <2>3
<1>6. \A i \in Heard(s, x) :
         \/ PartLevel(s, x.parts[i]) = "ok"
         \/ \E k \in 1..m : /\ Judged(items[k], Thresholds(s))
                            /\ PartLevel(s, x.parts[i]) = ItemStatus(items[k], Thresholds(s)).status
  <2> SUFFICES ASSUME NEW i \in Heard(s, x), PartLevel(s, x.parts[i]) # "ok"
               PROVE  \E k \in 1..m :
                         /\ Judged(items[k], Thresholds(s))
                         /\ PartLevel(s, x.parts[i]) = ItemStatus(items[k], Thresholds(s)).status
    OBVIOUS
  <2>1. PICK j \in chosen \cap Heard(s, x) : PartLevel(s, x.parts[j]) = PartLevel(s, x.parts[i])
    BY DEF Spoken
  <2>2. PICK k \in 1..m : kept[k] = parts[j]
    BY <1>3, <1>4 DEF MadeFrom
  <2>3. QED
    BY <1>4, <2>1, <2>2 DEF MadeFrom
<1>7. SpeakOf(s, x, items, m)
  BY <1>4, <1>5, <1>6 DEF SpeakOf
<1>8. QED
  BY <1>7, ItemsMeet

LEMMA ExpiryLevel ==
    ASSUME NEW s \in {"certs", "tls"}, NEW p, p.read \in BOOLEAN, p.days \in Int
    PROVE  LET item == Expiry(p)
               t == Thresholds(s)
           IN  /\ Judged(item, t)
               /\ ItemStatus(item, t).status = Grade(p.read /\ p.days <= 7, ~p.read \/ p.days <= 30)
               /\ ItemStatus(item, t) = Verdict(ItemStatus(item, t).status, ItemStatus(item, t).why)
<1> DEFINE t == Thresholds(s)
           l == [key |-> "days_left", warning |-> 30, critical |-> 7]
<1>1. t.levels = <<l>> /\ t.min_dead_tuples = 0 /\ t.error_status = "warning"
  BY DEF Thresholds, Numeric, Plain
<1>2. CASE p.read
  <2> DEFINE item == [name |-> p.name, days_left |-> p.days]
  <2>1. Expiry(p) = item
    BY <1>2 DEF Expiry
  <2>2. /\ "error" \notin DOMAIN item /\ "dead_tuples" \notin DOMAIN item
        /\ l.key \in DOMAIN item /\ item[l.key] = p.days
        /\ ~Erroneous(item)
    BY DEF Erroneous
  <2>3. CheckThreshold(item[l.key], l) = Grade(p.days <= 7, p.days <= 30)
    BY <2>2, NumberLevel
  <2> HIDE DEF item, l, t
  <2>4. /\ ItemStatus(item, t).status = Grade(p.days <= 7, p.days <= 30)
        /\ ItemStatus(item, t) = Verdict(ItemStatus(item, t).status, ItemStatus(item, t).why)
    BY <1>1, <2>2, <2>3, Graded, ItemLevel
  <2>5. Judged(item, t)
    BY <1>1, <2>2 DEF Judged
  <2>6. QED
    BY <1>2, <2>1, <2>4, <2>5 DEF t, Grade
<1>3. CASE ~p.read
  <2>1. Expiry(p) = Unreadable(p.name)
    BY <1>3 DEF Expiry
  <2>2. Grade(p.read /\ p.days <= 7, ~p.read \/ p.days <= 30) = "warning"
    BY <1>3 DEF Grade
  <2> HIDE DEF t
  <2>3. ItemStatus(Expiry(p), t) = Verdict("warning", p.name) /\ Judged(Expiry(p), t)
    BY <1>1, <2>1, ErrorLevel
  <2>4. QED
    BY <2>2, <2>3 DEF t, Verdict
<1>4. QED
  BY <1>2, <1>3

LEMMA CertsMeet == ASSUME NEW x, Formed("certs", x) PROVE IsWorstPart("certs", x)
<1> DEFINE files == x.parts
           chosen == {i \in DOMAIN files : files[i].category # "user"}
           kept == Picked(files, chosen)
           level(p) == PartLevel("certs", p)
<1>1. PICK n \in Nat : DOMAIN files = 1..n
  BY Sourced
<1>2. \A i \in DOMAIN files : /\ {files[i].read, files[i].openssl} \subseteq BOOLEAN
                              /\ files[i].days \in Int
  BY Sourced DEF PartOK
<1>3. \A p : level(p) = IF p.category = "user" THEN "ok"
                        ELSE Grade(~p.openssl \/ (p.read /\ p.days <= 7), ~p.read \/ p.days <= 30)
  BY DEF PartLevel
<1>4. \A i \in DOMAIN files : level(files[i]) \in State
  BY <1>3, Graded, Levels
<1>5. chosen \in SUBSET (1..n)
  BY <1>1
<1>7. CASE ~x.up
  BY <1>4, <1>7, ErrorsMeet DEF Probe
<1>8. CASE x.up /\ \E k \in DOMAIN kept : ~kept[k].openssl
  <2>1. Probe("certs", x).kind = "error"
    BY <1>8 DEF Probe, CertReading
  <2>2. PICK i \in chosen : ~files[i].openssl
    <3>1. \A k \in DOMAIN kept : \E i \in chosen : kept[k] = files[i]
      <4> HIDE DEF chosen, files
      <4>1. QED
        BY <1>1, <1>5, PickedExactly
    <3>2. QED
      BY <1>8, <3>1
  <2>3. i \in DOMAIN files /\ level(files[i]) = "critical"
    BY <1>3, <2>2 DEF Grade
  <2> HIDE DEF level
  <2>4. QED
    BY <1>4, <2>1, <2>3, AllHeard, ErrorsMeet DEF level
<1>9. CASE x.up /\ \A k \in DOMAIN kept : kept[k].openssl
  <2> DEFINE items == [k \in DOMAIN kept |-> Expiry(kept[k])]
  <2>1. /\ Probe("certs", x) = [kind |-> "items", items |-> items]
        /\ x.up = TRUE /\ DOMAIN items = DOMAIN kept
    BY <1>9 DEF Probe, CertReading, Formed
  <2>2. ASSUME NEW k \in DOMAIN items, NEW i \in chosen, kept[k] = files[i]
        PROVE  /\ ItemStatus(items[k], Thresholds("certs")).status \in State
               /\ level(files[i]) = ItemStatus(items[k], Thresholds("certs")).status
               /\ Judged(items[k], Thresholds("certs"))
    <3>1. items[k] = Expiry(files[i]) /\ i \in DOMAIN files
      BY <2>2
    <3>2. /\ Judged(items[k], Thresholds("certs"))
          /\ ItemStatus(items[k], Thresholds("certs")).status
               = Grade(files[i].read /\ files[i].days <= 7, ~files[i].read \/ files[i].days <= 30)
      BY <1>2, <3>1, ExpiryLevel
    <3>3. files[i].category # "user" /\ files[i].openssl
      BY <1>9, <2>2
    <3>4. level(files[i]) = Grade(files[i].read /\ files[i].days <= 7, ~files[i].read \/ files[i].days <= 30)
      BY <1>3, <3>3
    <3>5. QED
      BY <3>2, <3>4, Graded
  <2>0. Heard("certs", x) = DOMAIN x.parts /\ chosen \subseteq DOMAIN x.parts
    BY AllHeard
  <2>3. MadeFrom("certs", x, chosen, items)
    <3> HIDE DEF items, chosen
    <3>1. QED
      BY <2>0, <2>1, <2>2 DEF MadeFrom
  <2>4. Spoken("certs", x, chosen)
    BY <1>3, <2>0 DEF Spoken
  <2> HIDE DEF items, chosen
  <2>5. QED
    BY <1>1, <1>5, <2>1, <2>3, <2>4, PickedMeet
<1>10. QED
  BY <1>7, <1>8, <1>9

\* An endpoint whose expiry an earlier one has is left out: of those with one
\* expiry the first is a row.
LEMMA TlsMeet == ASSUME NEW x, Formed("tls", x) PROVE IsWorstPart("tls", x)
<1> DEFINE ends == x.parts
           Repeats(i) == /\ ends[i].read
                         /\ \E j \in 1..(i - 1) : ends[j].read /\ ends[j].days = ends[i].days
           chosen == {i \in DOMAIN ends : ~Repeats(i)}
           kept == Picked(ends, chosen)
           items == [k \in DOMAIN kept |-> Expiry(kept[k])]
           level(p) == PartLevel("tls", p)
<1>1. PICK n \in Nat : DOMAIN ends = 1..n
  BY Sourced
<1>2. \A i \in DOMAIN ends : ends[i].read \in BOOLEAN /\ ends[i].days \in Int
  BY Sourced DEF PartOK
<1>3. \A p : level(p) = Grade(p.read /\ p.days <= 7, ~p.read \/ p.days <= 30)
  BY DEF PartLevel
<1>4. CASE ~x.up
  <2>1. \A i \in DOMAIN ends : level(ends[i]) \in State
    BY <1>3, Graded
  <2>2. QED
    BY <1>4, <2>1, ErrorsMeet DEF Probe
<1>5. CASE x.up = TRUE
  <2>1. Probe("tls", x) = [kind |-> "items", items |-> items]
    BY <1>5 DEF Probe, TlsReading
  <2>2. ASSUME NEW k \in DOMAIN items, NEW i \in chosen, kept[k] = ends[i]
        PROVE  /\ ItemStatus(items[k], Thresholds("tls")).status \in State
               /\ level(ends[i]) = ItemStatus(items[k], Thresholds("tls")).status
               /\ Judged(items[k], Thresholds("tls"))
    <3>1. items[k] = Expiry(ends[i]) /\ i \in DOMAIN ends
      BY <2>2
    <3>2. ends[i].read \in BOOLEAN /\ ends[i].days \in Int
      BY <1>2, <3>1
    <3>3. level(ends[i]) = Grade(ends[i].read /\ ends[i].days <= 7,
                                 ~ends[i].read \/ ends[i].days <= 30)
      BY <1>3
    <3> HIDE DEF items, level, kept, chosen
    <3>4. /\ Judged(items[k], Thresholds("tls"))
          /\ ItemStatus(items[k], Thresholds("tls")).status =
                Grade(ends[i].read /\ ends[i].days <= 7, ~ends[i].read \/ ends[i].days <= 30)
      BY <3>1, <3>2, ExpiryLevel
    <3>5. QED
      BY <3>3, <3>4, Graded
  <2>6. Heard("tls", x) = DOMAIN x.parts /\ chosen \subseteq DOMAIN x.parts
    BY AllHeard
  <2>3. MadeFrom("tls", x, chosen, items)
    <3>1. DOMAIN items = DOMAIN kept
      OBVIOUS
    <3> HIDE DEF items, chosen
    <3>2. QED
      BY <2>2, <2>6, <3>1 DEF MadeFrom
  <2>4. ASSUME NEW i \in DOMAIN ends PROVE \E j \in chosen : level(ends[j]) = level(ends[i])
    <3>1. CASE ~ends[i].read
      BY <3>1
    <3>2. CASE ends[i].read
      <4> DEFINE same == {j \in 1..n : ends[j].read /\ ends[j].days = ends[i].days}
      <4>1. same \in SUBSET Nat /\ same # {}
        BY <1>1, <3>2
      <4>2. PICK j \in same : \A k \in same : j <= k
        <5> HIDE DEF same
        <5>1. QED
          BY <4>1, Least
      <4>3. j \in chosen
        BY <1>1, <4>2
      <4>4. level(ends[j]) = level(ends[i])
        BY <1>3, <3>2
      <4>5. QED
        BY <4>3, <4>4
    <3>3. QED
      BY <1>2, <3>1, <3>2
  <2>5. Spoken("tls", x, chosen)
    BY <2>4, <2>6 DEF Spoken
  <2> HIDE DEF items, chosen
  <2>7. QED
    BY <1>5, <2>1, <2>3, <2>5, <2>6, PickedMeet
<1>6. QED
  BY <1>4, <1>5 DEF Formed

\* The mounts of one device are one row, and only what can be read is.
LEMMA DiskMeet == ASSUME NEW x, Formed("disk", x) PROVE IsWorstPart("disk", x)
<1> DEFINE mounts == x.parts
           Repeats(i) == \E j \in 1..(i - 1) : mounts[j].read /\ mounts[j].device = mounts[i].device
           chosen == {i \in DOMAIN mounts : mounts[i].read /\ ~Repeats(i)}
           kept == Picked(mounts, chosen)
           items == [k \in DOMAIN kept |-> [name |-> kept[k].name, percent |-> kept[k].percent]]
           level(p) == PartLevel("disk", p)
           t == Thresholds("disk")
           l == [key |-> "percent", warning |-> 80, critical |-> 90]
<1>1. PICK n \in Nat : DOMAIN mounts = 1..n
  BY Sourced
<1>2. \A i \in DOMAIN mounts : mounts[i].read \in BOOLEAN /\ mounts[i].percent \in Int
  BY Sourced DEF PartOK
<1>6. Heard("disk", x) = {i \in DOMAIN mounts : mounts[i].read}
  <2>1. \A p : Overlooked("disk", p) <=> ~p.read
    BY DEF Overlooked
  <2>2. QED
    BY <2>1 DEF Heard
<1>3. \A p : level(p) = Grade(p.read /\ p.percent >= 90, ~p.read \/ p.percent >= 80)
  BY DEF PartLevel
<1>4. CASE ~x.up
  <2>1. \A i \in DOMAIN mounts : level(mounts[i]) \in State
    BY <1>3, Graded
  <2>2. QED
    BY <1>4, <2>1, ErrorsMeet DEF Probe
<1>5. CASE x.up = TRUE
  <2>1. Probe("disk", x) = [kind |-> "items", items |-> items]
    BY <1>5 DEF Probe, DiskReading
  <2>2. ASSUME NEW k \in DOMAIN items, NEW i \in chosen, kept[k] = mounts[i]
        PROVE  /\ ItemStatus(items[k], t).status \in State
               /\ level(mounts[i]) = ItemStatus(items[k], t).status
               /\ Judged(items[k], t)
    <3> DEFINE p == mounts[i]
               item == [name |-> p.name, percent |-> p.percent]
    <3>1. items[k] = item /\ p.read /\ p.percent \in Int
      BY <1>2, <2>2
    <3>2. t.levels = <<l>> /\ t.min_dead_tuples = 0
      BY DEF Thresholds, Numeric, Plain
    <3>3. /\ "error" \notin DOMAIN item /\ "dead_tuples" \notin DOMAIN item
          /\ l.key \in DOMAIN item /\ item[l.key] = p.percent
          /\ ~Erroneous(item)
      BY DEF Erroneous
    <3>4. CheckThreshold(item[l.key], l) = Grade(p.percent >= 90, p.percent >= 80)
      <4>1. \A value \in Int : CheckThreshold(value, l) = Grade(value >= 90, value >= 80)
        BY NumberLevel
      <4> HIDE DEF item, p, l
      <4>2. QED
        BY <3>1, <3>3, <4>1
    <3>5. level(p) = Grade(p.percent >= 90, p.percent >= 80)
      BY <1>3, <3>1 DEF Grade
    <3> HIDE DEF item, l, t, p, items, level
    <3>6. ItemStatus(item, t).status = Grade(p.percent >= 90, p.percent >= 80)
      BY <3>2, <3>3, <3>4, Graded, ItemLevel
    <3>7. Judged(item, t)
      BY <3>2, <3>3 DEF Judged
    <3>8. QED
      BY <3>1, <3>5, <3>6, <3>7, Graded DEF p
  <2>6. chosen \subseteq Heard("disk", x) /\ Heard("disk", x) \subseteq DOMAIN x.parts
    BY <1>6
  <2>3. MadeFrom("disk", x, chosen, items)
    <3>1. DOMAIN items = DOMAIN kept
      OBVIOUS
    <3> HIDE DEF items, chosen
    <3>2. QED
      BY <2>2, <2>6, <3>1 DEF MadeFrom
  <2>4. ASSUME NEW i \in Heard("disk", x) PROVE \E j \in chosen : level(mounts[j]) = level(mounts[i])
    <3> DEFINE same == {j \in 1..n : mounts[j].read /\ mounts[j].device = mounts[i].device}
    <3>0. i \in DOMAIN mounts /\ mounts[i].read
      BY <1>6
    <3>1. same \in SUBSET Nat /\ same # {}
      BY <1>1, <3>0
    <3>2. PICK j \in same : \A k \in same : j <= k
      <4> HIDE DEF same
      <4>1. QED
        BY <3>1, Least
    <3>3. j \in chosen
      BY <1>1, <1>2, <3>2
    <3>4. mounts[j].percent = mounts[i].percent /\ mounts[j].read /\ mounts[i].read
      BY <1>1, <3>0 DEF Formed
    <3>5. QED
      BY <1>3, <3>3, <3>4
  <2>5. Spoken("disk", x, chosen)
    BY <2>4, <2>6 DEF Spoken
  <2> HIDE DEF items, chosen
  <2>7. QED
    BY <1>5, <2>1, <2>3, <2>5, <2>6, PickedMeet
<1>7. QED
  BY <1>4, <1>5 DEF Formed

\* Every table is a row, and a small one is not judged.
LEMMA AutovacuumMeet == ASSUME NEW x, Formed("autovacuum", x) PROVE IsWorstPart("autovacuum", x)
<1> DEFINE tables == x.parts
           chosen == DOMAIN tables
           items == [i \in DOMAIN tables |->
                       [name |-> tables[i].name, dead_tuples |-> tables[i].dead, dead_pct |-> tables[i].pct]]
           level(p) == PartLevel("autovacuum", p)
           t == Thresholds("autovacuum")
           l == [key |-> "dead_pct", warning |-> 5, critical |-> 15]
<1>1. \A i \in DOMAIN tables : tables[i].dead \in Int /\ tables[i].pct \in Int
  BY Sourced DEF PartOK
<1>2. \A p : level(p) = Grade(p.dead >= 1000 /\ p.pct >= 15, p.dead >= 1000 /\ p.pct >= 5)
  BY DEF PartLevel
<1>3. CASE ~x.up
  <2>1. \A i \in DOMAIN tables : level(tables[i]) \in State
    BY <1>2, Graded
  <2>2. QED
    BY <1>3, <2>1, ErrorsMeet DEF Probe
<1>4. CASE x.up = TRUE
  <2>1. Probe("autovacuum", x) = [kind |-> "items", items |-> items]
    BY <1>4 DEF Probe, AutovacuumReading
  <2>2. Picked(tables, chosen) = tables
    BY DEF Picked
  <2>3. ASSUME NEW p, p.dead \in Int, p.pct \in Int, NEW item,
               item = [name |-> p.name, dead_tuples |-> p.dead, dead_pct |-> p.pct]
        PROVE  /\ ItemStatus(item, t).status \in State
               /\ IF Judged(item, t) THEN level(p) = ItemStatus(item, t).status ELSE level(p) = "ok"
    <3>1. t.levels = <<l>> /\ t.min_dead_tuples = 1000
      <4>1. t = [Numeric("dead_pct", 5, 15) EXCEPT !.min_dead_tuples = 1000]
        BY DEF Thresholds
      <4>2. Numeric("dead_pct", 5, 15) =
              [levels |-> <<l>>, min_dead_tuples |-> 0, error_status |-> "warning",
               alert_min_level |-> "warning"]
        BY DEF Numeric, Plain
      <4> HIDE DEF t, l
      <4>3. QED
        BY <4>1, <4>2
    <3>2. /\ "error" \notin DOMAIN item /\ "dead_tuples" \in DOMAIN item
          /\ l.key \in DOMAIN item /\ item[l.key] = p.pct /\ item.dead_tuples = p.dead
          /\ ~Erroneous(item)
      BY <2>3 DEF Erroneous
    <3>3. CheckThreshold(item[l.key], l) = Grade(p.pct >= 15, p.pct >= 5)
      BY <2>3, <3>2, NumberLevel
    <3> HIDE DEF l, t, level
    <3>4. ItemStatus(item, t).status = Grade(p.pct >= 15, p.pct >= 5)
      BY <3>1, <3>2, <3>3, Graded, ItemLevel
    <3>5. Judged(item, t) <=> p.dead >= 1000
      BY <3>1, <3>2 DEF Judged
    <3>6. CASE p.dead >= 1000
      BY <1>2, <3>4, <3>5, <3>6, Graded
    <3>7. CASE ~(p.dead >= 1000)
      BY <1>2, <3>4, <3>5, <3>7, Graded DEF Grade
    <3>8. QED
      BY <3>6, <3>7
  <2>4. MadeFrom("autovacuum", x, chosen, items)
    <3>1. \A k \in DOMAIN tables :
             /\ ItemStatus(items[k], t).status \in State
             /\ IF Judged(items[k], t) THEN level(tables[k]) = ItemStatus(items[k], t).status
                ELSE level(tables[k]) = "ok"
      BY <1>1, <2>3
    <3>2. ASSUME NEW k \in DOMAIN items, NEW i \in chosen, tables[k] = tables[i]
          PROVE  level(tables[k]) = level(tables[i])
      BY <3>2
    <3>3. DOMAIN items = DOMAIN tables
      OBVIOUS
    <3> HIDE DEF items
    <3>4. Heard("autovacuum", x) = DOMAIN x.parts
      BY AllHeard
    <3>5. QED
      BY <2>2, <3>1, <3>2, <3>3, <3>4 DEF MadeFrom
  <2>5. Spoken("autovacuum", x, chosen)
    BY AllHeard DEF Spoken
  <2> HIDE DEF items
  <2>6. QED
    BY <1>4, <2>1, <2>4, <2>5, PickedMeet
<1>5. QED
  BY <1>3, <1>4 DEF Formed

\* An answer: yes is a note.
LEMMA FlagLevel ==
    ASSUME NEW value \in BOOLEAN, NEW key, NEW item, ~Erroneous(item),
           key \in DOMAIN item, item[key] = value,
           NEW t, t.levels = Flag(key).levels
    PROVE  ItemStatus(item, t).status = IF value THEN "note" ELSE "ok"
<1> DEFINE l == [key |-> key, map |-> [b \in BOOLEAN |-> IF b THEN "note" ELSE "ok"]]
<1>1. t.levels = <<l>>
  BY DEF Flag, Plain
<1>2. "map" \in DOMAIN l /\ l.map = [b \in BOOLEAN |-> IF b THEN "note" ELSE "ok"] /\ l.key = key
  OBVIOUS
<1> HIDE DEF l
<1>3. CheckThreshold(value, l) = IF value THEN "note" ELSE "ok"
  BY <1>2 DEF CheckThreshold
<1>4. QED
  BY <1>1, <1>2, <1>3, ItemLevel, Levels

\* Every component is a row, and one that cannot be asked a note, if the reason
\* has words; it is ok, like any without an update, if it has none.
LEMMA UpdatesMeet == ASSUME NEW x, Formed("updates", x) PROVE IsWorstPart("updates", x)
<1> DEFINE parts == x.parts
           chosen == DOMAIN parts
           row(p) == IF p.read THEN [name |-> p.name, update_available |-> p.newer]
                     ELSE [name |-> p.name, update_available |-> FALSE, error |-> p.said]
           items == [i \in DOMAIN parts |-> row(parts[i])]
           level(p) == PartLevel("updates", p)
           t == Thresholds("updates")
<1>1. \A i \in DOMAIN parts : /\ parts[i].read \in BOOLEAN /\ parts[i].newer \in BOOLEAN
                              /\ parts[i].said \in BOOLEAN
  BY Sourced DEF PartOK
<1>2. \A p : level(p) = IF p.read /\ ~p.newer THEN "ok" ELSE "note"
  BY DEF PartLevel
<1>3. CASE ~x.up
  <2>1. \A i \in DOMAIN parts : level(parts[i]) \in State
    BY <1>2, Levels
  <2>2. QED
    BY <1>3, <2>1, ErrorsMeet DEF Probe
<1>4. CASE x.up = TRUE
  <2>1. Probe("updates", x) = [kind |-> "items", items |-> items]
    BY <1>4 DEF Probe, UpdateReading
  <2>2. Picked(parts, chosen) = parts
    BY DEF Picked
  <2>3. ASSUME NEW p, p.read \in BOOLEAN, p.newer \in BOOLEAN, p.said \in BOOLEAN
        PROVE  /\ ItemStatus(row(p), t).status = IF Overlooked("updates", p) THEN "ok" ELSE level(p)
               /\ Judged(row(p), t)
    <3>0. Overlooked("updates", p) <=> ~p.read /\ ~p.said
      BY DEF Overlooked
    <3>1. /\ t.levels = Flag("update_available").levels
          /\ t.min_dead_tuples = 0 /\ t.error_status = "note"
      BY DEF Thresholds, Flag, Plain
    <3> HIDE DEF t
    <3>2. CASE p.read
      <4> DEFINE item == [name |-> p.name, update_available |-> p.newer]
      <4>1. /\ "error" \notin DOMAIN item /\ "dead_tuples" \notin DOMAIN item
            /\ "update_available" \in DOMAIN item /\ item["update_available"] = p.newer
            /\ ~Erroneous(item)
        BY DEF Erroneous
      <4> HIDE DEF item
      <4>2. ItemStatus(item, t).status = IF p.newer THEN "note" ELSE "ok"
        BY <2>3, <3>1, <4>1, FlagLevel
      <4>3. Judged(item, t)
        BY <3>1, <4>1 DEF Judged
      <4>4. row(p) = item
        BY <3>2 DEF item
      <4>5. QED
        BY <1>2, <2>3, <3>0, <3>2, <4>2, <4>3, <4>4
    <3>3. CASE ~p.read
      <4> DEFINE item == [name |-> p.name, update_available |-> FALSE, error |-> p.said]
      <4>1. /\ "error" \in DOMAIN item /\ "update_available" \in DOMAIN item
            /\ item["update_available"] = FALSE /\ (Erroneous(item) <=> p.said)
        BY DEF Erroneous
      <4>2. Judged(item, t)
        BY <4>1 DEF Judged
      <4>3. row(p) = item
        BY <3>3
      <4> HIDE DEF item, row, level
      <4>4. CASE p.said
        <5>1. ItemStatus(item, t).status = "note"
          BY <3>1, <4>1, <4>4 DEF ItemStatus, Verdict
        <5>2. QED
          BY <1>2, <3>0, <3>3, <4>2, <4>3, <4>4, <5>1
      <4>5. CASE ~p.said
        <5>1. ItemStatus(item, t).status = "ok"
          <6> DEFINE no == FALSE
          <6>1. /\ ~Erroneous(item) /\ "update_available" \in DOMAIN item
                /\ no \in BOOLEAN /\ item["update_available"] = no
            BY <4>1, <4>5
          <6>2. t.levels = Flag("update_available").levels
            BY <3>1
          <6> HIDE DEF no, items, parts, chosen
          <6>3. ItemStatus(item, t).status = IF no THEN "note" ELSE "ok"
            BY <6>1, <6>2, FlagLevel
          <6>4. QED
            BY <6>3 DEF no
        <5>2. QED
          BY <3>0, <3>3, <4>2, <4>3, <4>5, <5>1
      <4>6. QED
        BY <2>3, <4>4, <4>5
    <3>4. QED
      BY <2>3, <3>2, <3>3
  <2>4. MadeFrom("updates", x, chosen, items)
    <3>1. ASSUME NEW k \in DOMAIN parts, NEW i \in DOMAIN parts, parts[k] = parts[i]
          PROVE  /\ ItemStatus(items[k], t).status =
                       IF i \notin Heard("updates", x) THEN "ok" ELSE level(parts[i])
                 /\ Judged(items[k], t)
                 /\ level(parts[i]) \in State /\ "ok" \in State
      <4>1. items[k] = row(parts[i])
        BY <3>1
      <4>2. i \notin Heard("updates", x) <=> Overlooked("updates", parts[i])
        BY DEF Heard
      <4>3. level(parts[i]) \in State /\ "ok" \in State
        BY <1>2, Levels
      <4> HIDE DEF items, row, level, t
      <4>4. QED
        BY <1>1, <2>3, <4>1, <4>2, <4>3
    <3>2. DOMAIN items = DOMAIN parts
      OBVIOUS
    <3> HIDE DEF items
    <3>3. QED
      BY <2>2, <3>1, <3>2 DEF MadeFrom
  <2>5. Spoken("updates", x, chosen)
    BY DEF Spoken, Heard
  <2> HIDE DEF items
  <2>6. QED
    BY <1>4, <2>1, <2>4, <2>5, PickedMeet
<1>5. QED
  BY <1>3, <1>4 DEF Formed

\* A reading that is one item.
LEMMA SingleMeets ==
    ASSUME NEW s \in {"database", "config"}, NEW x, x.up = TRUE, DOMAIN x.parts = 1..1, NEW item,
           Probe(s, x) = [kind |-> "single", items |-> <<item>>],
           ItemStatus(item, Thresholds(s)).status \in State,
           ItemStatus(item, Thresholds(s)).status = PartLevel(s, x.parts[1])
    PROVE  IsWorstPart(s, x)
<1>1. Evaluate(s, Probe(s, x)).status = ItemStatus(item, Thresholds(s)).status
  BY DEF Evaluate, Judge
<1>2. 1 \in Heard(s, x) /\ \A i \in Heard(s, x) : i = 1
  BY AllHeard
<1>3. \A l \in State : Status[l] <= Status[l]
  BY Levels
<1>4. QED
  BY <1>1, <1>2, <1>3, Meets

LEMMA DatabaseMeets == ASSUME NEW x, Formed("database", x) PROVE IsWorstPart("database", x)
<1> DEFINE p == x.parts[1]
           item == [name |-> "", size_bytes |-> p.size]
           t == Thresholds("database")
           l == [key |-> "size_bytes", warning |-> 25, critical |-> 40]
<1>1. \A q : PartLevel("database", q) = Grade(q.size >= 40, q.size >= 25)
  BY DEF PartLevel
<1>2. CASE ~x.up
  BY <1>1, <1>2, Graded, ErrorsMeet DEF Probe
<1>3. CASE x.up = TRUE
  <2>1. Probe("database", x) = [kind |-> "single", items |-> <<item>>]
    BY <1>3 DEF Probe, DatabaseReading
  <2>2. DOMAIN x.parts = 1..1 /\ p.size \in Int
    <3>1. Len(x.parts) = 1 /\ DOMAIN x.parts = 1..Len(x.parts)
      BY <1>3 DEF Formed
    <3>2. PartOK("database", p)
      BY <3>1, Sourced
    <3>3. QED
      BY <3>1, <3>2 DEF PartOK
  <2>3. t.levels = <<l>>
    BY DEF Thresholds, Numeric, Plain
  <2>4. ~Erroneous(item) /\ l.key \in DOMAIN item /\ item[l.key] = p.size
    BY DEF Erroneous
  <2>5. CheckThreshold(item[l.key], l) = Grade(p.size >= 40, p.size >= 25)
    <3>1. 25 \in Int /\ 40 \in Int /\ 25 < 40
      OBVIOUS
    <3> HIDE DEF p, item
    <3>2. QED
      BY <2>2, <2>4, <3>1, NumberLevel
  <2> HIDE DEF item, l, t
  <2>6. ItemStatus(item, t).status = Grade(p.size >= 40, p.size >= 25)
    BY <2>3, <2>4, <2>5, Graded, ItemLevel
  <2>7. ItemStatus(item, t).status = PartLevel("database", p) /\ PartLevel("database", p) \in State
    BY <1>1, <2>6, Graded
  <2>8. QED
    BY <1>3, <2>1, <2>2, <2>7, SingleMeets DEF t
<1>4. QED
  BY <1>2, <1>3 DEF Formed

LEMMA ConfigMeets == ASSUME NEW x, Formed("config", x) PROVE IsWorstPart("config", x)
<1> DEFINE p == x.parts[1]
           item == [name |-> "", changed |-> p.baseline /\ p.differs]
           t == Thresholds("config")
           level(q) == PartLevel("config", q)
<1>1. \A q : level(q) = IF ~q.baseline \/ (q.read /\ ~q.differs) THEN "ok"
                        ELSE IF q.read THEN "note" ELSE "critical"
  BY DEF PartLevel
<1>2. \A q : level(q) \in State
  BY <1>1, Levels
<1>3. CASE ~x.up
  BY <1>2, <1>3, ErrorsMeet DEF Probe
<1>4. CASE x.up = TRUE
  <2>1. /\ DOMAIN x.parts = 1..1 /\ 1 \in DOMAIN x.parts
        /\ p.baseline \in BOOLEAN /\ p.read \in BOOLEAN /\ p.differs \in BOOLEAN
    <3>1. Len(x.parts) = 1 /\ DOMAIN x.parts = 1..Len(x.parts)
      BY <1>4 DEF Formed
    <3>2. PartOK("config", p) /\ 1 \in DOMAIN x.parts
      BY <3>1, Sourced
    <3>3. {p.baseline, p.read, p.differs} \subseteq BOOLEAN
      BY <3>2 DEF PartOK
    <3>4. QED
      BY <3>1, <3>2, <3>3
  <2>2. CASE p.baseline /\ ~p.read
    <3>1. Probe("config", x).kind = "error"
      BY <1>4, <2>2 DEF Probe, ConfigReading
    <3>2. level(p) = "critical"
      BY <1>1, <2>2
    <3>3. QED
      BY <1>2, <2>1, <3>1, <3>2, AllHeard, ErrorsMeet
  <2>3. CASE ~(p.baseline /\ ~p.read)
    <3>1. Probe("config", x) = [kind |-> "single", items |-> <<item>>]
      BY <1>4, <2>3 DEF Probe, ConfigReading
    <3>2. t.levels = Flag("changed").levels
      BY DEF Thresholds
    <3>3. /\ ~Erroneous(item) /\ "changed" \in DOMAIN item
          /\ item["changed"] = (p.baseline /\ p.differs)
      BY DEF Erroneous
    <3>4. level(p) = IF p.baseline /\ p.differs THEN "note" ELSE "ok"
      BY <1>1, <2>1, <2>3
    <3> HIDE DEF item, t, level
    <3>5. ItemStatus(item, t).status = IF p.baseline /\ p.differs THEN "note" ELSE "ok"
      BY <2>1, <3>2, <3>3, FlagLevel
    <3>6. ItemStatus(item, t).status = level(p) /\ level(p) \in State
      BY <1>2, <3>4, <3>5
    <3>7. QED
      BY <1>4, <2>1, <3>1, <3>6, SingleMeets DEF t, level
  <2>4. QED
    BY <2>2, <2>3
<1>5. QED
  BY <1>3, <1>4 DEF Formed

\* One that exited with code 0 is left out: a one-shot, which is ok, or one that
\* is overlooked. The two maps say what the three rules say.
LEMMA ContainersMeet == ASSUME NEW x, Formed("containers", x) PROVE IsWorstPart("containers", x)
<1> DEFINE parts == x.parts
           chosen == {i \in DOMAIN parts : parts[i].status # "exited" \/ parts[i].exit # 0}
           kept == Picked(parts, chosen)
           items == [k \in DOMAIN kept |->
                       [name |-> kept[k].name, status |-> kept[k].status, health |-> kept[k].health]]
           v == [k \in DOMAIN items |-> Verdict(ContainerStatus(items[k]), items[k].name)]
           level(p) == PartLevel("containers", p)
<1>1. PICK n \in Nat : DOMAIN parts = 1..n
  BY Sourced
<1>2. \A p : level(p) = IF (p.once /\ p.status = "exited" /\ p.exit = 0) \/ p.health = "healthy" THEN "ok"
                        ELSE IF p.health = "starting" THEN "note"
                        ELSE IF p.health = "unhealthy" \/ p.status \in {"exited", "not_found"} THEN "critical"
                        ELSE IF p.status = "running" THEN "ok" ELSE "warning"
  BY DEF PartLevel
<1>3. \A p : level(p) \in State
  BY <1>2, Levels
<1>4. CASE ~x.up
  BY <1>3, <1>4, ErrorsMeet DEF Probe
<1>5. CASE x.up = TRUE
  <2>1. Probe("containers", x) = [kind |-> "items", items |-> items]
    BY <1>5 DEF Probe, ContainerReading
  <2>2. Evaluate("containers", Probe("containers", x)).status = WorstOf(v).status
    <3> HIDE DEF items
    <3>1. Judge("containers", Probe("containers", x)) = WorstOf(v)
      BY <2>1 DEF Judge, EvaluateContainers
    <3>2. QED
      BY <3>1 DEF Evaluate
  <2>3. ASSUME NEW p, p.status # "exited" \/ p.exit # 0, NEW item, item.status = p.status, item.health = p.health
        PROVE  ContainerStatus(item) = level(p)
    <3>1. /\ DOMAIN HealthMap = {"healthy", "starting", "unhealthy"}
          /\ HealthMap["healthy"] = "ok" /\ HealthMap["starting"] = "note"
          /\ HealthMap["unhealthy"] = "critical"
      BY DEF HealthMap
    <3>2. /\ DOMAIN StatusMap = {"running", "exited", "not_found"}
          /\ StatusMap["running"] = "ok" /\ StatusMap["exited"] = "critical"
          /\ StatusMap["not_found"] = "critical"
      BY DEF StatusMap
    <3> HIDE DEF level
    <3>3. QED
      BY <1>2, <2>3, <3>1, <3>2 DEF ContainerStatus
  <2>4. /\ \E m \in Nat : DOMAIN kept = 1..m
        /\ \A k \in DOMAIN kept : \E i \in chosen : kept[k] = parts[i]
        /\ \A i \in chosen : \E k \in DOMAIN kept : kept[k] = parts[i]
    <3>1. chosen \in SUBSET (1..n)
      BY <1>1
    <3> HIDE DEF chosen, parts
    <3>2. QED
      BY <1>1, <3>1, PickedExactly
  <2>5. PICK m \in Nat : DOMAIN kept = 1..m
    BY <2>4
  <2>6. ASSUME NEW k \in 1..m, NEW i \in chosen, kept[k] = parts[i]
        PROVE  v[k].status = level(parts[i])
    <3>1. v[k].status = ContainerStatus(items[k])
      BY <2>5 DEF Verdict
    <3>2. items[k].status = parts[i].status /\ items[k].health = parts[i].health
      BY <2>5, <2>6
    <3>3. parts[i].status # "exited" \/ parts[i].exit # 0
      OBVIOUS
    <3> HIDE DEF items, v, parts, level
    <3>4. QED
      BY <2>3, <3>1, <3>2, <3>3
  <2>7. DOMAIN v = 1..m
    BY <2>5
  <2>0. \A p : Overlooked("containers", p) <=> p.status = "exited" /\ p.exit = 0 /\ ~p.once
    BY DEF Overlooked
  <2>8. \A i \in Heard("containers", x) : i \in chosen \/ level(parts[i]) = "ok"
    BY <1>2, <2>0 DEF Heard
  <2>9. \A i \in chosen : i \in Heard("containers", x)
    BY <2>0 DEF Heard
  <2> HIDE DEF v, chosen, kept, level
  <2>10. \A k \in 1..m : \E i \in chosen : v[k].status = level(parts[i])
    BY <2>4, <2>5, <2>6
  <2>11. \A i \in chosen : \E k \in 1..m : v[k].status = level(parts[i])
    BY <2>4, <2>5, <2>6
  <2>12. \A k \in 1..m : v[k].status \in State
    BY <1>3, <2>10
  <2>13. /\ WorstOf(v).status \in State
         /\ \A k \in 1..m : Status[v[k].status] <= Status[WorstOf(v).status]
         /\ WorstOf(v) = Fine \/ \E k \in 1..m : WorstOf(v) = v[k]
    BY <2>7, <2>12, Worst
  <2>14. Fine.status = "ok" /\ 0 <= Status[WorstOf(v).status] /\ Status["ok"] = 0
    BY <2>13, Levels DEF Fine, Verdict
  <2>15. \A i \in Heard("containers", x) : Status[level(parts[i])] <= Status[WorstOf(v).status]
    BY <2>8, <2>11, <2>13, <2>14
  <2>16. WorstOf(v).status = "ok" \/ \E i \in Heard("containers", x) : level(parts[i]) = WorstOf(v).status
    BY <2>9, <2>10, <2>13, <2>14
  <2>17. QED
    BY <1>5, <2>2, <2>13, <2>15, <2>16, Meets DEF level
<1>6. QED
  BY <1>4, <1>5 DEF Formed

\* The evaluator's promise, of every source there can be.
LEMMA Judgement ==
    ASSUME NEW s \in HealthFunctions, NEW x, Formed(s, x) PROVE IsWorstPart(s, x)
BY CertsMeet, TlsMeet, DiskMeet, DatabaseMeets, AutovacuumMeet, UpdatesMeet, ConfigMeets,
   ContainersMeet DEF HealthFunctions

\* The rows of certificates and TLS endpoints are expiries of the parts.
LEMMA ExpiryRows ==
    ASSUME NEW s \in {"certs", "tls"}, NEW x, Formed(s, x), Probe(s, x).kind = "items"
    PROVE  \E n \in Nat :
             /\ DOMAIN Probe(s, x).items = 1..n
             /\ \A k \in 1..n : \E i \in DOMAIN x.parts : Probe(s, x).items[k] = Expiry(x.parts[i])
<1> DEFINE parts == x.parts
<1>1. PICK n \in Nat : DOMAIN parts = 1..n
  BY Sourced
<1>2. PICK chosen \in SUBSET (1..n) :
        Probe(s, x).items = [k \in DOMAIN Picked(parts, chosen) |-> Expiry(Picked(parts, chosen)[k])]
  <2>1. CASE s = "certs"
    <3> DEFINE chosen == {i \in DOMAIN parts : parts[i].category # "user"}
    <3>1. chosen \in SUBSET (1..n)
      BY <1>1
    <3>2. Probe(s, x).items = [k \in DOMAIN Picked(parts, chosen) |-> Expiry(Picked(parts, chosen)[k])]
      BY <2>1 DEF Probe, CertReading
    <3>3. QED
      BY <3>1, <3>2
  <2>2. CASE s = "tls"
    <3> DEFINE Repeats(i) == /\ parts[i].read
                             /\ \E j \in 1..(i - 1) : parts[j].read /\ parts[j].days = parts[i].days
               chosen == {i \in DOMAIN parts : ~Repeats(i)}
    <3>1. chosen \in SUBSET (1..n)
      BY <1>1
    <3>2. Probe(s, x).items = [k \in DOMAIN Picked(parts, chosen) |-> Expiry(Picked(parts, chosen)[k])]
      BY <2>2 DEF Probe, TlsReading
    <3>3. QED
      BY <3>1, <3>2
  <2>3. QED
    BY <2>1, <2>2
<1>3. /\ \E m \in Nat : DOMAIN Picked(parts, chosen) = 1..m
      /\ \A k \in DOMAIN Picked(parts, chosen) : \E i \in chosen : Picked(parts, chosen)[k] = parts[i]
  <2> HIDE DEF parts
  <2>1. QED
    BY <1>1, PickedExactly
<1> DEFINE picked == Picked(parts, chosen)
           items == Probe(s, x).items
<1>4. PICK m \in Nat : DOMAIN picked = 1..m
  BY <1>3
<1>5. items = [k \in DOMAIN picked |-> Expiry(picked[k])]
  BY <1>2
<1>6. \A k \in DOMAIN picked : \E i \in DOMAIN parts : picked[k] = parts[i]
  BY <1>1, <1>3
<1> HIDE DEF picked, items
<1>7. DOMAIN items = 1..m
  BY <1>4, <1>5
<1>8. ASSUME NEW k \in 1..m PROVE \E i \in DOMAIN parts : items[k] = Expiry(parts[i])
  <2>1. PICK i \in DOMAIN parts : picked[k] = parts[i]
    BY <1>4, <1>6
  <2>2. items[k] = Expiry(picked[k])
    BY <1>4, <1>5
  <2>3. QED
    BY <2>1, <2>2
<1>9. QED
  BY <1>7, <1>8 DEF items

LEMMA RowsOnly ==
    ASSUME NEW s \in {"certs", "tls"}, NEW x, Formed(s, x), Probe(s, x).kind = "items"
    PROVE  RowsAgreeOn(s, x)
<1> DEFINE items == Probe(s, x).items
           t == Thresholds(s)
           rows == Rows(s, Probe(s, x))
           w == EvaluateList(items, t)
           verdict == Evaluate(s, Probe(s, x))
<1>1. PICK n \in Nat : /\ DOMAIN items = 1..n
                       /\ \A k \in 1..n : \E i \in DOMAIN x.parts : items[k] = Expiry(x.parts[i])
  BY ExpiryRows
<1>2. \A i \in DOMAIN x.parts : x.parts[i].read \in BOOLEAN /\ x.parts[i].days \in Int
  BY Sourced DEF PartOK
<1>3. ASSUME NEW k \in 1..n
      PROVE  /\ Judged(items[k], t) /\ ItemStatus(items[k], t).status \in State
             /\ ItemStatus(items[k], t) = Verdict(ItemStatus(items[k], t).status, ItemStatus(items[k], t).why)
  <2>1. PICK i \in DOMAIN x.parts : items[k] = Expiry(x.parts[i])
    BY <1>1
  <2> HIDE DEF items
  <2>2. QED
    BY <1>2, <2>1, ExpiryLevel, Graded
<1>4. DOMAIN rows = 1..n /\ \A k \in 1..n : rows[k] = ItemStatus(items[k], t)
  BY <1>1 DEF Rows
<1>5. verdict.status = w.status /\ verdict.why = w.why
  BY DEF Evaluate, Judge
<1> HIDE DEF items, t, rows, verdict
<1>6. /\ \A k \in 1..n : Status[ItemStatus(items[k], t).status] <= Status[w.status]
      /\ w = Fine \/ \E k \in 1..n : w = ItemStatus(items[k], t)
  BY <1>1, <1>3, ListWorst
<1> HIDE DEF w
<1>7. Fine.status = "ok"
  BY DEF Fine, Verdict
<1>8. \A i \in DOMAIN rows : Status[rows[i].status] <= Status[verdict.status]
  BY <1>4, <1>5, <1>6
<1>9. verdict.status # "ok" => \E i \in DOMAIN rows : rows[i] = Verdict(verdict.status, verdict.why)
  BY <1>3, <1>4, <1>5, <1>6, <1>7
<1>10. QED
  BY <1>8, <1>9 DEF RowsAgreeOn, rows, verdict

(***************************************************************************)
(* What is stored.                                                         *)
(***************************************************************************)

\* A poll about to store carries the verdict on the source it read, and a
\* snapshot holds that verdict and that reading.
StoredInv ==
    /\ \A p \in Poller : poll[p].pc = "store" =>
         poll[p].verdict = Evaluate(poll[p].service, Probe(poll[p].service, poll[p].from))
    /\ \A s \in Service : cache[s] # None =>
         /\ cache[s].status = Evaluate(s, Probe(s, cache[s].from)).status
         /\ cache[s].data = Probe(s, cache[s].from)

LEMMA StoredInit == Init => StoredInv
BY DEF Init, StoredInv, Idle

\* A step that leaves the snapshots alone and moves one poll, not to "store".
LEMMA StoredKeeps ==
    ASSUME TypeOK, StoredInv, NEW p \in Poller, NEW q, q.pc # "store",
           poll' = [poll EXCEPT ![p] = q], UNCHANGED cache
    PROVE  StoredInv'
<1>1. poll'[p] = q /\ \A r \in Poller \ {p} : poll'[r] = poll[r]
  BY DEF TypeOK
<1>2. QED
  BY <1>1 DEF StoredInv

LEMMA StoredRead ==
    ASSUME TypeOK, StoredInv, NEW p \in Poller, NEW s \in Service, Read(p, s)
    PROVE  StoredInv'
<1> DEFINE q == [pc |-> "store", service |-> s, from |-> source[s],
                 verdict |-> Evaluate(s, Probe(s, source[s]))]
<1>1. poll'[p] = q /\ \A r \in Poller \ {p} : poll'[r] = poll[r]
  BY DEF TypeOK, Read
<1>2. q.verdict = Evaluate(q.service, Probe(q.service, q.from))
  OBVIOUS
<1>3. UNCHANGED cache
  BY DEF Read
<1> HIDE DEF q
<1>4. QED
  BY <1>1, <1>2, <1>3 DEF StoredInv

LEMMA StoredStore ==
    ASSUME TypeOK, StoredInv, NEW p \in Poller, Store(p)
    PROVE  StoredInv'
<1> DEFINE s == poll[p].service
           e == [status |-> poll[p].verdict.status, message |-> poll[p].verdict.why,
                 data |-> Probe(s, poll[p].from), from |-> poll[p].from]
           q == [poll[p] EXCEPT !.pc = "clock"]
<1>1. poll[p].pc = "store" /\ poll' = [poll EXCEPT ![p] = q] /\ cache' = [cache EXCEPT ![s] = e]
  BY DEF Store
<1>2. /\ e.status = Evaluate(s, Probe(s, e.from)).status
      /\ e.data = Probe(s, e.from)
  BY <1>1 DEF StoredInv
<1>3. q.pc # "store" /\ s \in Service
  BY <1>1, Shape
<1> HIDE DEF e, q, s
<1>4. poll'[p] = q /\ \A r \in Poller \ {p} : poll'[r] = poll[r]
  BY <1>1 DEF TypeOK
<1>5. cache'[s] = e /\ \A t \in Service \ {s} : cache'[t] = cache[t]
  BY <1>1, <1>3 DEF TypeOK
<1>6. QED
  BY <1>2, <1>3, <1>4, <1>5 DEF StoredInv

LEMMA StoredStep == TypeOK /\ StoredInv /\ [Next]_vars => StoredInv'
<1> SUFFICES ASSUME TypeOK, StoredInv, [Next]_vars PROVE StoredInv'
  OBVIOUS
<1>1. CASE UNCHANGED <<poll, cache>>
  BY <1>1 DEF StoredInv
<1>2. CASE Tick \/ (\E s \in Service : Change(s)) \/ UNCHANGED vars
  BY <1>1, <1>2 DEF Tick, Change, vars
<1>3. CASE Restart
  BY <1>3 DEF Restart, StoredInv, Idle
<1>4. CASE StartupReads
  <2>1. boot < Len(BootOrder) /\ boot \in 0..Len(BootOrder)
    BY <1>4 DEF StartupReads, TypeOK
  <2>2. BootOrder[boot + 1] \in Service
    BY <2>1, StartupTurn
  <2>3. QED
    BY <1>4, <2>2, StoredRead DEF StartupReads, Poller
<1>5. ASSUME NEW s \in Service, JobReads(s) PROVE StoredInv'
  BY <1>5, StoredRead DEF JobReads, Poller
<1>6. ASSUME NEW p \in Poller, Store(p) PROVE StoredInv'
  BY <1>6, StoredStore
<1>7. ASSUME NEW p \in Poller, ReadClock(p) \/ Decide(p) \/ Record(p) \/ Send(p)
      PROVE  StoredInv'
  <2>1. UNCHANGED cache
    BY <1>7 DEF ReadClock, Decide, Record, Send
  <2>2. PICK q : q.pc # "store" /\ poll' = [poll EXCEPT ![p] = q]
    <3>1. CASE ReadClock(p)
      BY <3>1 DEF ReadClock
    <3>2. CASE Decide(p)
      BY <3>2 DEF Decide, Finish, Idle
    <3>3. CASE Record(p)
      BY <3>3, Shape DEF Record, Finish, Idle
    <3>4. CASE Send(p)
      BY <3>4, Shape DEF Send, Finish, Idle
    <3>5. QED
      BY <1>7, <3>1, <3>2, <3>3, <3>4
  <2>3. QED
    BY <2>1, <2>2, StoredKeeps
<1>8. QED
  BY <1>2, <1>3, <1>4, <1>5, <1>6, <1>7 DEF Next, PollStep

LEMMA StoredHolds == Spec => []StoredInv
<1>1. TypeOK /\ StoredInv /\ [Next]_vars => StoredInv'
  BY StoredStep
<1>2. QED
  BY <1>1, StoredInit, TypeCorrect, PTL DEF Spec

\* evaluate() (monitor/app/evaluator.py) gives a service the worst level its
\* parts deserve and no worse, for every source that is well formed, of any
\* length and with any numbers in it. Exactly three kinds of part have no say,
\* and none hides another: a long-running container that exited with code 0, a
\* mount that cannot be read, a component whose error has no words. What _poll
\* stores is the verdict on the source it read, whichever polls overlap.
THEOREM StatusIsTheWorst == Spec => []StatusIsWorstPart
<1>1. ASSUME NEW c \in Cases(DOMAIN Inputs) PROVE IsWorstPart(c[1], c[2])
  <2>1. PICK s \in DOMAIN Inputs : \E x \in Inputs[s] : c = <<s, x>>
    BY DEF Cases
  <2>2. PICK x \in Inputs[s] : c = <<s, x>>
    BY <2>1
  <2>3. s \in HealthFunctions /\ Formed(s, x)
    BY InputsAssumption
  <2>4. IsWorstPart(s, x)
    BY <2>3, Judgement
  <2>5. QED
    BY <2>2, <2>4
<1>2. Misjudged = {}
  BY <1>1 DEF Misjudged
<1>3. StoredInv => StatusIsWorstPart
  BY <1>2 DEF StoredInv, StatusIsWorstPart
<1>4. QED
  BY <1>3, StoredHolds, PTL

\* The rows the dashboard shows for certificates and TLS endpoints and the
\* status of the service cannot disagree (evaluator.py:72): no row is worse
\* than the status and one of them carries its level and its message, for every
\* source that is well formed; and they are made from what was stored.
THEOREM RowsAgreeWithStatus == Spec => []RowsAgree
<1>1. ASSUME NEW c \in Cases({"certs", "tls"}), Probe(c[1], c[2]).kind = "items"
      PROVE  RowsAgreeOn(c[1], c[2])
  <2>1. PICK s \in {"certs", "tls"} \cap DOMAIN Inputs : \E x \in Inputs[s] : c = <<s, x>>
    BY DEF Cases
  <2>2. PICK x \in Inputs[s] : c = <<s, x>>
    BY <2>1
  <2>3. Formed(s, x)
    BY InputsAssumption
  <2>4. Probe(s, x).kind = "items"
    BY <1>1, <2>2
  <2>5. RowsAgreeOn(s, x)
    BY <2>3, <2>4, RowsOnly
  <2>6. QED
    BY <2>2, <2>5
<1>2. Contradicted = {}
  BY <1>1 DEF Contradicted
<1>3. StoredInv => RowsAgree
  BY <1>2 DEF StoredInv, RowsAgree
<1>4. QED
  BY <1>3, StoredHolds, PTL

=============================================================================
