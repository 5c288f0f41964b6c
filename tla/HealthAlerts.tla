---------------------------- MODULE HealthAlerts ----------------------------
(***************************************************************************)
(* The health polls of the monitor (app/scheduler.py), the snapshot cache  *)
(* they fill (app/store.py) and the alert engine they call on every poll   *)
(* (app/api/alerts/engine.py). What a probe reads and how it is judged is  *)
(* HealthEvaluator's.                                                      *)
(*                                                                         *)
(* A poll belongs to the job of its service, of which APScheduler runs one *)
(* instance at a time, or to start_scheduler, which polls every service    *)
(* once, in order, AFTER the jobs were started: the two overlap. A poll    *)
(* reads its source, stores the snapshot, reads the clock, takes the       *)
(* engine's lock to compare and decide, and then records and sends without *)
(* it. A row may be lost or a channel fail, which nobody notices (both      *)
(* functions swallow errors), and the monitor may restart, which forgets    *)
(* everything.                                                             *)
(***************************************************************************)
EXTENDS HealthEvaluator, FiniteSets

CONSTANTS
    None,
    Startup,      \* start_scheduler's own thread
    Service,      \* the services polled, a subset of _HEALTH_FUNCTIONS
    BootOrder,    \* the same as a sequence, in the order of _HEALTH_FUNCTIONS
    Sources,      \* per service: what a probe may find as the monitor runs
    Inputs,       \* per service: the sources on which its evaluation is checked
    Channels,     \* the address and the numbers an alert goes to, in order
    Cooldown,     \* alert_cooldown
    MaxChanges,   \* bound: changes of the sources
    MaxTime,      \* bound: the clock
    MaxRestarts   \* bound: restarts of the monitor

ASSUME ServiceAssumption ==
    /\ Startup \notin Service
    /\ IsFiniteSet(Service)
    /\ BootOrder \in Seq(Service)
ASSUME CooldownAssumption == Cooldown \in Nat /\ MaxTime \in Nat

Channel == {Channels[i] : i \in DOMAIN Channels}
ASSUME ChannelsAssumption == Channels \in Seq(Channel)

Poller == Service \cup {Startup}
State == DOMAIN Status

VARIABLES
    now,          \* time.time()
    source,       \* per service: what a probe would find
    cache,        \* store._cache, with the source it was read from (history)
    last,         \* _last_state
    lastAlert,    \* _last_alert_time; -Cooldown for the 0.0 of the defaultdict
    poll,         \* per poller: where its poll is, and its local variables
    boot,         \* how many services start_scheduler has polled
    seen,         \* history, AlertPolicy's: the last transition told, and its time
    alerts,       \* history, AlertPolicy's: the notifications decided
    sent,         \* <<alert, channel>>: sends attempted
    count         \* of what is bounded: changes and restarts

engine == <<last, lastAlert, seen, alerts>>
vars == <<now, source, cache, engine, poll, boot, sent, count>>

\* alert_min_level, for AlertPolicy.
Worthy == [s \in Service |-> {l \in State : Status[l] >= Status[Thresholds(s).alert_min_level]}]
Unseen == [state |-> None, at |-> 0]
Idle == [pc |-> "idle"]
Busy(p) == poll[p].pc # "idle"

Init ==
    /\ now = 0
    /\ source \in [Service -> UNION {Sources[s] : s \in Service}]
    /\ \A s \in Service : source[s] \in Sources[s]
    /\ cache = [s \in Service |-> None]
    /\ last = [s \in Service |-> None]
    /\ lastAlert = [s \in Service |-> -Cooldown]
    /\ poll = [p \in Poller |-> Idle]
    /\ boot = 0
    /\ seen = [s \in Service |-> Unseen]
    /\ alerts = {}
    /\ sent = {}
    /\ count = [changes |-> 0, restarts |-> 0]

---------------------------------------------------------------------------
(* The environment.                                                       *)

Tick ==
    /\ now < MaxTime
    /\ now' = now + 1
    /\ UNCHANGED <<source, cache, engine, poll, boot, sent, count>>

Change(s) ==
    /\ count.changes < MaxChanges
    /\ \E x \in Sources[s] \ {source[s]} : source' = [source EXCEPT ![s] = x]
    /\ count' = [count EXCEPT !.changes = @ + 1]
    /\ UNCHANGED <<now, cache, engine, poll, boot, sent>>

\* Mutant: the engine's dictionary survives in a file, the rest does not.
RestartRemembers ==
    /\ count.restarts < MaxRestarts
    /\ count' = [count EXCEPT !.restarts = @ + 1]
    /\ cache' = [s \in Service |-> None]
    /\ poll' = [p \in Poller |-> Idle]
    /\ boot' = 0
    /\ seen' = [s \in Service |-> Unseen]
    /\ alerts' = {} /\ sent' = {}
    /\ UNCHANGED <<now, source, last, lastAlert>>

\* Module-level dictionaries start empty; what was about to be sent is lost.
Restart ==
    /\ count.restarts < MaxRestarts
    /\ count' = [count EXCEPT !.restarts = @ + 1]
    /\ cache' = [s \in Service |-> None]
    /\ last' = [s \in Service |-> None]
    /\ lastAlert' = [s \in Service |-> -Cooldown]
    /\ poll' = [p \in Poller |-> Idle]
    /\ boot' = 0
    /\ seen' = [s \in Service |-> Unseen]
    /\ alerts' = {}
    /\ sent' = {}
    /\ UNCHANGED <<now, source>>

---------------------------------------------------------------------------
(* A poll: _poll(service_name, health_fn, service_config).                *)

\* The poll is over; start_scheduler goes on to the next service.
Finish(p) ==
    /\ poll' = [poll EXCEPT ![p] = Idle]
    /\ boot' = IF p = Startup THEN boot + 1 ELSE boot

\* health_fn() and evaluate().
Read(p, s) ==
    /\ ~Busy(p)
    /\ poll' = [poll EXCEPT ![p] = [pc |-> "store", service |-> s, from |-> source[s],
                                    verdict |-> Evaluate(s, Probe(s, source[s]))]]
    /\ UNCHANGED <<now, source, cache, engine, boot, sent, count>>

JobReads(s) == Read(s, s)

StartupReads ==
    /\ boot < Len(BootOrder)
    /\ Read(Startup, BootOrder[boot + 1])

\* store.update
Store(p) ==
    /\ poll[p].pc = "store"
    /\ LET s == poll[p].service IN
       cache' = [cache EXCEPT ![s] = [status |-> poll[p].verdict.status,
                                      message |-> poll[p].verdict.why,
                                      data |-> Probe(s, poll[p].from),
                                      from |-> poll[p].from]]
    /\ poll' = [poll EXCEPT ![p].pc = "clock"]
    /\ UNCHANGED <<now, source, engine, boot, sent, count>>

\* Mutant: as before #77, the engine is called for what is worth an alert only.
ReadClockIfWorthy(p) ==
    /\ poll[p].pc = "clock"
    /\ IF poll[p].verdict.should_alert
       THEN /\ poll' = [poll EXCEPT ![p] = [pc |-> "decide", service |-> poll[p].service,
                                           verdict |-> poll[p].verdict, at |-> now]]
            /\ UNCHANGED boot
       ELSE Finish(p)
    /\ UNCHANGED <<now, source, cache, engine, sent, count>>

\* check_and_alert: `now = time.time()`, before the lock.
ReadClock(p) ==
    /\ poll[p].pc = "clock"
    /\ poll' = [poll EXCEPT ![p] = [pc |-> "decide", service |-> poll[p].service,
                                    verdict |-> poll[p].verdict, at |-> now]]
    /\ UNCHANGED <<now, source, cache, engine, boot, sent, count>>

\* Mutant: the cooldown is off by one.
NotifiesLater(s, verdict, at) ==
    verdict.status # "ok" /\ verdict.should_alert /\ at - lastAlert[s] > Cooldown

\* The condition for a notification, of the engine's two dictionaries.
Notifies(s, verdict, at) ==
    /\ verdict.status # "ok"
    /\ verdict.should_alert
    /\ at - lastAlert[s] >= Cooldown

\* The critical section.
Decide(p) ==
    /\ poll[p].pc = "decide"
    /\ LET s == poll[p].service
           v == poll[p].verdict
           at == poll[p].at
           alert == [service |-> s, state |-> v.status, at |-> at]
       IN  /\ last' = [last EXCEPT ![s] = v.status]
           /\ seen' = IF seen[s].state = v.status THEN seen
                      ELSE [seen EXCEPT ![s] = [state |-> v.status, at |-> at]]
           /\ IF last[s] = v.status \/ (last[s] = None /\ v.status = "ok")
              THEN Finish(p) /\ UNCHANGED <<lastAlert, alerts>>
              ELSE /\ lastAlert' = IF Notifies(s, v, at) THEN [lastAlert EXCEPT ![s] = at] ELSE lastAlert
                   /\ alerts' = IF Notifies(s, v, at) THEN alerts \cup {alert} ELSE alerts
                   /\ poll' = [poll EXCEPT ![p] =
                                 [pc |-> "record", alert |-> alert,
                                  left |-> IF Notifies(s, v, at) THEN Channels ELSE <<>>]]
                   /\ UNCHANGED boot
    /\ UNCHANGED <<now, source, cache, sent, count>>

\* Mutant: a row that cannot be written ends the poll.
RecordRaises(p) ==
    /\ poll[p].pc = "record"
    /\ \/ Finish(p)
       \/ poll[p].left # <<>> /\ poll' = [poll EXCEPT ![p].pc = "send"] /\ UNCHANGED boot
    /\ UNCHANGED <<now, source, cache, engine, sent, count>>

\* record_event, once, or twice for a recovery: whether the INSERT succeeds
\* changes nothing here.
Record(p) ==
    /\ poll[p].pc = "record"
    /\ IF poll[p].left = <<>>
       THEN Finish(p)
       ELSE poll' = [poll EXCEPT ![p].pc = "send"] /\ UNCHANGED boot
    /\ UNCHANGED <<now, source, cache, engine, sent, count>>

\* send_alert_email, then one request per number: an error of any is a FALSE
\* nobody looks at.
Send(p) ==
    /\ poll[p].pc = "send"
    /\ sent' = sent \cup {<<poll[p].alert, Head(poll[p].left)>>}
    /\ IF Len(poll[p].left) = 1
       THEN Finish(p)
       ELSE poll' = [poll EXCEPT ![p].left = Tail(@)] /\ UNCHANGED boot
    /\ UNCHANGED <<now, source, cache, engine, count>>

---------------------------------------------------------------------------
PollStep(p) == Store(p) \/ ReadClock(p) \/ Decide(p) \/ Record(p) \/ Send(p)

Next ==
    \/ Tick
    \/ Restart
    \/ StartupReads
    \/ \E s \in Service : Change(s) \/ JobReads(s)
    \/ \E p \in Poller : PollStep(p)

Spec == Init /\ [][Next]_vars

\* The interval trigger fires for ever and a poll that runs goes on: every wait
\* in it has a timeout. start_scheduler's own polls need not ever happen.
FairSpec ==
    /\ Spec
    /\ WF_vars(Tick)
    /\ \A s \in Service : WF_vars(JobReads(s))
    /\ \A p \in Poller : WF_vars(PollStep(p))

---------------------------------------------------------------------------
(* Properties.                                                            *)

\* What the evaluator may say of a service.
Verdicts(s) == {Evaluate(s, Probe(s, x)) : x \in Sources[s]}
ASSUME VerdictAssumption == \A s \in Service : \A v \in Verdicts(s) : v.status \in State

Alerts == [service : Service, state : State, at : 0..MaxTime]

\* Where a poll is, and the local variables it has there.
PollOK(p) ==
    \/ poll[p] = Idle
    \/ \E s \in Service :
         \/ poll[p] \in [pc : {"store", "clock"}, service : {s}, from : Sources[s],
                         verdict : Verdicts(s)]
         \/ poll[p] \in [pc : {"decide"}, service : {s}, verdict : Verdicts(s), at : 0..now]
    \/ poll[p] \in [pc : {"record"}, alert : Alerts, left : Seq(Channel)]
    \/ poll[p] \in [pc : {"send"}, alert : Alerts, left : Seq(Channel) \ {<<>>}]

\* Types, and what holds of a poll by where it is: a verdict is of the service
\* the poll is for, and the time it will decide by is not in the future.
TypeOK ==
    /\ now \in 0..MaxTime
    /\ DOMAIN source = Service /\ DOMAIN cache = Service
    /\ \A s \in Service :
         /\ source[s] \in Sources[s]
         /\ cache[s] # None => cache[s].status \in State /\ cache[s].from \in Sources[s]
    /\ last \in [Service -> State \cup {None}]
    /\ lastAlert \in [Service -> (-Cooldown)..MaxTime]
    /\ seen \in [Service -> [state : State \cup {None}, at : 0..MaxTime]]
    /\ \A s \in Service : seen[s].state = last[s]
    /\ alerts \subseteq Alerts
    /\ boot \in 0..Len(BootOrder)
    /\ Busy(Startup) => boot < Len(BootOrder)
    /\ DOMAIN poll = Poller
    /\ \A p \in Poller : PollOK(p)

\* check_and_alert decides as AlertPolicy does from the memory of every alert,
\* although it keeps one state and one time per service and reads its clock
\* before the lock ("no TOCTOU gap"); polls the evaluator judges not worth a
\* notification are heard as well (#77). AlertPolicy is DD-022's rule for
\* transitions; what DD-022 says of a service that worsens is WorseningAlerts.
Policy == INSTANCE AlertPolicy WITH
              None <- None, Service <- Service, State <- State, Worthy <- Worthy, Cooldown <- Cooldown,
              now <- now, seen <- seen, alerts <- alerts
ImplementsPolicy == Policy!Spec

\* DD-022 (docs/decisions.md:1156): "a still-elevated service that worsens
\* mid-cooldown does not re-alert until the cooldown clears". So one that stays
\* critical while the cooldown is over has been told of as critical. (It has
\* not: an unchanged state returns before the cooldown is looked at.)
WorseningAlerts ==
    \A s \in Service :
        <>[](last[s] = "critical" /\ now - lastAlert[s] >= Cooldown)
            => <>(\E a \in alerts : a.service = s /\ a.state = "critical")

\* An alert that was decided reaches every channel: it has been sent there, or
\* a poll is still on its way to do so. Neither a row the database refused nor
\* a channel that failed, nor a poll of the same service beside it, loses one.
AlertsGoOut ==
    \A a \in alerts : \A i \in DOMAIN Channels :
        \/ <<a, Channels[i]>> \in sent
        \/ \E p \in Poller : /\ poll[p].pc \in {"record", "send"}
                              /\ poll[p].alert = a
                              /\ \E j \in DOMAIN poll[p].left : poll[p].left[j] = Channels[i]

\* The level one part of a source deserves: README.md, DD-055 and
\* thresholds.yml, one by one and without order, filters or deduplication. A
\* container that exited is critical, unless it is a one-shot that succeeded;
\* what could not be read is never ok.
Grade(critical, warning) == IF critical THEN "critical" ELSE IF warning THEN "warning" ELSE "ok"
PartLevel(s, p) ==
    CASE s = "certs"      -> IF p.category = "user" THEN "ok"
                             ELSE Grade(~p.openssl \/ (p.read /\ p.days <= 7), ~p.read \/ p.days <= 30)
      [] s = "tls"        -> Grade(p.read /\ p.days <= 7, ~p.read \/ p.days <= 30)
      [] s = "disk"       -> Grade(p.read /\ p.percent >= 90, ~p.read \/ p.percent >= 80)
      [] s = "database"   -> Grade(p.size >= 40, p.size >= 25)
      [] s = "autovacuum" -> Grade(p.dead >= 1000 /\ p.pct >= 15, p.dead >= 1000 /\ p.pct >= 5)
      [] s = "updates"    -> IF p.read /\ ~p.newer THEN "ok" ELSE "note"
      [] s = "config"     -> IF ~p.baseline \/ (p.read /\ ~p.differs) THEN "ok"
                             ELSE IF p.read THEN "note" ELSE "critical"
      [] s = "containers" -> IF (p.once /\ p.status = "exited" /\ p.exit = 0) \/ p.health = "healthy" THEN "ok"
                             ELSE IF p.health = "starting" THEN "note"
                             ELSE IF p.health = "unhealthy" \/ p.status \in {"exited", "not_found"} THEN "critical"
                             ELSE IF p.status = "running" THEN "ok" ELSE "warning"

\* What the parts of a source may be: numbers and answers, of any size and
\* about anything. A database and a .env are one part.
PartOK(s, p) ==
    CASE s = "certs"      -> {p.read, p.openssl} \subseteq BOOLEAN /\ p.days \in Int
      [] s = "tls"        -> p.read \in BOOLEAN /\ p.days \in Int
      [] s = "disk"       -> p.read \in BOOLEAN /\ p.percent \in Int
      [] s = "database"   -> p.size \in Int
      [] s = "autovacuum" -> {p.dead, p.pct} \subseteq Int
      [] s = "updates"    -> {p.read, p.newer, p.said} \subseteq BOOLEAN
      [] s = "config"     -> {p.baseline, p.read, p.differs} \subseteq BOOLEAN
      [] s = "containers" -> {p.status, p.health} \subseteq STRING /\ p.exit \in Int /\ p.once \in BOOLEAN

\* The parts the code never speaks of, whatever they deserve: a service that is
\* no one-shot and exited with code 0 (containers.py:16-21, whose comment speaks
\* of init containers), a mount that cannot be read (disk.py:43, against
\* DD-055), a component whose error is an empty message (evaluator.py:75).
Overlooked(s, p) ==
    CASE s = "containers" -> p.status = "exited" /\ p.exit = 0 /\ ~p.once
      [] s = "disk"       -> ~p.read
      [] s = "updates"    -> ~p.read /\ ~p.said
      [] OTHER            -> FALSE

\* The sources PartLevel speaks of. The mounts of one device are equally full.
Formed(s, x) ==
    /\ x.up \in BOOLEAN
    /\ x.parts \in Seq({x.parts[i] : i \in DOMAIN x.parts})
    /\ \A i \in DOMAIN x.parts : PartOK(s, x.parts[i])
    /\ s \in {"database", "config"} /\ x.up => Len(x.parts) = 1
    /\ s = "disk" => \A i, j \in DOMAIN x.parts :
         x.parts[i].read /\ x.parts[j].read /\ x.parts[i].device = x.parts[j].device
            => x.parts[i].percent = x.parts[j].percent

HealthFunctions == {"certs", "tls", "disk", "database", "autovacuum", "updates", "config", "containers"}
ASSUME InputsAssumption ==
    DOMAIN Inputs \subseteq HealthFunctions /\ \A s \in DOMAIN Inputs : \A x \in Inputs[s] : Formed(s, x)

\* The bounded inputs: a service and a source.
Cases(services) == UNION {{<<s, x>> : x \in Inputs[s]} : s \in services \cap DOMAIN Inputs}

Heard(s, x) == {i \in DOMAIN x.parts : ~Overlooked(s, x.parts[i])}
IsWorstPart(s, x) ==
    LET levels == {Status[PartLevel(s, x.parts[i])] : i \in Heard(s, x)} \cup {0}
                    \cup IF x.up THEN {} ELSE {3}
        status == Evaluate(s, Probe(s, x)).status
    IN  Status[status] \in levels /\ \A l \in levels : l <= Status[status]
Misjudged == {c \in Cases(DOMAIN Inputs) : ~IsWorstPart(c[1], c[2])}

\* The status of a service is the worst level of its parts, for every bounded
\* source: whatever order they come in, no threshold is off by one, nothing is
\* hidden by the rule that small tables are not judged or that two endpoints
\* with one expiry are one row, and a service that could not be asked at all is
\* critical. Of what deserves a level, only the three kinds of part of
\* Overlooked have no say, and they hide no other. The stored snapshot says so
\* of the source it was read from.
StatusIsWorstPart ==
    /\ Misjudged = {}
    /\ \A s \in Service : cache[s] # None =>
         cache[s].status = Evaluate(s, Probe(s, cache[s].from)).status

RowsAgreeOn(s, x) ==
    LET rows == Rows(s, Probe(s, x))
        verdict == Evaluate(s, Probe(s, x))
    IN  /\ \A i \in DOMAIN rows : Status[rows[i].status] <= Status[verdict.status]
        /\ verdict.status # "ok" => \E i \in DOMAIN rows : rows[i] = Verdict(verdict.status, verdict.why)
Contradicted == {c \in Cases({"certs", "tls"}) : /\ Probe(c[1], c[2]).kind = "items"
                                                /\ ~RowsAgreeOn(c[1], c[2])}

\* evaluator.py:72: "The dashboard rows and the service status both come from
\* here, so they cannot disagree": for the tables of certificates and TLS
\* endpoints, the status is the worst of the rows and its message names a row
\* that has it. The rows are made from the stored reading.
RowsAgree ==
    /\ Contradicted = {}
    /\ \A s \in Service : cache[s] # None => cache[s].data = Probe(s, cache[s].from)

\* The status each source deserves.
StatusOf == [s \in Service |-> [x \in Sources[s] |-> Evaluate(s, Probe(s, x)).status]]

\* When the sources stay as they are, the snapshots, the engine's states and
\* the overall level of GET /api/health come to be those of the sources and
\* stay so: the next poll repairs what an initial poll that was overtaken by a
\* scheduled one wrote late, and a state below alert_min_level is tracked too.
StateCatchesUp ==
    <>[](/\ \A s \in Service : /\ cache[s] # None
                              /\ cache[s].status = StatusOf[s][source[s]]
                              /\ last[s] = StatusOf[s][source[s]]
         /\ Overall([i \in DOMAIN BootOrder |-> cache[BootOrder[i]].status]) \in {"warning", "critical"}
              <=> \E s \in Service : StatusOf[s][source[s]] \in {"warning", "critical"})
=============================================================================
