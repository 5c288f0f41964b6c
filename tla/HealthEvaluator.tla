-------------------------- MODULE HealthEvaluator --------------------------
(***************************************************************************)
(* From what a health check can see to the status the monitor shows:       *)
(*                                                                         *)
(*   1. a probe (app/api/health/*.py) turns its source (files, endpoints,  *)
(*      mounts, containers, tables, releases) into a reading: an error,    *)
(*      or a sequence of items, or the fields of a single item;            *)
(*   2. the evaluator (app/evaluator.py) turns a reading and a service's   *)
(*      thresholds into a status, the item to blame, and whether it        *)
(*      warrants a notification;                                           *)
(*   3. the summary (GET /api/health) and the dashboard's rows are         *)
(*      computed from the stored snapshots.                                *)
(*                                                                         *)
(* A source is [up, parts]: `up` is FALSE when the health function raises  *)
(* or reports that it could ask nobody (no database, no Docker); `parts`   *)
(* is the sequence of things it looks at. Items are records whose fields   *)
(* are the keys the thresholds name, as in the code's dicts; a message is  *)
(* the name of the item it blames.                                         *)
(***************************************************************************)
EXTENDS Integers, Sequences, FiniteSets

\* app/status.py: the order of the levels.
Status == [ok |-> 0, note |-> 1, warning |-> 2, critical |-> 3]

Verdict(status, why) == [status |-> status, why |-> why]
Fine == Verdict("ok", "nothing")

\* `continue` in a loop: the elements of s at the chosen indices, in order.
\* (SelectSeq by sets of indices, which the provers can reason about.)
Picked(s, chosen) ==
    IF chosen = DOMAIN s THEN s
    ELSE [k \in 1..Cardinality(chosen) |->
            s[CHOOSE i \in chosen : Cardinality({j \in chosen : j <= i}) = k]]

\* `if Status[status] > worst`, over a sequence: of the worst, the first is
\* blamed; nothing is blamed for ok.
WorstOf(verdicts) ==
    LET Above(i, j) == Status[verdicts[i].status] > Status[verdicts[j].status]
        first == {i \in DOMAIN verdicts : \A j \in DOMAIN verdicts :
                    i # j => Above(i, j) \/ (i < j /\ ~Above(j, i))}
    IN  IF \E i \in first : verdicts[i].status # "ok" THEN verdicts[CHOOSE i \in first : TRUE] ELSE Fine

---------------------------------------------------------------------------
(* 1. Probes.                                                             *)

\* An item with an `error`: the field says whether there is a message in it.
Unreadable(name) == [name |-> name, error |-> TRUE]

\* A file or endpoint of which only the expiry is read.
Expiry(p) == IF p.read THEN [name |-> p.name, days_left |-> p.days] ELSE Unreadable(p.name)

\* The files of users are not looked at; a missing openssl is found at the
\* first file that is.
CertReading(files) ==
    LET kept == Picked(files, {i \in DOMAIN files : files[i].category # "user"})
    IN  IF \E i \in DOMAIN kept : ~kept[i].openssl
        THEN [kind |-> "error"]
        ELSE [kind |-> "items", items |-> [i \in DOMAIN kept |-> Expiry(kept[i])]]

\* One row per expiry date; an error is never collapsed away.
TlsReading(endpoints) ==
    LET Repeats(i) == /\ endpoints[i].read
                      /\ \E j \in 1..(i - 1) : endpoints[j].read /\ endpoints[j].days = endpoints[i].days
        kept == Picked(endpoints, {i \in DOMAIN endpoints : ~Repeats(i)})
    IN  [kind |-> "items", items |-> [k \in DOMAIN kept |-> Expiry(kept[k])]]

\* `except OSError: continue`: a mount that cannot be read is left out, as is
\* a second mount of a device (a mount whose f_fsid is 0 has one of its own).
DiskReading(mounts) ==
    LET Repeats(i) == \E j \in 1..(i - 1) : mounts[j].read /\ mounts[j].device = mounts[i].device
        kept == Picked(mounts, {i \in DOMAIN mounts : mounts[i].read /\ ~Repeats(i)})
    IN  [kind  |-> "items",
         items |-> [k \in DOMAIN kept |-> [name |-> kept[k].name, percent |-> kept[k].percent]]]

\* Containers known to Docker; one that has gone is reported as not found, one
\* that exited with code 0 is left out, whether or not it was a one-shot.
ContainerReading(containers) ==
    LET kept == Picked(containers, {i \in DOMAIN containers : containers[i].status # "exited"
                                                              \/ containers[i].exit # 0})
    IN  [kind  |-> "items",
         items |-> [i \in DOMAIN kept |->
                      [name |-> kept[i].name, status |-> kept[i].status, health |-> kept[i].health]]]

AutovacuumReading(tables) ==
    [kind  |-> "items",
     items |-> [i \in DOMAIN tables |->
                  [name |-> tables[i].name, dead_tuples |-> tables[i].dead, dead_pct |-> tables[i].pct]]]

\* `"error": str(e)[:100]`: an exception may have nothing to say. An HTTP error
\* always has.
UpdateReading(components) ==
    LET Asked(p) == [name |-> p.name, update_available |-> p.newer]
        Failed(p) == [name |-> p.name, update_available |-> FALSE, error |-> p.said]
    IN  [kind  |-> "items",
         items |-> [i \in DOMAIN components |->
                      IF components[i].read THEN Asked(components[i]) ELSE Failed(components[i])]]

DatabaseReading(databases) ==
    [kind |-> "single", items |-> <<[name |-> "", size_bytes |-> databases[1].size]>>]

\* Without a baseline (`.env` not mounted at startup) nothing has changed.
ConfigReading(files) ==
    IF files[1].baseline /\ ~files[1].read
    THEN [kind |-> "error"]
    ELSE [kind |-> "single", items |-> <<[name |-> "", changed |-> files[1].baseline /\ files[1].differs]>>]

\* _HEALTH_FUNCTIONS, and the `try` of _poll around them.
Probe(service, found) ==
    IF ~found.up THEN [kind |-> "error"]
    ELSE CASE service = "certs"      -> CertReading(found.parts)
           [] service = "tls"        -> TlsReading(found.parts)
           [] service = "disk"       -> DiskReading(found.parts)
           [] service = "containers" -> ContainerReading(found.parts)
           [] service = "autovacuum" -> AutovacuumReading(found.parts)
           [] service = "updates"    -> UpdateReading(found.parts)
           [] service = "database"   -> DatabaseReading(found.parts)
           [] service = "config"     -> ConfigReading(found.parts)

---------------------------------------------------------------------------
(* 2. Thresholds and the evaluator.                                       *)

\* monitor/config/thresholds.yml, with sizes in GB and percentages rounded.
\* `min_dead_tuples` is 0 where it is not set: `dead_tuples < 0` never holds.
Plain == [levels |-> <<>>, min_dead_tuples |-> 0, error_status |-> "warning", alert_min_level |-> "warning"]
Numeric(key, warning, critical) ==
    [Plain EXCEPT !.levels = <<[key |-> key, warning |-> warning, critical |-> critical]>>]
Flag(key) ==
    [Plain EXCEPT !.levels = <<[key |-> key, map |-> [b \in BOOLEAN |-> IF b THEN "note" ELSE "ok"]]>>,
                  !.alert_min_level = "note"]
Thresholds(service) ==
    CASE service \in {"certs", "tls"} -> Numeric("days_left", 30, 7)
      [] service = "disk"             -> Numeric("percent", 80, 90)
      [] service = "database"         -> Numeric("size_bytes", 25, 40)
      [] service = "autovacuum"       -> [Numeric("dead_pct", 5, 15) EXCEPT !.min_dead_tuples = 1000]
      [] service = "config"           -> Flag("changed")
      [] service = "updates"          -> [Flag("update_available") EXCEPT !.error_status = "note"]
      [] service = "containers"       -> Plain

\* The two maps of the containers, and default_status.
HealthMap == [healthy |-> "ok", starting |-> "note", unhealthy |-> "critical"]
StatusMap == [running |-> "ok", exited |-> "critical", not_found |-> "critical"]

\* Mutant: a value at a bound does not count.
CheckThresholdStrictly(value, l) ==
    IF "map" \in DOMAIN l
    THEN IF value \in DOMAIN l.map THEN l.map[value] ELSE "warning"
    ELSE LET Passes(bound) == IF l.warning < l.critical THEN value > bound ELSE value < bound
         IN  IF Passes(l.critical) THEN "critical" ELSE IF Passes(l.warning) THEN "warning" ELSE "ok"

\* `_check_threshold`: the direction is the one the two numbers have.
CheckThreshold(value, l) ==
    IF "map" \in DOMAIN l
    THEN IF value \in DOMAIN l.map THEN l.map[value] ELSE "warning"
    ELSE LET Reaches(bound) == IF l.warning < l.critical THEN value >= bound ELSE value <= bound
         IN  IF Reaches(l.critical) THEN "critical" ELSE IF Reaches(l.warning) THEN "warning" ELSE "ok"

\* `item.get("error")`: an empty message is no error.
Erroneous(item) == "error" \in DOMAIN item /\ item.error

\* item_status, which the dashboard's rows use as well, and _evaluate_single.
ItemStatus(item, t) ==
    IF Erroneous(item)
    THEN Verdict(t.error_status, item.name)
    ELSE LET known == Picked(t.levels, {i \in DOMAIN t.levels : t.levels[i].key \in DOMAIN item})
         IN  WorstOf([i \in DOMAIN known |-> Verdict(CheckThreshold(item[known[i].key], known[i]), item.name)])

\* Small tables are not judged, but one with an error is (`"error" not in item`:
\* here the message may be empty).
Judged(item, t) ==
    \/ "error" \in DOMAIN item
    \/ IF "dead_tuples" \in DOMAIN item THEN item.dead_tuples >= t.min_dead_tuples ELSE t.min_dead_tuples = 0

EvaluateList(items, t) ==
    LET judged == Picked(items, {i \in DOMAIN items : Judged(items[i], t)})
    IN  WorstOf([i \in DOMAIN judged |-> ItemStatus(judged[i], t)])

\* The health map first, then the Docker status, then the default.
ContainerStatus(item) ==
    IF item.health # "unknown" /\ item.health \in DOMAIN HealthMap THEN HealthMap[item.health]
    ELSE IF item.status \in DOMAIN StatusMap THEN StatusMap[item.status]
    ELSE "warning"
EvaluateContainers(items) ==
    WorstOf([i \in DOMAIN items |-> Verdict(ContainerStatus(items[i]), items[i].name)])

\* evaluate(), and the branch of _poll for a reading that is an error.
Judge(service, reading) ==
    CASE reading.kind = "error"  -> Verdict("critical", "probe")
      [] reading.kind = "single" -> ItemStatus(reading.items[1], Thresholds(service))
      [] reading.kind = "items"  -> IF service = "containers" THEN EvaluateContainers(reading.items)
                                    ELSE EvaluateList(reading.items, Thresholds(service))

\* Whether it warrants a notification: alert_min_level.
Evaluate(service, reading) ==
    LET v == Judge(service, reading)
    IN  [status       |-> v.status, why |-> v.why,
         should_alert |-> Status[v.status] >= Status[Thresholds(service).alert_min_level]]

---------------------------------------------------------------------------
(* 3. What is shown.                                                      *)

\* Mutant: the snapshot is stored without the thresholds it was judged by.
RowsWithoutThresholds(service, reading) ==
    IF reading.kind = "items"
    THEN [i \in DOMAIN reading.items |-> ItemStatus(reading.items[i], Plain)]
    ELSE <<>>

\* _rows_with_status: the certificate and TLS tables of the dashboard.
Rows(service, reading) ==
    IF reading.kind = "items"
    THEN [i \in DOMAIN reading.items |-> ItemStatus(reading.items[i], Thresholds(service))]
    ELSE <<>>

\* health_summary: `cached` is the sequence of stored statuses. A note does not
\* degrade the whole.
Overall(statuses) ==
    LET degraded == Picked(statuses, {i \in DOMAIN statuses : Status[statuses[i]] > Status["note"]})
    IN  WorstOf([i \in DOMAIN degraded |-> Verdict(degraded[i], "service")]).status
=============================================================================
