-------------------------- MODULE MCHealthAlerts --------------------------
(***************************************************************************)
(* Instances of HealthAlerts: the engine on the service whose states go    *)
(* through every level, one of them below alert_min_level; the evaluation  *)
(* on every bounded source of every service.                               *)
(***************************************************************************)
EXTENDS HealthAlerts

Up(parts) == [up |-> TRUE, parts |-> parts]
Down == [up |-> FALSE, parts |-> <<>>]

Box(name, status, exit, health) ==
    [name |-> name, status |-> status, exit |-> exit, health |-> health, once |-> name = "init"]

FewSources == [containers |-> {
    Up(<<Box("tak", "running", 0, "healthy")>>),
    Up(<<Box("tak", "running", 0, "starting"), Box("init", "exited", 0, "unknown")>>),
    Up(<<Box("tak", "exited", 1, "unknown"), Box("db", "running", 0, "unhealthy")>>),
    Up(<<Box("tak", "paused", 0, "none")>>)}]

\* Every source with up to two or three parts, at and beside every threshold.
SeqsUpTo(S, n) == UNION {[1..m -> S] : m \in 0..n}
Ups(S, n) == {Up(q) : q \in SeqsUpTo(S, n)} \cup {Down}
MostInputs == [
    certs      |-> Ups([name : {"a", "b"}, category : {"infrastructure", "user"}, read : BOOLEAN,
                        openssl : BOOLEAN, days : {7, 8, 30, 31}], 2),
    tls        |-> Ups([name : {"a", "b"}, read : BOOLEAN, days : {7, 8, 30, 31}], 3),
    disk       |-> {x \in Ups([name : {"a", "b"}, device : {"d", "e"}, read : BOOLEAN,
                               percent : {79, 80, 89, 90}], 2) : Formed("disk", x)},
    database   |-> {Up(<<[size |-> n]>>) : n \in {24, 25, 39, 40}} \cup {Down},
    autovacuum |-> Ups([name : {"a", "b"}, dead : {999, 1000}, pct : {4, 5, 14, 15}], 2),
    updates    |-> Ups([name : {"a", "b"}, read : BOOLEAN, newer : BOOLEAN, said : BOOLEAN], 2),
    config     |-> {Up(<<x>>) : x \in [baseline : BOOLEAN, read : BOOLEAN, differs : BOOLEAN]} \cup {Down},
    containers |-> Ups([name : {"a", "b"}, status : {"running", "exited", "paused"}, exit : {0, 1},
                        health : {"healthy", "starting", "unhealthy", "none", "unknown"}, once : BOOLEAN]
                         \cup {Box("gone", "not_found", 0, "unknown")}, 2)]

JustContainers == <<"containers">>
MailAndNumber == <<"mail", "number">>
=============================================================================
