---------------------------- MODULE AlertPolicy ----------------------------
(***************************************************************************)
(* DD-022's rule for alerts on transitions, without the engine's two       *)
(* dictionaries and without threads: the monitor is told, one observation  *)
(* at a time, the state of a service; an observation that differs from the *)
(* one before is a transition; a transition to a state other than ok that  *)
(* is worth a notification causes an alert, unless there was one for that  *)
(* service less than a cooldown ago. Every alert is remembered with its    *)
(* time, and decisions are made from that memory.                          *)
(*                                                                         *)
(* An observation that repeats the state causes nothing, however long the  *)
(* cooldown has been over: DD-022's sentence about a service that worsens  *)
(* during the cooldown is not part of this rule, nor of the code (see      *)
(* HealthAlerts!WorseningAlerts).                                          *)
(***************************************************************************)
EXTENDS Integers

CONSTANTS
    None,
    Service,
    State,      \* the levels of a service, "ok" among them
    Worthy,     \* per service: the states worth a notification
    Cooldown    \* alert_cooldown

VARIABLES
    now,
    seen,       \* per service: the state it was last said to be in, and as of when
    alerts      \* the notifications decided: [service, state, at]

Unseen == [state |-> None, at |-> 0]

vars == <<now, seen, alerts>>

Init ==
    /\ now = 0
    /\ seen = [s \in Service |-> Unseen]
    /\ alerts = {}

Tick == now' = now + 1 /\ UNCHANGED <<seen, alerts>>

\* A caller may have read its clock some time before it is heard.
Tell(s, state, at) ==
    /\ seen[s].state # state
    /\ seen' = [seen EXCEPT ![s] = [state |-> state, at |-> at]]
    /\ alerts' = IF /\ state # "ok"
                    /\ state \in Worthy[s]
                    /\ \A a \in alerts : a.service = s => at - a.at >= Cooldown
                 THEN alerts \cup {[service |-> s, state |-> state, at |-> at]}
                 ELSE alerts
    /\ UNCHANGED now

\* The memory is the process's.
Forget ==
    /\ seen' = [s \in Service |-> Unseen]
    /\ alerts' = {}
    /\ UNCHANGED now

Next ==
    \/ Tick
    \/ \E s \in Service, state \in State, at \in 0..now : Tell(s, state, at)
    \/ Forget

Spec == Init /\ [][Next]_vars
=============================================================================
