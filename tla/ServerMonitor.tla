---------------------------- MODULE ServerMonitor ----------------------------
(***************************************************************************)
(* The production monitor, run by a timer: it gathers the problems of the  *)
(* moment and posts one message about all of them, unless the state file   *)
(* says that the same message was posted within the repeat interval.  A    *)
(* run without problems removes the file.  The message may fail, its       *)
(* answer may get lost, and a run may break off before it writes the file. *)
(***************************************************************************)
EXTENDS Naturals

CONSTANTS
  Problems,     \* what may be wrong with the server
  RepeatAfter,  \* repeat_after_seconds, in units of the clock
  LastTime      \* bound: the last time the model reaches

ASSUME MonitorAssumption == RepeatAfter \in Nat \ {0} /\ LastTime \in Nat

VARIABLES
  now,          \* the time
  state,        \* the state file: fingerprint and time, or NoState
  run,          \* the run in progress: what it gathered, and when
  alerts,       \* history: the latest [about, at] accepted by Telegram for each
                \*   set of problems since a run last found none
  concluded     \* history: [about, at] of the last run that ended well

monitorVars == <<now, state, run, alerts, concluded>>

\* The fingerprint stands for the set of problems it is computed from.
NoState == [about |-> {}, at |-> 0]
NoRun == [step |-> "idle", about |-> {}, at |-> 0]

MonitorInit ==
  /\ now = 0
  /\ state = NoState
  /\ run = NoRun
  /\ alerts = {}
  /\ concluded = NoState

Conclude == concluded' = [about |-> run.about, at |-> run.at] /\ run' = NoRun

-----------------------------------------------------------------------------
Pass ==
  /\ now < LastTime
  /\ now' = now + 1
  /\ UNCHANGED <<state, run, alerts, concluded>>

\* What is wrong may have changed in any way since the last run.
Gather ==
  /\ run.step = "idle"
  /\ \E ps \in SUBSET Problems : run' = [step |-> "gathered", about |-> ps, at |-> now]
  /\ UNCHANGED <<now, state, alerts, concluded>>

\* Mutant: the file outlives a recovery.
KeepState == state

\* What becomes of the file when nothing is wrong.
Forgotten == NoState

AllClear ==
  /\ run.step = "gathered" /\ run.about = {}
  /\ state' = Forgotten
  /\ alerts' = {}
  /\ Conclude
  /\ UNCHANGED now

\* The interval is counted from the start of the run that posted.
Repeats == state.about = run.about /\ run.at < state.at + RepeatAfter

Suppress ==
  /\ run.step = "gathered" /\ run.about # {} /\ Repeats
  /\ Conclude
  /\ UNCHANGED <<now, state, alerts>>

Post ==
  /\ run.step = "gathered" /\ run.about # {} /\ ~ Repeats
  /\ alerts' = {a \in alerts : a.about # run.about} \cup {[about |-> run.about, at |-> now]}
  /\ run' = [run EXCEPT !.step = "accepted"]
  /\ UNCHANGED <<now, state, concluded>>

Remember ==
  /\ run.step = "accepted"
  /\ state' = [about |-> run.about, at |-> run.at]
  /\ Conclude
  /\ UNCHANGED <<now, alerts>>

\* Telegram is not reached or does not confirm, or the run is killed: the
\* script ends where it is, with the file as it was.
BreakRun ==
  /\ run.step # "idle"
  /\ run' = NoRun
  /\ UNCHANGED <<now, state, alerts, concluded>>

MonitorNext ==
  Pass \/ Gather \/ AllClear \/ Suppress \/ Post \/ Remember \/ BreakRun

MonitorSpec == MonitorInit /\ [][MonitorNext]_monitorVars

-----------------------------------------------------------------------------
(* Properties *)

Dated == [about : SUBSET Problems, at : 0..LastTime]

MonitorTypeOK ==
  /\ now \in 0..LastTime
  /\ state \in Dated
  /\ run \in [step : {"idle", "gathered", "accepted"}, about : SUBSET Problems, at : 0..LastTime]
  /\ alerts \subseteq Dated
  /\ concluded \in Dated

\* When a run that found problems ends well, the chat holds a message about
\* just these problems, not older than the repeat interval and posted after
\* the last run that found none: a recurrence after a recovery alerts at once
\* (assetguard-server-monitor.sh:109-148).
RecurrenceAlerts ==
  concluded.about # {} =>
    \E a \in alerts : a.about = concluded.about /\ concluded.at < a.at + RepeatAfter

\* The chat holds a message about what m is about, not older than m.
Told(m) == \E a \in alerts : a.about = m.about /\ m.at <= a.at

MonitorInv ==
  /\ MonitorTypeOK
  /\ state.at <= now /\ run.at <= now /\ concluded.at <= now
  /\ state.about # {} => Told(state)
  /\ run.step = "accepted" => run.about # {} /\ Told(run)
  /\ RecurrenceAlerts

=============================================================================
