------------------------------ MODULE Debouncer ------------------------------
(***************************************************************************)
(* The search service's debouncer: after an event the space is indexed     *)
(* when no other event has come for a while, and not beside another run.   *)
(*                                                                         *)
(* The state is that of one space.  A timer that fires has its callback    *)
(* run by a goroutine; a timer can be reset while its callback runs, so    *)
(* callbacks are not tied to timers.                                       *)
(***************************************************************************)
EXTENDS Naturals, FiniteSets

CONSTANTS
    Timer,          \* one for each call of Debounce
    NoTimer,
    Worker,         \* goroutines for callbacks
    Prompt          \* no timer fires between the two calls on inProgress

ASSUME DebouncerAssumption == NoTimer \notin Timer /\ Prompt \in BOOLEAN

VARIABLES
    pending,    \* the timer in the map
    armed,      \* timers that will fire
    used,       \* timers that were made
    pc,         \* Worker -> what it is about to do
    inProgress, \* the entry in the sync.Map
    dirty       \* an event since the last run began

debouncerVars == <<pending, armed, used, pc, inProgress, dirty>>

Pc == {"idle", "load", "lock", "store", "run"}

DebouncerTypeOK ==
    /\ pending \in Timer \cup {NoTimer} /\ armed \subseteq Timer /\ used \subseteq Timer
    /\ pc \in [Worker -> Pc]
    /\ inProgress \in BOOLEAN /\ dirty \in BOOLEAN

DebouncerInit ==
    /\ pending = NoTimer /\ armed = {} /\ used = {}
    /\ pc = [w \in Worker |-> "idle"]
    /\ inProgress = FALSE /\ dirty = FALSE

\* Mutant of Debounce: the timer is stopped, the new one is made only when
\* there was none.
DebounceOnce(t) ==
    /\ t \notin used
    /\ armed' = IF pending = NoTimer THEN {t} ELSE armed \ {pending}
    /\ pending' = IF pending = NoTimer THEN t ELSE pending
    /\ used' = used \cup {t} /\ dirty' = TRUE
    /\ UNCHANGED <<pc, inProgress>>

\* Debounce: under the mutex the last timer is stopped and a new one made
Debounce(t) ==
    /\ t \notin used
    /\ armed' = (armed \ {pending}) \cup {t}
    /\ pending' = t
    /\ used' = used \cup {t} /\ dirty' = TRUE
    /\ UNCHANGED <<pc, inProgress>>

\* time.AfterFunc: the callback begins in a goroutine of its own
Fire(t, w) ==
    /\ t \in armed /\ pc[w] = "idle"
    /\ Prompt => \A v \in Worker : pc[v] \notin {"load", "store"}
    /\ armed' = armed \ {t}
    /\ pc' = [pc EXCEPT ![w] = "load"]
    /\ UNCHANGED <<pending, used, inProgress, dirty>>

Load(w) ==
    /\ pc[w] = "load"
    /\ pc' = [pc EXCEPT ![w] = IF inProgress THEN "lock" ELSE "store"]
    /\ UNCHANGED <<pending, armed, used, inProgress, dirty>>

\* Mutant of Reset: the callback leaves it to the run in progress.
ResetNot(w) ==
    /\ pc[w] = "lock"
    /\ pc' = [pc EXCEPT ![w] = "idle"]
    /\ UNCHANGED <<pending, armed, used, inProgress, dirty>>

\* "Reschedule this run for when the previous run has finished"
Reset(w) ==
    /\ pc[w] = "lock"
    /\ armed' = armed \cup {pending}
    /\ pc' = [pc EXCEPT ![w] = "idle"]
    /\ UNCHANGED <<pending, used, inProgress, dirty>>

\* the run begins
Store(w) ==
    /\ pc[w] = "store"
    /\ inProgress' = TRUE /\ dirty' = FALSE
    /\ pc' = [pc EXCEPT ![w] = "run"]
    /\ UNCHANGED <<pending, armed, used>>

\* the run ends
Delete(w) ==
    /\ pc[w] = "run"
    /\ inProgress' = FALSE
    /\ pc' = [pc EXCEPT ![w] = "idle"]
    /\ UNCHANGED <<pending, armed, used, dirty>>

Work(w) == (\E t \in Timer : Fire(t, w)) \/ Load(w) \/ Reset(w) \/ Store(w) \/ Delete(w)

DebouncerNext == (\E t \in Timer : Debounce(t)) \/ \E w \in Worker : Work(w)

DebouncerSpec == DebouncerInit /\ [][DebouncerNext]_debouncerVars

\* Timers fire and goroutines go on.  Callbacks that only wait for the run in
\* progress come again and again, so a worker's steps are fair one by one.
Fairness ==
    /\ \A w \in Worker : WF_debouncerVars(Load(w)) /\ WF_debouncerVars(Reset(w)) /\ WF_debouncerVars(Store(w)) /\ WF_debouncerVars(Delete(w))
    /\ SF_debouncerVars(\E t \in Timer, w \in Worker : Fire(t, w))

FairSpec == DebouncerSpec /\ Fairness

----------------------------------------------------------------------------
(* Properties                                                              *)

Running == {w \in Worker : pc[w] = "run"}

\* An event is never forgotten: until a run
\* has begun after it, a timer is armed or a callback is on its way to a run
\* or to arm the timer again (Debounce, t.Stop and Reset at the same time).
NotForgotten ==
    dirty => armed # {} \/ \E w \in Worker : pc[w] \in {"load", "lock", "store"}

\* The test "doesn't trigger twice simultaneously".
OneRun == \A v, w \in Running : v = w

\* What Debounce promises in every state: no event without a run to come, and
\* one run at a time where the timers leave the callbacks time to begin.
DebouncerSound == DebouncerTypeOK /\ NotForgotten /\ (Prompt => OneRun)

\* After the events have ended the space is indexed once more (Debounce).
Indexed == dirty ~> ~dirty
=============================================================================
