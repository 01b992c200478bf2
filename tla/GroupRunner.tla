---------------------------- MODULE GroupRunner ----------------------------
(***************************************************************************)
(* ocis-pkg/runner: a group of runners that start and stop together.       *)
(*                                                                         *)
(* A runner executes its task in one goroutine (the function of doTask),   *)
(* waits for it or for a timeout in a second one (doTask), and an          *)
(* interrupted runner has a third one with the timer.  The group starts    *)
(* all runners, waits for a first reason to stop, interrupts the runners   *)
(* and collects one result of each, or of the group's own timer.           *)
(*                                                                         *)
(* A channel is the set of the results that lie in it: it is buffered for  *)
(* all of them.  A timer may fire at any time after it was armed.          *)
(***************************************************************************)
EXTENDS Naturals, FiniteSets

CONSTANTS
    Runner,     \* the runners that can be added to the group
    Async,      \* RunAsync instead of Run: there is no context
    Patient     \* the group's timer is longer than what the runners take

ASSUME GroupAssumption == IsFiniteSet(Runner) /\ Async \in BOOLEAN /\ Patient \in BOOLEAN

VARIABLES
    added,      \* runners of the group
    pc,         \* where Run is
    toStart,    \* runners Run has not started yet
    task,       \* Runner -> progress of the task's goroutine
    timer,      \* Runner -> the runner's interrupt timer, "off" before Interrupt
    stops,      \* Runner -> calls of the stopper
    kind,       \* Runner -> the result doTask has written
    pending,    \* runners whose result lies in the channel
    named,      \* runners whose result was taken
    unknown,    \* results of the group's timer
    ctxDone,    \* the context is done
    gtimer,     \* the group's interrupt timer; "off" before Interrupt
    todo,       \* runners that the group's Interrupt has not visited yet
    visit       \* the runner it has found unfinished and is about to interrupt

vars == <<added, pc, toStart, task, timer, stops, kind, pending, named, unknown,
          ctxDone, gtimer, todo, visit>>

taskVars == <<task, timer, stops, kind, pending>>
groupVars == <<added, pc, toStart, named, unknown>>
stopVars == <<gtimer, todo, visit>>

None == "none"

TypeOK ==
    /\ added \subseteq Runner
    /\ pc \in {"idle", "starting", "first", "interrupt", "visiting", "wait", "returned"}
    /\ toStart \subseteq added
    /\ task \in [Runner -> {"new", "running", "returned", "finished", "sent"}]
    /\ timer \in [Runner -> {"off", "armed", "fired", "dropped"}]
    /\ stops \in [Runner -> Nat]
    /\ kind \in [Runner -> {"none", "own", "timeout"}]
    /\ pending \subseteq added /\ named \subseteq added
    /\ unknown \in Nat
    /\ ctxDone \in BOOLEAN
    /\ gtimer \in {"off", "visiting", "armed", "fired"}
    /\ todo \subseteq added /\ visit \subseteq added

Init ==
    /\ added = {} /\ pc = "idle" /\ toStart = {}
    /\ task = [r \in Runner |-> "new"] /\ timer = [r \in Runner |-> "off"]
    /\ stops = [r \in Runner |-> 0] /\ kind = [r \in Runner |-> None]
    /\ pending = {} /\ named = {} /\ unknown = 0 /\ ctxDone = FALSE
    /\ gtimer = "off" /\ todo = {} /\ visit = {}

----------------------------------------------------------------------------
(* A runner                                                                *)

\* the task returns by itself or because it was stopped
TaskReturns(r) ==
    /\ task[r] = "running"
    /\ task' = [task EXCEPT ![r] = "returned"]
    /\ UNCHANGED <<groupVars, stopVars, timer, stops, kind, pending, ctxDone>>

\* close(r.finished)
CloseFinished(r) ==
    /\ task[r] = "returned"
    /\ task' = [task EXCEPT ![r] = "finished"]
    /\ UNCHANGED <<groupVars, stopVars, timer, stops, kind, pending, ctxDone>>

\* tmpCh <- result
SendTmp(r) ==
    /\ task[r] = "finished"
    /\ task' = [task EXCEPT ![r] = "sent"]
    /\ UNCHANGED <<groupVars, stopVars, timer, stops, kind, pending, ctxDone>>

\* Mutant of DoTask: the task's result is written although one was.
DoTaskAgain(r) ==
    /\ task[r] # "new" /\ r \notin pending
    /\ kind' = [kind EXCEPT ![r] = IF task[r] = "sent" THEN "own" ELSE "timeout"]
    /\ task[r] = "sent" \/ timer[r] = "fired"
    /\ pending' = pending \cup {r}
    /\ UNCHANGED <<groupVars, stopVars, task, timer, stops, ctxDone>>

\* the select of doTask, and the result it writes
DoTask(r) ==
    /\ task[r] # "new" /\ kind[r] = None
    /\ \/ timer[r] = "fired" /\ kind' = [kind EXCEPT ![r] = "timeout"]
       \/ task[r] = "sent" /\ kind' = [kind EXCEPT ![r] = "own"]
    /\ pending' = pending \cup {r}
    /\ UNCHANGED <<groupVars, stopVars, task, timer, stops, ctxDone>>

\* Runner.Interrupt: the first call arms the timer and calls the stopper
Interrupt(r) ==
    IF timer[r] = "off"
    THEN /\ timer' = [timer EXCEPT ![r] = "armed"]
         /\ stops' = [stops EXCEPT ![r] = @ + 1]
    ELSE UNCHANGED <<timer, stops>>

Finished(r) == task[r] \in {"finished", "sent"}

\* the goroutine of Interrupt
TimerFires(r) ==
    /\ timer[r] = "armed"
    /\ timer' = [timer EXCEPT ![r] = "fired"]
    /\ UNCHANGED <<groupVars, stopVars, task, stops, kind, pending, ctxDone>>

TimerDropped(r) ==
    /\ timer[r] = "armed" /\ Finished(r)
    /\ timer' = [timer EXCEPT ![r] = "dropped"]
    /\ UNCHANGED <<groupVars, stopVars, task, stops, kind, pending, ctxDone>>

\* somebody who has the runner interrupts it
InterruptRunner(r) ==
    /\ r \in added /\ Interrupt(r)
    /\ UNCHANGED <<groupVars, stopVars, task, kind, pending, ctxDone>>

----------------------------------------------------------------------------
(* The group                                                               *)

\* Adding a runner that is there, or once the group runs, panics.
Add(r) ==
    /\ pc = "idle" /\ r \notin added
    /\ added' = added \cup {r}
    /\ UNCHANGED <<pc, toStart, named, unknown, taskVars, stopVars, ctxDone>>

Run ==
    /\ pc = "idle"
    /\ pc' = "starting" /\ toStart' = added
    /\ UNCHANGED <<added, named, unknown, taskVars, stopVars, ctxDone>>

\* RunAsync of the next runner
StartRunner(r) ==
    /\ pc = "starting" /\ r \in toStart
    /\ toStart' = toStart \ {r}
    /\ task' = [task EXCEPT ![r] = "running"]
    /\ UNCHANGED <<added, pc, named, unknown, timer, stops, kind, pending, stopVars, ctxDone>>

Started ==
    /\ pc = "starting" /\ toStart = {}
    /\ pc' = "first"
    /\ UNCHANGED <<added, toStart, named, unknown, taskVars, stopVars, ctxDone>>

\* A result is taken from the channel, or one is made for the group's timer,
\* whose channel is closed after the timer has fired.
TakeResult(r) ==
    /\ r \in pending
    /\ pending' = pending \ {r} /\ named' = named \cup {r}
    /\ UNCHANGED <<unknown, task, timer, stops, kind>>

TakeTimeout ==
    /\ gtimer = "fired"
    /\ unknown' = unknown + 1
    /\ UNCHANGED <<named, taskVars>>

Total == Cardinality(named) + unknown

\* Mutant of First: the context is not looked at.
FirstWithoutContext ==
    /\ pc = "first"
    /\ (\E r \in added : TakeResult(r)) \/ TakeTimeout
    /\ pc' = "interrupt"
    /\ UNCHANGED <<added, toStart, stopVars, ctxDone>>

\* the select that waits for a first reason to stop
First ==
    /\ pc = "first"
    /\ \/ \E r \in added : TakeResult(r)
       \/ TakeTimeout
       \/ ~Async /\ ctxDone /\ UNCHANGED <<named, unknown, taskVars>>
    /\ pc' = "interrupt"
    /\ UNCHANGED <<added, toStart, stopVars, ctxDone>>

\* GroupRunner.Interrupt: the first caller visits all runners
StartInterrupt ==
    IF gtimer = "off" THEN gtimer' = "visiting" /\ todo' = added /\ UNCHANGED visit
    ELSE UNCHANGED stopVars

\* Run interrupts the group.  It visits the runners itself if it is the first.
RunInterrupts ==
    /\ pc = "interrupt"
    /\ StartInterrupt
    /\ pc' = IF gtimer = "off" THEN "visiting" ELSE "wait"
    /\ UNCHANGED <<added, toStart, named, unknown, taskVars, ctxDone>>

\* Somebody else calls Interrupt on the running group.  Nothing happens when
\* it was interrupted already.
InterruptGroup ==
    /\ pc # "idle" /\ gtimer = "off"
    /\ StartInterrupt
    /\ UNCHANGED <<groupVars, taskVars, ctxDone>>

\* one round of Range: a finished runner is left alone
Visit(r) ==
    /\ gtimer = "visiting" /\ visit = {} /\ r \in todo
    /\ todo' = todo \ {r}
    /\ visit' = IF Finished(r) THEN {} ELSE {r}
    /\ UNCHANGED <<groupVars, taskVars, gtimer, ctxDone>>

VisitInterrupts(r) ==
    /\ r \in visit
    /\ Interrupt(r)
    /\ visit' = {}
    /\ UNCHANGED <<groupVars, task, kind, pending, gtimer, todo, ctxDone>>

\* Mutant of AllVisited: the timer is started before the last visit.
VisitedEarly == visit = {}
AllVisited == todo = {} /\ visit = {}

ArmGroup ==
    /\ gtimer = "visiting" /\ AllVisited
    /\ gtimer' = "armed"
    /\ pc' = IF pc = "visiting" THEN "wait" ELSE pc
    /\ UNCHANGED <<added, toStart, named, unknown, taskVars, todo, visit, ctxDone>>

\* A patient group's timer outlasts the runners' timers and what they set off.
GroupTimerFires ==
    /\ gtimer = "armed"
    /\ Patient => pc \in {"wait", "returned"} /\ \A r \in added : kind[r] # None /\ r \notin pending
    /\ gtimer' = "fired"
    /\ UNCHANGED <<groupVars, taskVars, todo, visit, ctxDone>>

Missing == Total < Cardinality(added)

Wait ==
    /\ pc = "wait" /\ Missing
    /\ (\E r \in added : TakeResult(r)) \/ TakeTimeout
    /\ UNCHANGED <<added, pc, toStart, stopVars, ctxDone>>

Return ==
    /\ pc = "wait" /\ ~Missing
    /\ pc' = "returned"
    /\ UNCHANGED <<added, toStart, named, unknown, taskVars, stopVars, ctxDone>>

CtxDone ==
    /\ ~Async /\ ~ctxDone /\ ctxDone' = TRUE
    /\ UNCHANGED <<groupVars, taskVars, stopVars>>

RunnerStep(r) ==
    \/ CloseFinished(r) \/ SendTmp(r) \/ DoTask(r)
    \/ TimerFires(r) \/ TimerDropped(r)
    \/ StartRunner(r) \/ Visit(r) \/ VisitInterrupts(r)

GroupStep == Started \/ First \/ RunInterrupts \/ ArmGroup \/ GroupTimerFires \/ Wait \/ Return

Next ==
    \/ \E r \in Runner : Add(r) \/ TaskReturns(r) \/ InterruptRunner(r) \/ RunnerStep(r)
    \/ Run \/ CtxDone \/ InterruptGroup \/ GroupStep

Spec == Init /\ [][Next]_vars

----------------------------------------------------------------------------
(* Properties                                                              *)

\* Run answers with one result per runner, whatever order tasks, timers and
\* interrupts come in: a runner's result at most once, and one of the group's
\* timer for every runner that is missing (the loop of Run).
OneResultEach ==
    pc = "returned" /\ added # {} => Total = Cardinality(added)

\* When Run has returned no task was left to itself: it finished or its
\* stopper was called, also when another goroutine won the race to interrupt
\* the group and had visited only some of the runners (Interrupt).
AllStopped ==
    pc = "returned" => \A r \in added : Finished(r) \/ stops[r] > 0

\* No stopper is called twice, however many goroutines interrupt the runner
\* and the group (the compare and swap of Runner.Interrupt).
StoppedOnce == \A r \in Runner : stops[r] <= 1

\* A runner reports a timeout only when it was stopped, and reports the
\* task's own result only when the task has finished (the select of doTask).
HonestResult ==
    \A r \in added : /\ kind[r] = "timeout" => stops[r] > 0
                     /\ kind[r] = "own" => Finished(r)

\* With a group timeout that leaves the runners the time to report their own,
\* Run names every runner and never answers "_unknown_" (as the comment of
\* GroupRunner recommends).
AllNamed == pc = "returned" /\ added # {} => named = added /\ unknown = 0

\* Results are final: a runner's result that was taken is not written again
\* and a written one does not change (doTask writes once).
ResultsFinal ==
    [][\A r \in Runner : /\ kind[r] # None => kind'[r] = kind[r]
                         /\ r \in named => r \notin pending']_vars

\* What a stop and a result rest on: the timer is armed with the one call of
\* the stopper, a result was written once and is either in the channel or
\* taken, a visited runner is finished or stopped, the group's timer fires
\* after all were visited, and Run counts no more results than runners.
IInv ==
    /\ TypeOK
    /\ \A r \in Runner : IF timer[r] = "off" THEN stops[r] = 0 ELSE stops[r] = 1
    /\ \A r \in Runner : kind[r] = "timeout" => timer[r] = "fired"
    /\ \A r \in Runner : kind[r] = "own" => task[r] = "sent"
    /\ \A r \in Runner : task[r] # "new" => r \in added
    /\ pc = "idle" => \A r \in Runner : task[r] = "new"
    /\ \A r \in toStart : task[r] = "new"
    /\ \A q, r \in visit : q = r
    /\ \A r \in Runner : kind[r] = None <=> r \notin pending \cup named
    /\ pending \cap named = {}
    /\ pc = "idle" => gtimer = "off"
    /\ pc = "visiting" => gtimer = "visiting"
    /\ pc \in {"wait", "returned"} => gtimer # "off"
    /\ gtimer # "visiting" => todo = {} /\ visit = {}
    /\ gtimer # "off" => \A r \in added \ (todo \cup visit) : Finished(r) \/ stops[r] > 0
    /\ unknown > 0 => gtimer = "fired"
    /\ pc \in {"idle", "starting", "first"} => named = {} /\ unknown = 0
    /\ added # {} => Total <= Cardinality(added)
    /\ pc = "returned" => Total >= Cardinality(added)

\* What the caller of Run may count on: one honest result per runner, and no
\* task left to itself, stopped once at most; of every runner its own result,
\* when the group's timer leaves the time.
GroupSound ==
    IInv /\ OneResultEach /\ AllStopped /\ StoppedOnce /\ HonestResult /\ (Patient => AllNamed)

\* Run has returned once a task of the running group has finished, or the
\* context is done, or the group was interrupted: what holds in the end, also
\* when tasks ignore their stoppers (Run).
Returned ==
    pc # "idle" /\ ((\E r \in added : Finished(r)) \/ ctxDone \/ gtimer # "off") => pc = "returned"
=============================================================================
