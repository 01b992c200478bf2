-------------------------- MODULE GroupRunnerProof --------------------------
(***************************************************************************)
(* A group of any number of runners gives one result per runner and leaves *)
(* no task unstopped, whoever interrupts it and whenever timers fire.      *)
(***************************************************************************)
EXTENDS GroupRunner, FiniteSetTheorems, TLAPS

USE SMTT(20), ZenonT(60)
USE DEF None, Finished

(* Counting results: the group and its parts are finite.                   *)
LEMMA Finite ==
    ASSUME TypeOK
    PROVE  /\ IsFiniteSet(added) /\ Cardinality(added) \in Nat
           /\ IsFiniteSet(named) /\ Cardinality(named) \in Nat
  <1>1. IsFiniteSet(added) /\ IsFiniteSet(named)
    BY GroupAssumption, FS_Subset DEF TypeOK
  <1> QED BY <1>1, FS_CardinalityType

(* What the invariant says of the results that Run counts.                 *)
LEMMA Counting ==
    ASSUME IInv
    PROVE  /\ TypeOK /\ pending \cap named = {}
           /\ named \subseteq added /\ unknown \in Nat
           /\ \A r \in Runner : kind[r] = None <=> r \notin pending \cup named
           /\ pc \in {"idle", "starting", "first"} => named = {} /\ unknown = 0
           /\ added # {} => Total <= Cardinality(added)
           /\ pc = "returned" => Total >= Cardinality(added)
  <1>1. TypeOK
    BY Zenon DEF IInv
  <1>2. named \subseteq added /\ unknown \in Nat
    BY <1>1 DEF TypeOK
  <1>3. pending \cap named = {} /\ \A r \in Runner : kind[r] = None <=> r \notin pending \cup named
    BY Zenon DEF IInv
  <1>4. /\ pc \in {"idle", "starting", "first"} => named = {} /\ unknown = 0
        /\ added # {} => Total <= Cardinality(added)
        /\ pc = "returned" => Total >= Cardinality(added)
    BY Zenon DEF IInv
  <1> QED BY <1>1, <1>2, <1>3, <1>4

LEMMA InitIInv == Init => IInv
  <1> SUFFICES ASSUME Init PROVE IInv
    OBVIOUS
  <1>1. TypeOK
    BY ZenonT(60) DEF Init, TypeOK
  <1> QED BY <1>1 DEF Init, IInv

(* Goroutines of a runner change neither the group's counts nor what its   *)
(* Interrupt has to visit.                                                 *)
LEMMA TaskIInv ==
    ASSUME IInv, NEW r \in Runner, TaskReturns(r) \/ CloseFinished(r) \/ SendTmp(r)
    PROVE  IInv'
  <1>1. TypeOK'
    BY DEF IInv, TypeOK, TaskReturns, CloseFinished, SendTmp, groupVars, stopVars
  <1>2. (gtimer # "off" => \A q \in added \ (todo \cup visit) : Finished(q) \/ stops[q] > 0)'
    BY DEF IInv, TypeOK, TaskReturns, CloseFinished, SendTmp, groupVars, stopVars
  <1> QED BY <1>1, <1>2 DEF IInv, TypeOK, Total, TaskReturns, CloseFinished, SendTmp, groupVars, stopVars

(* doTask writes where nothing was written and nothing was taken.          *)
LEMMA DoTaskIInv == ASSUME IInv, NEW r \in Runner, DoTask(r) PROVE IInv'
  <1>1. r \notin pending /\ r \notin named /\ r \in added
    BY DEF IInv, DoTask
  <1>2. TypeOK'
    BY <1>1 DEF IInv, TypeOK, DoTask, groupVars, stopVars
  <1>3. /\ (\A q \in Runner : kind[q] = "timeout" => timer[q] = "fired")'
        /\ (\A q \in Runner : kind[q] = "own" => task[q] = "sent")'
        /\ (\A q \in Runner : kind[q] = None <=> q \notin pending \cup named)'
    BY <1>1 DEF IInv, TypeOK, DoTask, groupVars, stopVars
  <1>4. (pending \cap named = {})'
    BY <1>1 DEF IInv, DoTask, groupVars
  <1> QED BY <1>2, <1>3, <1>4 DEF IInv, Total, DoTask, groupVars, stopVars

(* The timers' goroutines and the first Interrupt.                         *)
LEMMA TimerIInv ==
    ASSUME IInv, NEW r \in Runner, TimerFires(r) \/ TimerDropped(r)
    PROVE  IInv'
  <1>1. TypeOK'
    BY DEF IInv, TypeOK, TimerFires, TimerDropped, groupVars, stopVars
  <1>2. /\ (\A q \in Runner : IF timer[q] = "off" THEN stops[q] = 0 ELSE stops[q] = 1)'
        /\ (\A q \in Runner : kind[q] = "timeout" => timer[q] = "fired")'
    BY DEF IInv, TypeOK, TimerFires, TimerDropped, groupVars, stopVars
  <1> QED BY <1>1, <1>2 DEF IInv, Total, TimerFires, TimerDropped, groupVars, stopVars

(* Whoever interrupts a runner leaves it stopped, exactly once.            *)
LEMMA Stopped ==
    ASSUME IInv, NEW r \in Runner, Interrupt(r)
    PROVE  /\ timer' \in [Runner -> {"off", "armed", "fired", "dropped"}]
           /\ stops' \in [Runner -> Nat] /\ stops'[r] = 1
           /\ \A q \in Runner : stops'[q] >= stops[q]
           /\ \A q \in Runner : IF timer'[q] = "off" THEN stops'[q] = 0 ELSE stops'[q] = 1
           /\ \A q \in Runner : timer[q] = "fired" => timer'[q] = "fired"
  <1>1. CASE timer[r] = "off"
    BY <1>1 DEF IInv, TypeOK, Interrupt
  <1>2. CASE timer[r] # "off"
    BY <1>2 DEF IInv, TypeOK, Interrupt
  <1> QED BY <1>1, <1>2

LEMMA InterruptRunnerIInv == ASSUME IInv, NEW r \in Runner, InterruptRunner(r) PROVE IInv'
  <1> USE DEF InterruptRunner, groupVars, stopVars
  <1>1. TypeOK'
    BY Stopped DEF IInv, TypeOK
  <1>2. (gtimer # "off" => \A q \in added \ (todo \cup visit) : Finished(q) \/ stops[q] > 0)'
    BY Stopped DEF IInv, TypeOK
  <1>3. (\A q \in Runner : kind[q] = "timeout" => timer[q] = "fired")'
    BY Stopped DEF IInv
  <1> QED BY <1>1, <1>2, <1>3, Stopped DEF IInv, Total

LEMMA VisitInterruptsIInv == ASSUME IInv, NEW r \in Runner, VisitInterrupts(r) PROVE IInv'
  <1> USE DEF VisitInterrupts, groupVars
  <1>0. visit' = {}
    OBVIOUS
  <1>1. TypeOK'
    BY Stopped, <1>0 DEF IInv, TypeOK
  <1>2. (gtimer # "off" => \A q \in added \ (todo \cup visit) : Finished(q) \/ stops[q] > 0)'
    <2> SUFFICES ASSUME gtimer # "off", NEW q \in added, q \notin todo
                 PROVE  Finished(q) \/ stops'[q] > 0
      BY <1>0
    <2>1. CASE q = r
      BY <2>1, Stopped
    <2>2. CASE q # r
      <3>1. q \notin visit
        BY <2>2 DEF IInv
      <3> QED BY <3>1, Stopped DEF IInv, TypeOK
    <2> QED BY <2>1, <2>2
  <1>3. (\A q \in Runner : kind[q] = "timeout" => timer[q] = "fired")'
    BY Stopped DEF IInv
  <1> QED BY <1>0, <1>1, <1>2, <1>3, Stopped DEF IInv, Total

(* Adding a runner to a group that does not run.                           *)
LEMMA AddIInv == ASSUME IInv, NEW r \in Runner, Add(r) PROVE IInv'
  <1> USE DEF Add, taskVars, stopVars
  <1>1. TypeOK'
    BY DEF IInv, TypeOK
  <1>2. (added # {} => Total <= Cardinality(added))'
    <2>1. TypeOK /\ named' = {} /\ unknown' = 0
      BY DEF IInv
    <2>2. Cardinality(added') \in Nat
      BY <1>1, GroupAssumption, FS_Subset, FS_CardinalityType DEF TypeOK
    <2> QED BY <2>1, <2>2, FS_EmptySet DEF Total
  <1> QED BY <1>1, <1>2 DEF IInv

(* Starting the group.                                                     *)
LEMMA StartIInv ==
    ASSUME IInv, Run \/ Started \/ \E r \in Runner : StartRunner(r)
    PROVE  IInv'
  <1> USE DEF taskVars, stopVars
  <1>1. CASE Run
    BY <1>1 DEF IInv, TypeOK, Total, Run
  <1>2. CASE Started
    BY <1>2 DEF IInv, TypeOK, Total, Started
  <1>3. ASSUME NEW r \in Runner, StartRunner(r) PROVE IInv'
    <2> USE <1>3 DEF StartRunner
    <2>1. TypeOK'
      BY DEF IInv, TypeOK
    <2>2. r \in added /\ kind[r] # "own"
      BY DEF IInv, TypeOK
    <2>3. (gtimer # "off" => \A q \in added \ (todo \cup visit) : Finished(q) \/ stops[q] > 0)'
      BY DEF IInv, TypeOK
    <2> QED BY <2>1, <2>2, <2>3 DEF IInv, TypeOK, Total
  <1> QED BY <1>1, <1>2, <1>3

(* A result is taken: it was in the channel, so that it was not taken      *)
(* before and the count grows by one, or the group's timer adds one.       *)
LEMMA Taken ==
    ASSUME IInv, (\E r \in added : TakeResult(r)) \/ TakeTimeout
    PROVE  /\ Total' = Total + 1
           /\ named' \subseteq added /\ pending' \subseteq added /\ unknown' \in Nat
           /\ \A r \in Runner : kind'[r] = None <=> r \notin pending' \cup named'
           /\ pending' \cap named' = {}
           /\ unknown' > 0 => gtimer = "fired"
           /\ UNCHANGED <<task, timer, stops, kind>>
  <1>0. TypeOK /\ IsFiniteSet(named) /\ Cardinality(named) \in Nat
    BY Finite DEF IInv
  <1>1. ASSUME NEW r \in added, TakeResult(r) PROVE Total' = Total + 1
    <2>1. r \notin named /\ named' = named \cup {r} /\ unknown' = unknown
      BY <1>1 DEF IInv, TakeResult
    <2>2. Cardinality(named') = Cardinality(named) + 1
      BY <1>0, <2>1, FS_AddElement
    <2> QED BY <1>0, <2>1, <2>2 DEF Total, TypeOK
  <1>2. CASE TakeTimeout
    BY <1>0, <1>2 DEF Total, TypeOK, TakeTimeout, taskVars, IInv
  <1>3. ASSUME NEW r \in added, TakeResult(r)
        PROVE  /\ named' \subseteq added /\ pending' \subseteq added /\ unknown' \in Nat
               /\ \A q \in Runner : kind'[q] = None <=> q \notin pending' \cup named'
               /\ pending' \cap named' = {}
               /\ unknown' > 0 => gtimer = "fired"
               /\ UNCHANGED <<task, timer, stops, kind>>
    BY <1>3 DEF IInv, TypeOK, TakeResult
  <1> QED BY <1>1, <1>2, <1>3

(* The first reason to stop: the count is at most one.                     *)
LEMMA FirstIInv == ASSUME IInv, First PROVE IInv'
  <1> USE DEF First, stopVars
  <1>0. TypeOK /\ named = {} /\ unknown = 0 /\ Total = 0
    <2>1. TypeOK /\ named = {} /\ unknown = 0
      BY Counting
    <2> QED BY <2>1, FS_EmptySet DEF Total
  <1>1. CASE (\E r \in added : TakeResult(r)) \/ TakeTimeout
    <2>1. TypeOK'
      BY <1>1, Taken DEF IInv, TypeOK
    <2>2. (added # {} => Total <= Cardinality(added))'
      <3>1. added # {} => Cardinality(added) >= 1
        BY <1>0, Finite, FS_EmptySet
      <3> QED BY <3>1, <1>0, <1>1, Taken
    <2>3. (\A q \in Runner : kind[q] = None <=> q \notin pending \cup named)'
      BY <1>1, Taken
    <2>4. (gtimer # "off" => \A q \in added \ (todo \cup visit) : Finished(q) \/ stops[q] > 0)'
      BY <1>1, Taken DEF IInv, TypeOK
    <2> QED BY <1>1, <2>1, <2>2, <2>3, <2>4, Taken DEF IInv
  <1>2. CASE UNCHANGED <<named, unknown, taskVars>>
    BY <1>2 DEF IInv, TypeOK, Total, taskVars
  <1> QED BY <1>1, <1>2

(* Collecting the others, as long as some are missing.                     *)
LEMMA WaitIInv == ASSUME IInv, Wait PROVE IInv'
  <1> USE DEF Wait, stopVars
  <1>1. TypeOK'
    BY Taken DEF IInv, TypeOK
  <1>2. (added # {} => Total <= Cardinality(added))'
    BY Taken, Finite DEF IInv, Missing, Total, TypeOK
  <1>3. (\A q \in Runner : kind[q] = None <=> q \notin pending \cup named)'
    BY Taken
  <1>4. (gtimer # "off" => \A q \in added \ (todo \cup visit) : Finished(q) \/ stops[q] > 0)'
    BY Taken DEF IInv, TypeOK
  <1> QED BY <1>1, <1>2, <1>3, <1>4, Taken DEF IInv

LEMMA ReturnIInv == ASSUME IInv, Return PROVE IInv'
  <1>1. TypeOK'
    BY DEF IInv, TypeOK, Return, taskVars, stopVars
  <1>2. (pc = "returned" => Total >= Cardinality(added))'
    BY Finite DEF IInv, TypeOK, Total, Missing, Return, taskVars, stopVars
  <1> QED BY <1>1, <1>2 DEF IInv, Total, Return, taskVars, stopVars

(* The group's Interrupt: whoever comes first visits all runners, and the  *)
(* timer is armed after the last.                                          *)
LEMMA StartInterruptIInv == ASSUME IInv, RunInterrupts \/ InterruptGroup PROVE IInv'
  <1> USE DEF RunInterrupts, InterruptGroup, StartInterrupt, groupVars, taskVars, stopVars
  <1>1. TypeOK'
    BY DEF IInv, TypeOK
  <1>2. (gtimer # "off" => \A q \in added \ (todo \cup visit) : Finished(q) \/ stops[q] > 0)'
    BY DEF IInv, TypeOK
  <1> QED BY <1>1, <1>2 DEF IInv, TypeOK, Total

LEMMA VisitIInv == ASSUME IInv, NEW r \in Runner, Visit(r) PROVE IInv'
  <1> USE DEF Visit, groupVars, taskVars
  <1>1. TypeOK'
    BY DEF IInv, TypeOK
  <1>2. (gtimer # "off" => \A q \in added \ (todo \cup visit) : Finished(q) \/ stops[q] > 0)'
    BY DEF IInv, TypeOK
  <1>3. (\A p, q \in visit : p = q)'
    OBVIOUS
  <1> QED BY <1>1, <1>2, <1>3 DEF IInv, TypeOK, Total

LEMMA GroupTimerIInv == ASSUME IInv, ArmGroup \/ GroupTimerFires PROVE IInv'
  <1> USE DEF ArmGroup, GroupTimerFires, AllVisited, groupVars, taskVars
  <1>1. TypeOK'
    BY DEF IInv, TypeOK
  <1>2. (gtimer # "off" => \A q \in added \ (todo \cup visit) : Finished(q) \/ stops[q] > 0)'
    BY DEF IInv, TypeOK
  <1> QED BY <1>1, <1>2 DEF IInv, TypeOK, Total

LEMMA StutterIInv == ASSUME IInv, CtxDone \/ UNCHANGED vars PROVE IInv'
  <1> USE DEF CtxDone, vars, groupVars, taskVars, stopVars
  <1>1. TypeOK'
    BY ZenonT(60) DEF IInv, TypeOK
  <1>2. (gtimer # "off" => \A q \in added \ (todo \cup visit) : Finished(q) \/ stops[q] > 0)'
    BY DEF IInv
  <1> QED BY <1>1, <1>2 DEF IInv, Total

(* The strengthening holds of every group of runners.                      *)
THEOREM Invariance == Spec => []IInv
  <1>1. IInv /\ [Next]_vars => IInv'
    BY TaskIInv, DoTaskIInv, TimerIInv, InterruptRunnerIInv, VisitInterruptsIInv, AddIInv,
       StartIInv, FirstIInv, WaitIInv, ReturnIInv, StartInterruptIInv, VisitIInv,
       GroupTimerIInv, StutterIInv DEF Next, RunnerStep, GroupStep
  <1> QED BY <1>1, InitIInv, PTL DEF Spec

(* Run answers with as many results as the group has runners.              *)
THEOREM ResultsPerRunner == Spec => []OneResultEach
  <1>1. IInv => OneResultEach
    BY Finite DEF IInv, OneResultEach, Total, TypeOK
  <1> QED BY <1>1, Invariance, PTL

(* When Run has returned every task has finished or was told to stop: all  *)
(* results are the runners' own, or the group's timer has fired, which     *)
(* comes after the last visit of Interrupt.                                *)
THEOREM NoneLeftRunning == Spec => []AllStopped
  <1>1. IInv => AllStopped
    <2> SUFFICES ASSUME IInv, pc = "returned", NEW r \in added
                 PROVE  Finished(r) \/ stops[r] > 0
      BY DEF AllStopped
    <2>0. TypeOK /\ r \in Runner
      BY DEF IInv, TypeOK
    <2>1. CASE unknown > 0
      BY <2>1 DEF IInv
    <2>2. CASE unknown = 0
      <3>1. Cardinality(named) = Cardinality(added)
        BY <2>0, <2>2, Finite DEF IInv, Total
      <3>2. named = added
        BY <2>0, <3>1, Finite, FS_Subset DEF TypeOK
      <3>3. kind[r] # None
        BY <2>0, <3>2 DEF IInv
      <3> QED BY <2>0, <3>3 DEF IInv, TypeOK
    <2> QED BY <2>0, <2>1, <2>2 DEF TypeOK
  <1> QED BY <1>1, Invariance, PTL

(* The compare and swap of Interrupt lets one caller stop the task, and a  *)
(* timeout is reported of stopped runners only.                            *)
THEOREM StoppedAndReported == Spec => [](StoppedOnce /\ HonestResult)
  <1>1. IInv => StoppedOnce /\ HonestResult
    BY DEF IInv, TypeOK, StoppedOnce, HonestResult
  <1> QED BY <1>1, Invariance, PTL

(* A patient group's timer fires when every result was taken, so Run never *)
(* makes up one.                                                           *)
Unhurried ==
    Patient => unknown = 0 /\ (gtimer = "fired" => pc \in {"wait", "returned"} /\ named = added)

LEMMA UnhurriedNext == ASSUME IInv, IInv', Unhurried, [Next]_vars PROVE Unhurried'
  <1> SUFFICES ASSUME Patient
               PROVE  unknown' = 0 /\ (gtimer' = "fired" => pc' \in {"wait", "returned"} /\ named' = added')
    BY DEF Unhurried
  <1> USE DEF Unhurried
  <1>1. CASE gtimer = "fired"
    <2>1. Total = Cardinality(added)
      BY <1>1, Counting, Finite DEF Total
    <2>2. ~Missing /\ pc \in {"wait", "returned"} /\ named = added /\ unknown = 0
      BY <1>1, <2>1, Counting, Finite DEF Missing
    <2>3. /\ UNCHANGED <<unknown, named, added>> \/ (pc = "wait" /\ Missing) \/ pc = "first" \/ pc = "idle"
          /\ pc' = pc \/ pc' = "returned" \/ pc \notin {"wait", "returned"}
      BY DEF Next, RunnerStep, GroupStep, Add, TaskReturns, InterruptRunner, CloseFinished, SendTmp, DoTask,
             TimerFires, TimerDropped, StartRunner, Visit, VisitInterrupts, Run, CtxDone, InterruptGroup, Started,
             First, RunInterrupts, ArmGroup, GroupTimerFires, Wait, Return, vars, groupVars, taskVars, stopVars
    <2> QED BY <2>2, <2>3
  <1>2. CASE gtimer # "fired"
    <2>1. CASE GroupTimerFires
      <3>1. \A r \in added : r \in named
        BY <2>1, Counting DEF GroupTimerFires, TypeOK
      <3>2. named = added
        BY <3>1, Counting
      <3> QED BY <2>1, <3>2 DEF GroupTimerFires, groupVars
    <2>2. CASE ~GroupTimerFires
      <3>1. unknown' = unknown
        BY <1>2, <2>2 DEF Next, RunnerStep, GroupStep, Add, TaskReturns, InterruptRunner, CloseFinished, SendTmp, DoTask,
             TimerFires, TimerDropped, StartRunner, Visit, VisitInterrupts, Run, CtxDone, InterruptGroup, Started,
             First, TakeResult, TakeTimeout, RunInterrupts, ArmGroup, Wait, Return, vars, groupVars, taskVars, stopVars
      <3>2. gtimer' # "fired"
        BY <1>2, <2>2 DEF Next, RunnerStep, GroupStep, Add, TaskReturns, InterruptRunner, CloseFinished, SendTmp, DoTask,
             TimerFires, TimerDropped, StartRunner, Visit, VisitInterrupts, Run, CtxDone, InterruptGroup, StartInterrupt, Started,
             First, TakeResult, TakeTimeout, RunInterrupts, ArmGroup, Wait, Return, vars, groupVars, taskVars, stopVars
      <3> QED BY <3>1, <3>2
    <2> QED BY <2>1, <2>2
  <1> QED BY <1>1, <1>2

(* With a group timeout that leaves the runners their time, Run names every *)
(* runner and answers nothing for "_unknown_".                             *)
THEOREM PatientNamesAll == Spec => [](Patient => AllNamed)
  <1>1. Init => Unhurried
    BY DEF Init, Unhurried
  <1>2. IInv /\ Unhurried => (Patient => AllNamed)
    <2> SUFFICES ASSUME IInv, Unhurried, Patient, pc = "returned", added # {}
                 PROVE  named = added /\ unknown = 0
      BY DEF AllNamed
    <2>1. unknown = 0 /\ Cardinality(named) = Cardinality(added)
      BY Counting, Finite DEF Total, Unhurried
    <2> QED BY <2>1, Counting, Finite, FS_Subset
  <1>3. IInv /\ IInv' /\ Unhurried /\ [Next]_vars => Unhurried'
    BY UnhurriedNext
  <1> QED BY <1>1, <1>2, <1>3, Invariance, PTL DEF Spec

(* Results change in two ways: doTask writes one, and Run takes one.        *)
LEMMA ResultSteps ==
    ASSUME [Next]_vars
    PROVE  \/ UNCHANGED <<kind, pending, named>>
           \/ \E r \in Runner : DoTask(r)
           \/ \E r \in added : TakeResult(r)
  <1>1. ASSUME NEW r \in Runner, Add(r) \/ TaskReturns(r) \/ InterruptRunner(r) \/ StartRunner(r)
        PROVE  UNCHANGED <<kind, pending, named>>
    BY <1>1 DEF Add, TaskReturns, InterruptRunner, StartRunner, groupVars, taskVars
  <1>2. ASSUME NEW r \in Runner, RunnerStep(r), ~DoTask(r)
        PROVE  UNCHANGED <<kind, pending, named>>
    BY <1>2 DEF RunnerStep, CloseFinished, SendTmp, TimerFires, TimerDropped, StartRunner, Visit, VisitInterrupts,
                groupVars, taskVars
  <1>3. CASE First \/ Wait
    BY <1>3 DEF First, Wait, TakeTimeout, taskVars
  <1>4. CASE Run \/ CtxDone \/ InterruptGroup \/ Started \/ RunInterrupts \/ ArmGroup \/ GroupTimerFires \/ Return
    BY <1>4 DEF Run, CtxDone, InterruptGroup, Started, RunInterrupts, ArmGroup, GroupTimerFires, Return,
                groupVars, taskVars
  <1>5. CASE UNCHANGED vars
    BY <1>5 DEF vars
  <1> QED BY <1>1, <1>2, <1>3, <1>4, <1>5 DEF Next, GroupStep

(* doTask writes a result once, and what Run has taken is not written, or   *)
(* taken, again.                                                           *)
THEOREM ResultsAreFinal == Spec => ResultsFinal
  <1>1. ASSUME IInv, [Next]_vars
        PROVE  [\A r \in Runner : /\ kind[r] # None => kind'[r] = kind[r]
                                  /\ r \in named => r \notin pending']_vars
    <2> SUFFICES ASSUME NEW r \in Runner
                 PROVE  /\ kind[r] # None => kind'[r] = kind[r]
                        /\ r \in named => r \notin pending'
      OBVIOUS
    <2>0. /\ kind \in [Runner -> {"none", "own", "timeout"}]
          /\ pending \cap named = {}
          /\ \A q \in Runner : kind[q] = None => q \notin named
      BY <1>1 DEF IInv, TypeOK
    <2>1. ASSUME NEW q \in Runner, DoTask(q)
          PROVE  /\ kind[r] # None => kind'[r] = kind[r]
                 /\ r \in named => r \notin pending'
      BY <2>0, <2>1 DEF DoTask
    <2>2. ASSUME NEW q \in added, TakeResult(q)
          PROVE  /\ kind[r] # None => kind'[r] = kind[r]
                 /\ r \in named => r \notin pending'
      BY <2>0, <2>2 DEF TakeResult
    <2> QED BY <1>1, <2>0, <2>1, <2>2, ResultSteps
  <1> QED BY <1>1, Invariance, PTL DEF Spec, ResultsFinal

(* All of it together, as the run of the group checks it.                  *)
THEOREM Soundness == Spec => []GroupSound
  <1>1. /\ IInv /\ OneResultEach /\ AllStopped /\ StoppedOnce /\ HonestResult /\ (Patient => AllNamed)
        => GroupSound
    BY DEF GroupSound
  <1> QED BY <1>1, Invariance, ResultsPerRunner, NoneLeftRunning, StoppedAndReported, PatientNamesAll, PTL
=============================================================================
