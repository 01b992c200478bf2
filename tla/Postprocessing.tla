--------------------------- MODULE Postprocessing ---------------------------
(***************************************************************************)
(* The postprocessing service (services/postprocessing): the steps that an *)
(* upload goes through, kept in a record of a key-value store that several *)
(* workers read, change and write back without a lock, driven by events    *)
(* from the storage provider, from the services that do the steps and from *)
(* the administrator.                                                      *)
(*                                                                         *)
(* There is one upload.  Events come to a consumer group in their order,   *)
(* one event to one worker, and are acknowledged on delivery: an event in  *)
(* the hands of a process that dies is lost.                               *)
(***************************************************************************)
EXTENDS Naturals, Sequences, Bags, SequencesExt

CONSTANTS
    Worker, None,
    Steps,        \* configured steps, in order
    PPStepDelay,  \* the step that the service does itself
    MaxRetries,
    Persistent,   \* whether the store outlives the process
    Outcomes,     \* what the services may answer
    MaxAdmin, MaxCrash, MaxAnswers  \* bounds, the last on answers other than continue

PPStepFinished == "finished"
StepNames == ToSet(Steps)

VARIABLES
    rec,       \* the record in the store, or None
    queue,     \* events on their way to the service
    timers,    \* goroutines that sleep and then publish an event
    runs,      \* steps that other services have been asked to do
    provider,  \* events on their way to the storage provider
    upload,    \* the session of the upload at the provider
    pc, ev, pp,    \* of each worker: step, event, its copy of the record
    next, later,   \* the events that it will publish, and that a goroutine of it will
    passed,    \* history: steps that some service has answered with continue
    tries,     \* history: of each step, how many retries of it were scheduled
    answers, admin, crashes  \* bounds

local == <<pc, ev, pp, next, later>>
history == <<passed, tries>>
bounds == <<answers, admin, crashes>>
vars == <<rec, queue, timers, runs, provider, upload, local, history, bounds>>

Goto(w, l) == pc' = [pc EXCEPT ![w] = l]
End(w) ==
    /\ Goto(w, "idle")
    /\ ev' = [ev EXCEPT ![w] = None] /\ pp' = [pp EXCEPT ![w] = None] /\ next' = [next EXCEPT ![w] = None]
    /\ later' = [later EXCEPT ![w] = None]

Event(kind, step, outcome) == [kind |-> kind, step |-> step, outcome |-> outcome]
Start(step) == Event("start", step, None)
Finished(outcome) == Event("finished", None, outcome)

(* events.Publish: an event goes to the groups that listen to it.          *)
Publish(e) ==
    /\ queue' = IF e.kind \in {"bytes", "stepfinished", "ready", "resume"} \/ e = Start(PPStepDelay)
                THEN Append(queue, e) ELSE queue
    /\ runs' = IF e.kind = "start" /\ e.step \in StepNames \ {PPStepDelay} THEN runs (+) SetToBag({e.step}) ELSE runs
    /\ provider' = IF e.kind \in {"finished", "restart"} THEN Append(provider, e) ELSE provider

----------------------------------------------------------------------------
(* postprocessing.go: what an event makes of the record, and what is       *)
(* published then.                                                         *)

step(p, s) == [record |-> [p EXCEPT !.cur = s], event |-> Start(s)]

finished(p, o) == [record |-> [p EXCEPT !.cur = PPStepFinished, !.outcome = o], event |-> Finished(o)]

(* Defect: one step too far.                                               *)
NextTooFar(p, current) ==
    LET after == {i \in 1..Len(Steps) : Steps[i] = current /\ i + 2 <= Len(Steps)}
    IN  IF after = {} THEN finished(p, "continue")
        ELSE step(p, Steps[(CHOOSE i \in after : \A j \in after : i <= j) + 2])

nextStep(p, current) ==
    LET after == {i \in 1..Len(Steps) : Steps[i] = current /\ i + 1 <= Len(Steps)}
    IN  IF after = {} THEN finished(p, "continue")
        ELSE step(p, Steps[(CHOOSE i \in after : \A j \in after : i <= j) + 1])

NewRecord == [cur |-> None, outcome |-> None, failures |-> 0, finished |-> FALSE]

InitPP == IF Steps = <<>> THEN finished(NewRecord, "continue") ELSE step(NewRecord, Steps[1])

Retry(p) ==
    IF p.failures + 1 > MaxRetries THEN finished([p EXCEPT !.failures = @ + 1], "abort")
    ELSE [record |-> [p EXCEPT !.failures = @ + 1, !.outcome = "retry"], event |-> None]

NextStep(p, e) ==
    CASE e.outcome = "continue" -> nextStep(p, e.step)
      [] e.outcome = "retry" -> Retry(p)
      [] OTHER -> finished(p, e.outcome)

CurrentStep(p) == IF p.cur = PPStepFinished THEN Finished(p.outcome) ELSE Start(p.cur)

----------------------------------------------------------------------------
(* service.go: a worker takes an event, ...                                *)

Take(w) ==
    /\ pc[w] = "idle" /\ queue # <<>>
    /\ ev' = [ev EXCEPT ![w] = Head(queue)] /\ queue' = Tail(queue)
    /\ Goto(w, "read")
    /\ UNCHANGED <<rec, timers, runs, provider, upload, pp, next, later, history, bounds>>

(* ... works out the new record, ...                                       *)
Work(w, record, now, delayed) ==
    /\ pp' = [pp EXCEPT ![w] = record]
    /\ next' = [next EXCEPT ![w] = now] /\ later' = [later EXCEPT ![w] = delayed]
    /\ Goto(w, "store") /\ UNCHANGED ev

BytesReceived(w) ==
    /\ pc[w] = "read" /\ ev[w].kind = "bytes"
    /\ Work(w, InitPP.record, InitPP.event, None)
    /\ UNCHANGED <<rec, queue, timers, runs, provider, upload, history, bounds>>

(* cannot get upload                                                       *)
NotFound(w) ==
    /\ pc[w] = "read" /\ rec = None
    /\ ev[w].kind \in {"stepfinished", "start"} \/ (ev[w].kind = "ready" /\ ev[w].outcome = "failed")
    /\ End(w)
    /\ UNCHANGED <<rec, queue, timers, runs, provider, upload, history, bounds>>

(* The outcome in the record may be left from an earlier step.             *)
StepFinished(w) ==
    /\ pc[w] = "read" /\ ev[w].kind = "stepfinished" /\ rec # None
    /\ LET r == NextStep(rec, ev[w])
       IN  Work(w, r.record, r.event, IF r.record.outcome = "retry" THEN Start(r.record.cur) ELSE None)
    /\ UNCHANGED <<rec, queue, timers, runs, provider, upload, history, bounds>>

(* The record moves on before the delay is over.                           *)
Delay(w) ==
    /\ pc[w] = "read" /\ ev[w].kind = "start" /\ rec # None
    /\ LET r == nextStep(rec, PPStepDelay) IN Work(w, r.record, None, r.event)
    /\ UNCHANGED <<rec, queue, timers, runs, provider, upload, history, bounds>>

UploadFailed(w) ==
    /\ pc[w] = "read" /\ ev[w].kind = "ready" /\ ev[w].outcome = "failed" /\ rec # None
    /\ Work(w, [rec EXCEPT !.finished = TRUE], None, None)
    /\ UNCHANGED <<rec, queue, timers, runs, provider, upload, history, bounds>>

UploadDone(w) ==
    /\ pc[w] = "read" /\ ev[w].kind = "ready" /\ ev[w].outcome = "ok"
    /\ rec' = None
    /\ End(w)
    /\ UNCHANGED <<queue, timers, runs, provider, upload, history, bounds>>

Resume(w) ==
    /\ pc[w] = "read" /\ ev[w].kind = "resume"
    /\ IF rec = None THEN Publish(Event("restart", None, None))
       ELSE IF ~rec.finished THEN Publish(CurrentStep(rec))
       ELSE UNCHANGED <<queue, runs, provider>>
    /\ End(w)
    /\ UNCHANGED <<rec, timers, upload, passed, tries, bounds>>

(* Defect: nothing is written.                                             *)
StoreNothing(w) ==
    /\ pc[w] = "store"
    /\ timers' = IF later[w] = None THEN timers ELSE timers (+) SetToBag({later[w]})
    /\ IF next[w] = None THEN End(w) ELSE Goto(w, "publish") /\ UNCHANGED <<ev, pp, next, later>>
    /\ UNCHANGED <<rec, queue, runs, provider, upload, history, bounds>>

(* ... writes it back and publishes.  The goroutines that were begun before*)
(* sleep longer than this takes.                                           *)
Store(w) ==
    /\ pc[w] = "store"
    /\ rec' = pp[w]
    /\ timers' = IF later[w] = None THEN timers ELSE timers (+) SetToBag({later[w]})
    /\ tries' = IF later[w] # None /\ ev[w].outcome = "retry" THEN [tries EXCEPT ![ev[w].step] = @ + 1] ELSE tries
    /\ IF next[w] = None THEN End(w) ELSE Goto(w, "publish") /\ UNCHANGED <<ev, pp, next, later>>
    /\ UNCHANGED <<queue, runs, provider, upload, passed, bounds>>

PublishNext(w) ==
    /\ pc[w] = "publish"
    /\ Publish(next[w])
    /\ End(w)
    /\ UNCHANGED <<rec, timers, upload, passed, tries, bounds>>

TimerFires ==
    \E e \in BagToSet(timers) :
        /\ timers' = timers (-) SetToBag({e})
        /\ Publish(e)
        /\ UNCHANGED <<rec, upload, local, passed, tries, bounds>>

----------------------------------------------------------------------------
(* The other parties                                                       *)

Receive ==
    /\ upload = "receiving"
    /\ upload' = "processing"
    /\ queue' = Append(queue, Event("bytes", None, None))
    /\ UNCHANGED <<rec, timers, runs, provider, local, history, bounds>>

(* A service has done a step.                                              *)
Answer(s, o) ==
    /\ BagIn(s, runs)
    /\ o = "continue" \/ answers < MaxAnswers
    /\ runs' = runs (-) SetToBag({s})
    /\ answers' = IF o = "continue" THEN answers ELSE answers + 1
    /\ passed' = IF o = "continue" THEN passed \cup {s} ELSE passed
    /\ queue' = Append(queue, Event("stepfinished", s, o))
    /\ UNCHANGED <<rec, timers, provider, upload, local, tries, admin, crashes>>

(* The provider publishes, keeps or deletes the file; it starts again for  *)
(* a session that it still has.                                            *)
Provider ==
    /\ provider # <<>>
    /\ provider' = Tail(provider)
    /\ IF upload \notin {"processing", "kept"} THEN UNCHANGED <<upload, queue>>
       ELSE CASE Head(provider).kind = "restart" ->
                   upload' = "processing" /\ queue' = Append(queue, Event("bytes", None, None))
              [] Head(provider).outcome = "continue" ->
                   upload' = "released" /\ queue' = Append(queue, Event("ready", None, "ok"))
              [] Head(provider).outcome = "delete" ->
                   upload' = "deleted" /\ queue' = Append(queue, Event("ready", None, "failed"))
              [] OTHER ->
                   upload' = "kept" /\ queue' = Append(queue, Event("ready", None, "failed"))
    /\ UNCHANGED <<rec, timers, runs, local, history, bounds>>

Quiet ==
    /\ queue = <<>> /\ timers = EmptyBag /\ runs = EmptyBag /\ provider = <<>>
    /\ \A w \in Worker : pc[w] = "idle"

(* ocis postprocessing resume: at any time, or when nothing happens.       *)
AdminResume ==
    /\ upload = "processing"
    /\ admin < MaxAdmin \/ Quiet
    /\ admin' = IF Quiet THEN admin ELSE admin + 1
    /\ queue' = Append(queue, Event("resume", None, None))
    /\ UNCHANGED <<rec, timers, runs, provider, upload, local, history, answers, crashes>>

ResumeHalted == Quiet /\ AdminResume

(* The process dies with the events it has taken from the stream.          *)
Crash ==
    /\ crashes < MaxCrash /\ crashes' = crashes + 1
    /\ \E n \in 0..Len(queue) : queue' = SubSeq(queue, n + 1, Len(queue))
    /\ timers' = EmptyBag
    /\ rec' = IF Persistent THEN rec ELSE None
    /\ pc' = [w \in Worker |-> "idle"] /\ ev' = [w \in Worker |-> None]
    /\ pp' = [w \in Worker |-> None] /\ next' = [w \in Worker |-> None] /\ later' = [w \in Worker |-> None]
    /\ UNCHANGED <<runs, provider, upload, history, answers, admin>>

Init ==
    /\ rec = None /\ queue = <<>> /\ timers = EmptyBag /\ runs = EmptyBag /\ provider = <<>>
    /\ upload = "receiving"
    /\ pc = [w \in Worker |-> "idle"] /\ ev = [w \in Worker |-> None]
    /\ pp = [w \in Worker |-> None] /\ next = [w \in Worker |-> None] /\ later = [w \in Worker |-> None]
    /\ passed = {} /\ tries = [s \in StepNames |-> 0]
    /\ answers = 0 /\ admin = 0 /\ crashes = 0

Step(w) ==
    \/ Take(w) \/ BytesReceived(w) \/ NotFound(w) \/ StepFinished(w) \/ Delay(w)
    \/ UploadFailed(w) \/ UploadDone(w) \/ Resume(w) \/ Store(w) \/ PublishNext(w)

Answered == \E s \in StepNames, o \in Outcomes : Answer(s, o)

Next ==
    \/ \E w \in Worker : Step(w)
    \/ Receive \/ TimerFires \/ Provider \/ AdminResume \/ Crash
    \/ Answered

Spec == Init /\ [][Next]_vars

----------------------------------------------------------------------------
Records == [cur : StepNames \cup {None, PPStepFinished}, outcome : Outcomes \cup {None, "continue", "abort"},
            failures : Nat, finished : BOOLEAN]

(* The record has its fields, in the store and in the hands of workers,    *)
(* and an outcome when it is finished, for a resumption to publish.        *)
TypeOK ==
    /\ rec \in Records \cup {None}
    /\ rec # None => (rec.cur = PPStepFinished => rec.outcome # None)
    /\ \A w \in Worker : pp[w] \in Records \cup {None} /\ (pc[w] = "idle" => ev[w] = None)

(* "When all postprocessing steps have completed successfully, the file    *)
(* will be made accessible": never before, whatever is lost, repeated,     *)
(* resumed or restarted.                                                   *)
ReleasedWhenPassed == upload = "released" => StepNames \ {PPStepDelay} \subseteq passed

(* "limited by the number of retries": no step is retried more often.      *)
RetriesBounded == \A s \in DOMAIN tries : tries[s] <= MaxRetries

(* An upload that is received is released, deleted or kept in the end, if  *)
(* an administrator resumes what has come to a halt.                       *)
Processed == upload = "processing" ~> upload \in {"released", "deleted", "kept"}

(* "the storage provider thinks the upload is done - so no need to keep it *)
(* any more": the record goes.                                             *)
RecordGoes == upload = "released" ~> [](rec = None)
=============================================================================
