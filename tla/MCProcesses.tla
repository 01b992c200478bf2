---------------------------- MODULE MCProcesses ----------------------------
(***************************************************************************)
(* What runs a process of oCIS: the group of runners, the runtime with its *)
(* supervisor, and the registry that services announce themselves in.  The *)
(* first state settles which of them a behaviour is about; the others      *)
(* rest.                                                                   *)
(***************************************************************************)
EXTENDS GroupRunner

VARIABLES
    part,
    phase, group, later, token, told, sup, svc, fails, backoffs, ends, removal, rpc, answered,
    life, event, view, lapsed, run, up, ready, st, cancelled, left, tick, nap, delay, missed, look

runtimevars == <<phase, group, later, token, told, sup, svc, fails, backoffs, ends, removal, rpc, answered>>
registryvars == <<life, event, view, lapsed, run, up, ready, st, cancelled, left, tick, nap, delay, missed, look>>

(* A group whose timer leaves the runners the time to report.              *)
Patient2 == INSTANCE GroupRunner WITH Async <- TRUE, Patient <- TRUE

(* `ocis server` with the context of its caller and with its own.          *)
Given == INSTANCE Runtime WITH
    Chosen <- {}, Added <- {"audit"}, Disabled <- {"web", "frontend"}, OwnContext <- FALSE,
    Tolerance <- 2, Threshold <- 1, MaxEnds <- 1, Signals <- TRUE, todo <- later, ctxDone <- told
Own == INSTANCE Runtime WITH
    Chosen <- {}, Added <- {"audit"}, Disabled <- {"web", "frontend"}, OwnContext <- TRUE,
    Tolerance <- 2, Threshold <- 1, MaxEnds <- 3, Signals <- FALSE, todo <- later, ctxDone <- told

(* Two names of which one is a prefix of the other, in one process; one    *)
(* name in two processes.                                                  *)
Web(p) == [name |-> "web", process |-> p]
Finger(p) == [name |-> "webfinger", process |-> p]
SameVersion == [p \in {"p1", "p2"} |-> "v1"]

Beats == INSTANCE Registry WITH
    Key <- {Web("p1"), Finger("p1")}, VersionOf <- SameVersion, TTL <- 3, Interval <- 2,
    MaxRuns <- 1, MaxDelay <- 4, Lookups <- FALSE, Watching <- TRUE, Faults <- TRUE
Prefix == INSTANCE Registry WITH
    Key <- {Web("p1"), Finger("p1")}, VersionOf <- SameVersion, TTL <- 2, Interval <- 1,
    MaxRuns <- 1, MaxDelay <- 1, Lookups <- TRUE, Watching <- FALSE, Faults <- FALSE
Replicas == INSTANCE Registry WITH
    Key <- {Web("p1"), Web("p2")}, VersionOf <- SameVersion, TTL <- 2, Interval <- 1,
    MaxRuns <- 1, MaxDelay <- 1, Lookups <- TRUE, Watching <- FALSE, Faults <- FALSE

----------------------------------------------------------------------------
Serving == {"given context", "own context"}

ProcessesInit ==
    /\ part \in {"group", "patient group", "given context", "own context", "beats", "prefix", "replicas"}
    /\ Init /\ Given!Init
    /\ IF part = "replicas" THEN Replicas!Init ELSE Beats!Init

ProcessesNext ==
    /\ \/ /\ \/ part = "group" /\ Next
             \/ part = "patient group" /\ Patient2!Next
          /\ UNCHANGED <<runtimevars, registryvars>>
       \/ /\ \/ part = "given context" /\ Given!Next
             \/ part = "own context" /\ Own!Next
          /\ UNCHANGED <<vars, registryvars>>
       \/ /\ \/ part = "beats" /\ Beats!Next
             \/ part = "prefix" /\ Prefix!Next
             \/ part = "replicas" /\ Replicas!Next
          /\ UNCHANGED <<vars, runtimevars>>
    /\ UNCHANGED part

(* The scheduler runs every goroutine and timers fire.  A task need not    *)
(* return, not even after it was stopped; a service stops when its context *)
(* is done, and a retry that is answered comes before the retries are      *)
(* given up.                                                               *)
Fair ==
    /\ WF_vars(part = "group" /\ GroupStep)
    /\ \A r \in Runner : WF_vars(part = "group" /\ RunnerStep(r))
    /\ WF_runtimevars(part \in Serving /\ Given!StartStep) /\ SF_runtimevars(part \in Serving /\ Given!Waited)
    /\ WF_runtimevars(part \in Serving /\ (Given!Serve \/ Given!Resume))
    /\ WF_runtimevars(part \in Serving /\ (Given!Stop \/ Given!Terminate))
    /\ \A s \in Given!RunSet :
          /\ WF_runtimevars(\/ part = "given context" /\ Given!HandleEnd(s)
                            \/ part = "own context" /\ Own!HandleEnd(s))
          /\ WF_runtimevars(part \in Serving /\ told /\ Given!End(s))
    /\ WF_registryvars(part = "beats" /\ Beats!Pass)
    /\ \A g \in Beats!Goroutine : WF_registryvars(part = "beats" /\ (Beats!Probe(g) \/ Beats!Beat(g) \/ Beats!Unregister(g)))
    /\ \A k \in {Web("p1"), Finger("p1")} : WF_registryvars(part = "beats" /\ Beats!WatchNext(k))

ProcessesSpec ==
    ProcessesInit /\ [][ProcessesNext]_<<part, vars, runtimevars, registryvars>> /\ Fair

----------------------------------------------------------------------------
\* The records, watchers and lookups of the registry have their types.
RegistryTypes ==
    CASE part = "replicas" -> Replicas!TypeOK [] part = "prefix" -> Prefix!TypeOK
      [] part = "beats" -> Beats!TypeOK [] OTHER -> TRUE

\* Nats and the gateway answer before what needs them is started (Start).
AnsweredFirst == part \in Serving => Given!AnsweredFirst

\* A ready service stays registered as long as its writes succeed
\* (RegisterService).
StaysRegistered == part = "beats" => Beats!StaysRegistered

\* A watcher knows every record, and beyond them only expired ones (Next).
ViewTrue == part = "beats" => Beats!ViewTrue

\* A lookup answers what was there all the time, nothing of another name and
\* nothing that was never there (GetService).
LookupTrue ==
    /\ part = "prefix" => Prefix!LookupTrue
    /\ part = "replicas" => Replicas!LookupTrue

\* Run returns when there is a reason to stop, and with a result of every
\* runner's own when it has waited long enough (Run).
Returns ==
    /\ [](part = "patient group" => Patient2!GroupSound)
    /\ <>[](part = "group" => Returned)

\* Every chosen service runs in the end, unless the process stops (Start).
AllRun == <>[](part \in Serving => Given!AllRun)

\* A signal ends the process, also while it is starting (trapShutdownCtx).
ShutdownEnds == <>[](part \in Serving => Given!Stopped)

\* With a context of its own, Start gives up when the supervisor has backed off
\* too often (the event hook).
GivesUp == <>[](part = "own context" => Own!GaveUp)

\* Whatever has ended leaves the registry (RegisterService).
Forgotten == <>[](part = "beats" => Beats!Forgotten)

\* Services are started in order, all of them, and stopped all (Start,
\* trapShutdownCtx).
ServicesRun == []((part \in Serving => Own!TypeOK) /\ AnsweredFirst) /\ AllRun /\ ShutdownEnds /\ GivesUp

\* The registry, its watchers and its lookups tell what runs (RegisterService,
\* Next, GetService).
RegistryTrue == [](RegistryTypes /\ StaysRegistered /\ ViewTrue /\ LookupTrue) /\ Forgotten
=============================================================================
