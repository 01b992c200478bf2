------------------------------ MODULE Runtime ------------------------------
(***************************************************************************)
(* ocis/pkg/runtime: `ocis server` starts the services of one process in   *)
(* groups under a supervisor, and stops them when its context is done.     *)
(*                                                                         *)
(* Three kinds of goroutines take part: Start, the supervisor's loop       *)
(* (package suture, external), and the services, whose Serve may return at *)
(* any time.  Start talks to the loop over an unbuffered channel; a send   *)
(* gives up when the supervisor's context, a child of Start's, is done.    *)
(* A timer may fire at any time after it was armed.                        *)
(***************************************************************************)
EXTENDS Naturals, FiniteSets

CONSTANTS
    Chosen,       \* cfg.Runtime.Services; {} stands for nil
    Added,        \* cfg.Runtime.Additional
    Disabled,     \* cfg.Runtime.Disabled
    OwnContext,   \* Start is called with a nil context
    Tolerance,    \* backoffs until Start gives up, 5 in the code
    Threshold,    \* FailureThreshold of the supervisor, 5 in the code
    MaxEnds,      \* bound: how often a service ends by itself
    Signals       \* whether a stop signal may arrive

VARIABLES
    phase,      \* where Start is
    group,      \* the group it is at
    todo,       \* services of the group that it has not scheduled yet
    token,      \* service -> what Add has returned
    ctxDone,    \* the context is done
    sup,        \* the supervisor's state
    svc,        \* service -> progress of its Serve
    fails,      \* the supervisor's count of failures
    backoffs,   \* totalBackoff
    ends,       \* ends so far
    removal,    \* service -> progress of its RemoveAndWait
    rpc,        \* the RPC server listens
    answered    \* groups whose wait function has returned

vars == <<phase, group, todo, token, ctxDone, sup, svc, fails, backoffs, ends,
          removal, rpc, answered>>

startVars == <<phase, group, todo, answered, rpc>>
supVars == <<sup, fails, backoffs>>

----------------------------------------------------------------------------
(* The services. "web" stands for the many of group 3, "audit" for the optional ones; group 2 is empty. *)
Priority == [s \in {"nats", "gateway", "web", "frontend"} |->
    CASE s = "nats" -> 0 [] s = "gateway" -> 1 [] s = "web" -> 3 [] s = "frontend" -> 4]

Optional == {"audit"}
Service == DOMAIN Priority \cup Optional
Last == 5       \* s.Additional is scheduled after the groups 0 to 4

GroupOf(g) == IF g = Last THEN Optional ELSE {s \in DOMAIN Priority : Priority[s] = g}

RunSet == IF Chosen # {} THEN Chosen \cap Service
          ELSE (DOMAIN Priority \cup (Added \cap Service)) \ Disabled

(* A group that is left out because it runs elsewhere answers from there. *)
Answers(g) == \A s \in GroupOf(g) \cap RunSet : svc[s] = "running"

TypeOK ==
    /\ phase \in {"schedule", "wait", "trap", "removing", "returned", "fatal"}
    /\ group \in 0 .. Last /\ todo \subseteq Service
    /\ token \in [Service -> {"none", "valid", "zero"}]
    /\ ctxDone \in BOOLEAN /\ rpc \in BOOLEAN
    /\ sup \in {"notRunning", "normal", "paused", "stopping", "terminated"}
    /\ svc \in [Service -> {"none", "queued", "running", "ended", "stopped"}]
    /\ fails \in 0 .. Threshold + MaxEnds /\ backoffs \in 0 .. MaxEnds /\ ends \in 0 .. MaxEnds
    /\ removal \in [Service -> {"none", "calling", "sent", "returned"}]
    /\ answered \subseteq 0 .. Last

Init ==
    /\ phase = "schedule" /\ group = 0 /\ todo = GroupOf(0) \cap RunSet
    /\ token = [s \in Service |-> "none"]
    /\ ctxDone = FALSE /\ rpc = FALSE
    /\ sup = "notRunning"
    /\ svc = [s \in Service |-> "none"]
    /\ fails = 0 /\ backoffs = 0 /\ ends = 0
    /\ removal = [s \in Service |-> "none"]
    /\ answered = {}

Ended == phase \in {"returned", "fatal"}
Loop == sup \in {"normal", "paused"}    \* the supervisor's loop takes messages

----------------------------------------------------------------------------
(* Start *)

(* Supervisor.Add: before Serve the service is queued; later the loop runs it, unless the send gives up. *)
Add(s) ==
    \/ /\ sup = "notRunning"
       /\ svc' = [svc EXCEPT ![s] = "queued"]
       /\ token' = [token EXCEPT ![s] = "valid"]
    \/ /\ Loop
       /\ svc' = [svc EXCEPT ![s] = "running"]
       /\ token' = [token EXCEPT ![s] = "valid"]
    \/ /\ sup # "notRunning" /\ ctxDone
       /\ token' = [token EXCEPT ![s] = "zero"]
       /\ UNCHANGED svc

Schedule(s) ==
    /\ phase = "schedule" /\ s \in todo
    /\ Add(s)
    /\ todo' = todo \ {s}
    /\ UNCHANGED <<phase, group, answered, rpc, ctxDone, supVars, ends, removal>>

Enter(g) == /\ phase' = "schedule" /\ group' = g /\ todo' = GroupOf(g) \cap RunSet /\ UNCHANGED rpc

(* Goes on to the next group, and after the last starts the RPC server and waits for the context. *)
Advance ==
    IF group = Last THEN phase' = "trap" /\ rpc' = TRUE /\ UNCHANGED <<group, todo>>
    ELSE Enter(group + 1)

Scheduled ==
    /\ phase = "schedule" /\ todo = {}
    /\ IF group \in {0, 1, 3} THEN phase' = "wait" /\ UNCHANGED <<group, todo, rpc>> ELSE Advance
    /\ UNCHANGED <<token, ctxDone, supVars, svc, ends, removal, answered>>

(* pingNats and pingGateway retry until they are answered; the wait after group 3 is a sleep. *)
Waited ==
    /\ phase = "wait"
    /\ group = 3 \/ Answers(group)
    /\ answered' = answered \cup {group}
    /\ Advance
    /\ UNCHANGED <<token, ctxDone, supVars, svc, ends, removal>>

(* The retries are given up in the end. *)
WaitFailed ==
    /\ phase = "wait" /\ group # 3 /\ ~Answers(group)
    /\ phase' = "fatal"
    /\ UNCHANGED <<group, todo, token, ctxDone, supVars, svc, ends, removal, rpc, answered>>

(* Mutant: only a context that Start made itself is waited for. *)
TrapShutdownOwn ==
    /\ phase = "trap" /\ ctxDone /\ OwnContext
    /\ phase' = "removing"
    /\ removal' = [s \in Service |-> IF token[s] = "none" THEN "none" ELSE "calling"]
    /\ UNCHANGED <<group, todo, token, ctxDone, supVars, svc, ends, rpc, answered>>

TrapShutdown ==
    /\ phase = "trap" /\ ctxDone
    /\ phase' = "removing"
    /\ removal' = [s \in Service |-> IF token[s] = "none" THEN "none" ELSE "calling"]
    /\ UNCHANGED <<group, todo, token, ctxDone, supVars, svc, ends, rpc, answered>>

ShutdownRPC ==
    /\ phase = "removing" /\ rpc
    /\ rpc' = FALSE
    /\ UNCHANGED <<phase, group, todo, token, ctxDone, supVars, svc, ends, removal, answered>>

(* RemoveAndWait: a zero token is refused; the loop takes the message or the send gives up. *)
RemoveSend(s) ==
    /\ phase = "removing" /\ removal[s] = "calling"
    /\ \/ /\ token[s] = "valid" /\ Loop
          /\ removal' = [removal EXCEPT ![s] = "sent"]
       \/ /\ token[s] = "zero" \/ ctxDone \/ sup = "notRunning"
          /\ removal' = [removal EXCEPT ![s] = "returned"]
    /\ UNCHANGED <<phase, group, todo, token, ctxDone, supVars, svc, ends, rpc, answered>>

(* It then waits for the service or for the supervisor's context. *)
RemoveReturn(s) ==
    /\ removal[s] = "sent" /\ phase = "removing"
    /\ svc[s] \notin {"running", "ended"} \/ ctxDone
    /\ removal' = [removal EXCEPT ![s] = "returned"]
    /\ UNCHANGED <<phase, group, todo, token, ctxDone, supVars, svc, ends, rpc, answered>>

AllReturned == ~rpc /\ \A s \in Service : removal[s] \in {"none", "returned"}

ShutdownDone ==
    /\ phase = "removing" /\ AllReturned
    /\ phase' = "returned"
    /\ UNCHANGED <<group, todo, token, ctxDone, supVars, svc, ends, removal, rpc, answered>>


ShutdownTimeout ==
    /\ phase = "removing" /\ ~AllReturned
    /\ phase' = "fatal"
    /\ UNCHANGED <<group, todo, token, ctxDone, supVars, svc, ends, removal, rpc, answered>>

----------------------------------------------------------------------------
(* The supervisor (external) and the services *)

Signal ==
    /\ Signals /\ ~ctxDone /\ ~Ended
    /\ ctxDone' = TRUE
    /\ UNCHANGED <<startVars, token, supVars, svc, ends, removal>>

RunQueued == svc' = [s \in Service |-> IF svc[s] = "queued" THEN "running" ELSE svc[s]]

Serve ==
    /\ sup = "notRunning" /\ ~Ended
    /\ sup' = "normal"
    /\ RunQueued
    /\ UNCHANGED <<startVars, token, ctxDone, fails, backoffs, ends, removal>>

(* The Serve of a service returns: by itself, or because its context is done. *)
End(s) ==
    /\ svc[s] = "running" /\ ~Ended
    /\ svc' = [svc EXCEPT ![s] = "ended"]
    /\ IF ctxDone THEN UNCHANGED ends ELSE ends < MaxEnds /\ ends' = ends + 1
    /\ UNCHANGED <<startVars, token, ctxDone, supVars, removal>>

(* The hook that Start gives the supervisor; without a context of its own, cancel does nothing. *)
EventBackoff ==
    /\ backoffs' = backoffs + 1
    /\ ctxDone' = (ctxDone \/ (OwnContext /\ backoffs' = Tolerance))

(* The loop hears of an end: n is the count of failures, older ones decayed. *)
HandleEnd(s) ==
    /\ Loop /\ svc[s] = "ended" /\ ~Ended
    /\ IF ctxDone
       THEN svc' = [svc EXCEPT ![s] = "stopped"] /\ UNCHANGED <<supVars, ctxDone>>
       ELSE \E n \in 1 .. fails + 1 :
               /\ fails' = n
               /\ IF n > Threshold
                  THEN /\ sup' = "paused"
                       /\ svc' = [svc EXCEPT ![s] = "queued"]
                       /\ EventBackoff
                  ELSE /\ svc' = [svc EXCEPT ![s] = IF sup = "normal" THEN "running" ELSE "queued"]
                       /\ UNCHANGED <<sup, backoffs, ctxDone>>
    /\ UNCHANGED <<startVars, token, ends, removal>>

Resume ==
    /\ sup = "paused" /\ ~Ended
    /\ sup' = "normal" /\ fails' = 0
    /\ RunQueued
    /\ UNCHANGED <<startVars, token, ctxDone, backoffs, ends, removal>>

Stop ==
    /\ Loop /\ ctxDone /\ ~Ended
    /\ sup' = "stopping"
    /\ svc' = [s \in Service |-> IF svc[s] = "queued" THEN "stopped" ELSE svc[s]]
    /\ UNCHANGED <<startVars, token, ctxDone, fails, backoffs, ends, removal>>

Terminate ==
    /\ sup = "stopping" /\ ~Ended
    /\ sup' = "terminated"
    /\ UNCHANGED <<startVars, token, ctxDone, fails, backoffs, svc, ends, removal>>

----------------------------------------------------------------------------
StartStep ==
    \/ \E s \in Service : Schedule(s) \/ RemoveSend(s) \/ RemoveReturn(s)
    \/ Scheduled \/ Waited \/ WaitFailed \/ TrapShutdown \/ ShutdownRPC
    \/ ShutdownDone \/ ShutdownTimeout

Next ==
    \/ StartStep
    \/ Signal \/ Serve \/ Resume \/ Stop \/ Terminate
    \/ \E s \in Service : End(s) \/ HandleEnd(s)

Spec == Init /\ [][Next]_vars

----------------------------------------------------------------------------
(* What the runtime has to guarantee *)

(* Nats and the gateway answer before any service that needs them is handed to the supervisor (the order of the groups and the wait functions in Start). *)
AnsweredFirst ==
    \A s \in Service : token[s] # "none" =>
        \A g \in {0, 1} : s \notin UNION {GroupOf(i) : i \in 0 .. g} => g \in answered

(* Every service of the run set runs, or there is a reason why not: what holds in the end, whatever ends and backoffs came before (Start's loop over the groups, and Add racing the supervisor's start). *)
AllRun == \A s \in RunSet : svc[s] = "running" \/ ctxDone \/ Ended

(* The process has ended once it was told to stop, also while the groups were being started: what holds in the end (trapShutdownCtx). *)
Stopped == ctxDone => Ended

(* It has ended once the supervisor has backed off as often as Start tolerates (the event hook of Start). *)
GaveUp == backoffs >= Tolerance => Ended
=============================================================================
