------------------------------ MODULE Registry ------------------------------
(***************************************************************************)
(* ocis-pkg/registry and ocis-pkg/natsjsregistry: services announce where  *)
(* they listen in a key-value bucket shared by all processes.              *)
(*                                                                         *)
(* RegisterService writes a record that expires, and starts a goroutine    *)
(* that waits until the service is ready, then writes the record again at  *)
(* every tick and deletes it when the service's context is done.  The key  *)
(* of a record names the service, the process and the version: a service   *)
(* that its supervisor restarts in the same process has the same key.      *)
(*                                                                         *)
(* Time passes in units; what is due is done before the next one.  The     *)
(* bucket is external: a record expires without an event, puts and deletes *)
(* reach a watcher in order, where the last one of a key stands for those  *)
(* before it.                                                              *)
(***************************************************************************)
EXTENDS Naturals, Sequences, SequencesExt, FiniteSets

CONSTANTS
    Key,          \* records [name, process] that can be written
    VersionOf,    \* process -> version of its services
    TTL,          \* GetRegisterTTL, 30 s in the code
    Interval,     \* GetRegisterInterval, 25 s in the code
    MaxRuns,      \* bound: how often a service is started in one process
    MaxDelay,     \* bound: longest pause between two readiness probes
    Lookups,      \* a lookup is made
    Watching,     \* a watcher is there
    Faults        \* writes to the bucket may fail

VARIABLES
    life,       \* Key -> units until the record expires, 0 without a record
    event,      \* Key -> the event on its way to the watcher
    view,       \* nodes that the watcher's results leave
    lapsed,     \* keys whose last record expired (history)
    run,        \* Key -> starts of the service so far
    up,         \* Key -> the service of the last start is running
    ready,      \* keys whose debug server answers that the service is ready
    st,         \* goroutine -> its progress
    cancelled,  \* goroutines whose context is done
    left,       \* goroutine -> units until its ticker ticks
    tick,       \* goroutines with a tick in their channel
    nap,        \* goroutine -> units until its next probe
    delay,      \* goroutine -> pause after that probe
    missed,     \* goroutines whose last write failed (history)
    look        \* the lookup

recVars == <<life, event, lapsed>>
goVars == <<st, left, tick, nap, delay, missed>>
svcVars == <<run, up, ready, cancelled>>
vars == <<recVars, view, svcVars, goVars, look>>

Goroutine == Key \X (1 .. MaxRuns)
Names == {k.name : k \in Key}
AllNames == "*"

NoLookup == [st |-> "idle", of |-> AllNames, todo |-> {}, read |-> <<>>, always |-> {}, ever |-> {}]

TypeOK ==
    /\ life \in [Key -> 0 .. TTL]
    /\ event \in [Key -> {"none", "create", "delete"}]
    /\ view \subseteq Key /\ lapsed \subseteq Key /\ ready \subseteq Key
    /\ run \in [Key -> 0 .. MaxRuns] /\ up \in [Key -> BOOLEAN]
    /\ st \in [Goroutine -> {"none", "probing", "beating", "ended"}]
    /\ cancelled \subseteq Goroutine /\ tick \subseteq Goroutine /\ missed \subseteq Goroutine
    /\ left \in [Goroutine -> 0 .. Interval]
    /\ nap \in [Goroutine -> 0 .. MaxDelay] /\ delay \in [Goroutine -> 1 .. MaxDelay]
    /\ look.todo \subseteq Key /\ look.always \subseteq look.ever

Init ==
    /\ life = [k \in Key |-> 0] /\ event = [k \in Key |-> "none"] /\ view = {} /\ lapsed = {}
    /\ run = [k \in Key |-> 0] /\ up = [k \in Key |-> FALSE] /\ ready = {}
    /\ st = [g \in Goroutine |-> "none"] /\ cancelled = {} /\ tick = {} /\ missed = {}
    /\ left = [g \in Goroutine |-> 0]
    /\ nap = [g \in Goroutine |-> 0] /\ delay = [g \in Goroutine |-> 1]
    /\ look = NoLookup

----------------------------------------------------------------------------
(* The records *)

(* Register: writes the record with a fresh time to live. *)
Put(k) ==
    /\ life' = [life EXCEPT ![k] = TTL]
    /\ event' = [event EXCEPT ![k] = IF Watching THEN "create" ELSE "none"]
    /\ lapsed' = lapsed \ {k}
    /\ look' = [look EXCEPT !.ever = IF look.st = "reading" THEN @ \cup {k} ELSE @]

(* Deregister: deletes the record, which is no error when there is none. *)
Del(k) ==
    /\ life' = [life EXCEPT ![k] = 0]
    /\ event' = [event EXCEPT ![k] = IF Watching THEN "delete" ELSE "none"]
    /\ lapsed' = lapsed \ {k}
    /\ look' = [look EXCEPT !.always = @ \ {k}]

(* A process ends: its goroutines with it. *)
Exit(p) ==
    /\ st' = [g \in Goroutine |-> IF g[1].process = p THEN "ended" ELSE st[g]]
    /\ up' = [k \in Key |-> up[k] /\ k.process # p]
    /\ run' = [k \in Key |-> IF k.process = p THEN MaxRuns ELSE run[k]]
    /\ ready' = {k \in ready : k.process # p}

(* The first write of RegisterService; the process exits when it fails. *)
Start(k) ==
    LET g == <<k, run[k] + 1>>
    IN /\ run[k] < MaxRuns /\ ~up[k]
       /\ run' = [run EXCEPT ![k] = @ + 1]
       /\ up' = [up EXCEPT ![k] = TRUE]
       /\ Put(k)
       /\ st' = [st EXCEPT ![g] = "probing"]
       /\ left' = [left EXCEPT ![g] = Interval]
       /\ UNCHANGED <<view, ready, cancelled, tick, nap, delay, missed>>

StartFails(k) ==
    /\ Faults /\ run[k] < MaxRuns /\ ~up[k]
    /\ Exit(k.process)
    /\ UNCHANGED <<recVars, view, cancelled, left, tick, nap, delay, missed, look>>

Crash(p) ==
    /\ Faults /\ \E k \in Key : k.process = p /\ up[k]
    /\ Exit(p)
    /\ UNCHANGED <<recVars, view, cancelled, left, tick, nap, delay, missed, look>>

Ready(k) ==
    /\ up[k] /\ k \notin ready
    /\ ready' = ready \cup {k}
    /\ UNCHANGED <<recVars, view, run, up, cancelled, goVars, look>>

(* The service ends, or is stopped: its context is done. *)
Cancel(k) ==
    /\ up[k]
    /\ up' = [up EXCEPT ![k] = FALSE]
    /\ ready' = ready \ {k}
    /\ cancelled' = cancelled \cup {<<k, run[k]>>}
    /\ UNCHANGED <<recVars, view, run, goVars, look>>

(* The goroutine asks the debug server; the context is not looked at. *)
Probe(g) ==
    /\ st[g] = "probing" /\ nap[g] = 0
    /\ IF g[1] \in ready
       THEN st' = [st EXCEPT ![g] = "beating"] /\ UNCHANGED <<nap, delay>>
       ELSE /\ nap' = [nap EXCEPT ![g] = delay[g]]
            /\ delay' = [delay EXCEPT ![g] = IF 2 * @ > MaxDelay THEN MaxDelay ELSE 2 * @]
            /\ UNCHANGED st
    /\ UNCHANGED <<recVars, view, svcVars, left, tick, missed, look>>

(* A tick: the record is written again; a failure is logged. *)
Beat(g) ==
    /\ st[g] = "beating" /\ g \in tick
    /\ tick' = tick \ {g}
    /\ \/ Put(g[1]) /\ missed' = missed \ {g}
       \/ Faults /\ missed' = missed \cup {g} /\ UNCHANGED <<recVars, look>>
    /\ UNCHANGED <<view, svcVars, st, left, nap, delay>>

(* The context is done: the ticker is stopped and the record deleted; a failure is logged. *)
Unregister(g) ==
    /\ st[g] = "beating" /\ g \in cancelled
    /\ st' = [st EXCEPT ![g] = "ended"]
    /\ tick' = tick \ {g}
    /\ \/ Del(g[1])
       \/ Faults /\ UNCHANGED <<recVars, look>>
    /\ UNCHANGED <<view, svcVars, left, nap, delay, missed>>

----------------------------------------------------------------------------
(* Watcher.Next: of a deleted record only the key is left, and the node's id is made from it. *)
NodeOf(k) == k

NodeOfKey(k) == [name |-> k.name, process |-> k.process]

WatchNext(k) ==
    /\ event[k] # "none"
    /\ event' = [event EXCEPT ![k] = "none"]
    /\ view' = IF event[k] = "create" THEN view \cup {NodeOf(k)} ELSE view \ {NodeOfKey(k)}
    /\ UNCHANGED <<life, lapsed, svcVars, goVars, look>>

----------------------------------------------------------------------------
(* Lookups: listServices lists the keys and then reads them one by one. *)

(* The delimiter follows the name, so that web does not list webfinger. *)
Matches(k, n) == n = AllNames \/ k.name = n

List(n) ==
    /\ look.st = "idle" /\ Lookups
    /\ LET keys == {k \in Key : life[k] > 0 /\ Matches(k, n)}
       IN look' = [st |-> "reading", of |-> n, todo |-> keys, read |-> <<>>, always |-> keys, ever |-> keys]
    /\ UNCHANGED <<recVars, view, svcVars, goVars>>

(* getNode: a record that is gone by now fails the whole lookup. *)
GetNode(k) ==
    /\ look.st = "reading" /\ k \in look.todo
    /\ look' = IF life[k] > 0
               THEN [look EXCEPT !.todo = @ \ {k}, !.read = Append(@, k)]
               ELSE [look EXCEPT !.st = "failed"]
    /\ UNCHANGED <<recVars, view, svcVars, goVars>>

(* Mutant: a further record of a version replaces the nodes of the first. *)
AnswerReplaced ==
    {LET same == SelectSeq(look.read, LAMBDA k : VersionOf[k.process] = v)
     IN [name |-> Head(same).name, version |-> v, nodes |-> {NodeOf(Last(same))}]
       : v \in {VersionOf[k.process] : k \in ToSet(look.read)}}

(* One service per version, with the nodes of all records of that version. *)
Answer ==
    {LET same == SelectSeq(look.read, LAMBDA k : VersionOf[k.process] = v)
     IN [name |-> Head(same).name, version |-> v, nodes |-> {NodeOf(k) : k \in ToSet(same)}]
       : v \in {VersionOf[k.process] : k \in ToSet(look.read)}}

ListDone ==
    /\ look.st = "reading" /\ look.todo = {}
    /\ look' = [look EXCEPT !.st = "answered"]
    /\ UNCHANGED <<recVars, view, svcVars, goVars>>

----------------------------------------------------------------------------
(* Time *)

Live(g) == st[g] \in {"probing", "beating"}

Due ==
    \/ \E g \in Goroutine : \/ st[g] = "probing" /\ nap[g] = 0
                            \/ st[g] = "beating" /\ (g \in tick \/ g \in cancelled)
    \/ \E k \in Key : event[k] # "none"

(* Records get older and tickers tick: a tick that finds the last one in the channel is dropped. *)
Pass ==
    /\ ~Due
    /\ life' = [k \in Key |-> IF life[k] = 0 THEN 0 ELSE life[k] - 1]
    /\ lapsed' = lapsed \cup {k \in Key : life[k] = 1}
    /\ look' = [look EXCEPT !.always = {k \in @ : life[k] > 1}]
    /\ left' = [g \in Goroutine |-> IF ~Live(g) THEN left[g] ELSE IF left[g] = 1 THEN Interval ELSE left[g] - 1]
    /\ tick' = tick \cup {g \in Goroutine : Live(g) /\ left[g] = 1}
    /\ nap' = [g \in Goroutine |-> IF Live(g) /\ nap[g] > 0 THEN nap[g] - 1 ELSE nap[g]]
    /\ UNCHANGED <<event, view, svcVars, st, delay, missed>>

Next ==
    \/ \E k \in Key : \/ Start(k) \/ StartFails(k) \/ Ready(k) \/ Cancel(k)
                      \/ WatchNext(k) \/ GetNode(k)
    \/ \E p \in {k.process : k \in Key} : Crash(p)
    \/ \E g \in Goroutine : Probe(g) \/ Beat(g) \/ Unregister(g)
    \/ \E n \in Names \cup {AllNames} : List(n)
    \/ ListDone
    \/ Pass

Spec == Init /\ [][Next]_vars

----------------------------------------------------------------------------
(* What the registry has to guarantee *)

(* A running service that has been found ready stays in the registry: as long as its writes succeed, its record is there or is about to be written again, also when it took longer than a time to live to become ready (RegisterService, the ticker and the TTL). *)
StaysRegistered ==
    \A k \in Key : LET g == <<k, run[k]>> IN
        (up[k] /\ st[g] = "beating" /\ g \notin missed) => (life[k] > 0 \/ g \in tick)

(* A service that has ended, in whatever way, has left the registry: what holds in the end (Deregister, or the TTL after a crash or a failed call). *)
Forgotten == \A k \in Key : up[k] \/ life[k] = 0

(* A watcher that has heard all events knows every record there is, and beyond them only nodes whose record expired, of which there is no event (Watcher.Next). *)
ViewTrue ==
    \A k \in Key : event[k] = "none" =>
        (life[k] > 0 => NodeOf(k) \in view) /\ (NodeOf(k) \in view => life[k] > 0 \/ k \in lapsed)

(* A lookup by name answers all records of the name that were there all the time, none of another name and none that was not there at any time; it fails only when a record went away meanwhile (GetService and listServices). *)
LookupTrue ==
    /\ (look.st = "answered" /\ look.of # AllNames) =>
          LET nodes == UNION {s.nodes : s \in Answer}
          IN /\ look.always \subseteq nodes /\ nodes \subseteq look.ever
             /\ \A s \in Answer, k \in nodes : s.name = look.of /\ k.name = look.of
    /\ look.st = "failed" => look.todo \ look.always # {}
=============================================================================
