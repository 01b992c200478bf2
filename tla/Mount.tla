-------------------------------- MODULE Mount --------------------------------
(***************************************************************************)
(* The mount lease of remoteposix (reconnect.go): several provider         *)
(* processes serve one remote directory.  Every request takes a shared     *)
(* lock on mount.lock (enter); a provider whose root handle is stale takes *)
(* it exclusively, opens the configured path again and raises a persisted  *)
(* generation, which makes all others open it again too (reopen).  Each    *)
(* provider has a monitor (maintain) and requests that may enter again     *)
(* while they already have a lease.                                        *)
(*                                                                         *)
(* The two numbers of the code, the persisted mount_generation and the     *)
(* field generation of a store, are only compared for equality, and the    *)
(* persisted one only grows.  `current' holds those whose copy equals the  *)
(* persisted one: providers, and monitors with the local variable of       *)
(* reopen.                                                                 *)
(***************************************************************************)
EXTENDS Naturals

CONSTANTS
    Provider,   \* processes that serve the same root and state directory
    Instance,   \* directories that can appear at the configured path
    Foreign,    \* those of them that have another identity, or none
    None,       \* nothing there; no handle
    Watch,      \* the providers that poll for external changes
    MaxNest,    \* leases one request may have, one inside the other
    MaxChange,  \* bound on changes of what is mounted
    MaxStop,    \* bound on crashes, shutdowns and database errors
    Overlap     \* may passes of two monitors overlap (they are short, and
                \* begin a second or more apart, so mostly they do not)

ASSUME ConstantAssumption ==
    /\ None \notin Instance
    /\ Provider \cap (Provider \X {"monitor", "request"}) = {}
    /\ Foreign \subseteq Instance /\ Watch \subseteq Provider
    /\ MaxNest \in Nat \ {0} /\ MaxChange \in Nat /\ MaxStop \in Nat
    /\ Overlap \in BOOLEAN

VARIABLES
    mount,      \* what is at the configured path
    root,       \* the root handle of each provider (store.root)
    current,    \* who has the persisted generation
    offline,    \* store.offline
    status,     \* of each provider: "open", "closing", "down", "starting"
    recovering, \* the variable of maintain
    pc,         \* where in enter, reopen, maintain or openStore a thread is
    leases,     \* how many leases each thread has
    was,        \* maintain's wasOffline
    candidate,  \* reopen's
    intents,    \* is there a pending intent
    changes,    \* changes of the mount so far
    stops       \* crashes, shutdowns and database errors so far

vars == <<mount, root, current, offline, status, recovering, pc, leases, was, candidate, intents, changes, stops>>

local == <<leases, was, candidate>>

Thread == Provider \X {"monitor", "request"}
Monitor(p) == <<p, "monitor">>
Of(t) == t[1]
IsMonitor(t) == t[2] = "monitor"

EnterPc == {"rlock", "check"}
ReopenPc == {"lock", "open", "verify", "generation", "adopt"}
BootPc == {"bootopen", "boothealth"}
Pc == {"idle", "probe", "reopen", "online", "recover"} \cup EnterPc \cup ReopenPc \cup BootPc
Goto(t, l) == pc' = [pc EXCEPT ![t] = l]

(* Mutant: enter gives the file lock back when it returns.                 *)
SharesWhileEntering(t) == pc[t] \in EnterPc \cup BootPc

(* The file lock mount.lock, never waited for.                             *)
Shares(t) == leases[t] > 0 \/ pc[t] \in EnterPc \cup BootPc
Excludes(t) == pc[t] \in ReopenPc
SharedFree == \A t \in Thread : ~Excludes(t)

(* flock LOCK_EX: no other holder of either kind.                          *)
ExclusiveFree == \A t \in Thread : ~Shares(t) /\ ~Excludes(t)

(* rootMu, a sync.RWMutex of each provider: a waiting writer stops readers *)
Reading(t) == leases[t] > 0 \/ pc[t] = "check"
ReadFree(p) == pc[Monitor(p)] \notin ReopenPc
WriteFree(p) == \A t \in Thread : Of(t) = p => ~Reading(t)

(* Does the handle of p still refer to the configured path (healthy), and  *)
(* is this the right file system.                                          *)
Valid(i) == i \in Instance \ Foreign
Healthy(p) == Valid(mount) /\ mount = root[p]

----------------------------------------------------------------------------
(* enter: by a request, maybe one that has a lease, or by the probe.       *)

Admitted(t) == status[Of(t)] = "open"

Enter(t) ==
    /\ Admitted(t)
    /\ IF IsMonitor(t) THEN pc[t] = "probe"
       ELSE pc[t] = "idle" /\ leases[t] < MaxNest
    /\ SharedFree
    /\ Goto(t, "rlock")
    /\ UNCHANGED <<local, mount, root, current, offline, status, recovering, intents, changes, stops>>

(* The gate is held by a reopen: an error, and offline is not set.  A      *)
(* request just fails; the probe goes on to reopen.                        *)
EnterBusy(t) ==
    /\ IsMonitor(t) /\ pc[t] = "probe"
    /\ ~SharedFree
    /\ Goto(t, "reopen")
    /\ UNCHANGED <<local, mount, root, current, offline, status, recovering, intents, changes, stops>>

RLock(t) ==
    /\ pc[t] = "rlock"
    /\ ReadFree(Of(t))
    /\ Goto(t, "check")
    /\ UNCHANGED <<local, mount, root, current, offline, status, recovering, intents, changes, stops>>

(* The probe gives its lease back at once.                                 *)
EnterOK(t) ==
    /\ pc[t] = "check"
    /\ Of(t) \in current /\ Healthy(Of(t))
    /\ Goto(t, IF IsMonitor(t) THEN "online" ELSE "idle")
    /\ leases' = [leases EXCEPT ![t] = IF IsMonitor(t) THEN 0 ELSE @ + 1]
    /\ UNCHANGED <<was, candidate, mount, root, current, offline, status, recovering, intents, changes, stops>>

EnterFails(t) ==
    /\ pc[t] = "check"
    /\ ~(Of(t) \in current /\ Healthy(Of(t)))
    /\ offline' = [offline EXCEPT ![Of(t)] = TRUE]
    /\ Goto(t, IF IsMonitor(t) THEN "reopen" ELSE "idle")
    /\ UNCHANGED <<local, mount, root, current, status, recovering, intents, changes, stops>>

Leave(t) ==
    /\ ~IsMonitor(t) /\ pc[t] = "idle" /\ leases[t] > 0
    /\ leases' = [leases EXCEPT ![t] = @ - 1]
    /\ UNCHANGED <<pc, was, candidate, mount, root, current, offline, status, recovering, intents, changes, stops>>

(* The mount is lost under a request between its intent and its commit.    *)
RequestInterrupted(t) ==
    /\ ~IsMonitor(t) /\ pc[t] = "idle" /\ leases[t] > 0
    /\ mount # root[Of(t)]
    /\ leases' = [leases EXCEPT ![t] = 0]
    /\ intents' = TRUE
    /\ UNCHANGED <<pc, was, candidate, mount, root, current, offline, status, recovering, changes, stops>>

----------------------------------------------------------------------------
(* The probe of maintain and reopen.                                       *)

Probe(t) ==
    /\ IsMonitor(t) /\ pc[t] = "idle" /\ Admitted(t)
    /\ Overlap \/ \A q \in Provider : pc[Monitor(q)] = "idle"
    /\ Goto(t, "probe")
    /\ was' = [was EXCEPT ![t] = offline[Of(t)]]
    /\ UNCHANGED <<leases, candidate, mount, root, current, offline, status, recovering, intents, changes, stops>>

(* reopen returns an error: the monitor notes it and tries again later.    *)
Defer(t) ==
    /\ Goto(t, "idle")
    /\ was' = [was EXCEPT ![t] = FALSE]
    /\ candidate' = [candidate EXCEPT ![t] = None]
    /\ offline' = [offline EXCEPT ![Of(t)] = TRUE]
    /\ UNCHANGED <<leases, mount, root, status, recovering, intents, changes>>

(* The gate is taken before rootMu.                                        *)
Reopen(t) ==
    /\ pc[t] = "reopen"
    /\ \/ /\ ExclusiveFree
          /\ Goto(t, "lock")
          /\ UNCHANGED <<local, mount, root, current, offline, status, recovering, intents, changes, stops>>
       \/ /\ ~ExclusiveFree
          /\ Defer(t)
          /\ UNCHANGED <<current, stops>>

Lock(t) ==
    /\ pc[t] = "lock"
    /\ WriteFree(Of(t))
    /\ Goto(t, "open")
    /\ UNCHANGED <<local, mount, root, current, offline, status, recovering, intents, changes, stops>>

OpenCandidate(t) ==
    /\ pc[t] = "open"
    /\ \/ /\ Valid(mount)
          /\ Goto(t, "verify")
          /\ candidate' = [candidate EXCEPT ![t] = mount]
          /\ UNCHANGED <<leases, was, mount, root, current, offline, status, recovering, intents, changes, stops>>
       \/ /\ ~Valid(mount)
          /\ Defer(t)
          /\ UNCHANGED <<current, stops>>

(* Open the path once more and compare.                                    *)
Verify(t) ==
    /\ pc[t] = "verify"
    /\ \/ /\ mount = candidate[t]
          /\ Goto(t, "generation")
          /\ UNCHANGED <<local, mount, root, current, offline, status, recovering, intents, changes, stops>>
       \/ /\ mount # candidate[t]
          /\ Defer(t)
          /\ UNCHANGED <<current, stops>>

(* Raise the generation, unless another provider has done so already.      *)
Generation(t) ==
    /\ pc[t] = "generation"
    /\ current' = IF Of(t) \in current THEN {t} ELSE current \cup {t}
    /\ Goto(t, "adopt")
    /\ UNCHANGED <<local, mount, root, offline, status, recovering, intents, changes, stops>>

GenerationFails(t) ==
    /\ pc[t] = "generation" /\ stops < MaxStop
    /\ Defer(t)
    /\ stops' = stops + 1
    /\ UNCHANGED current

Adopt(t) ==
    /\ pc[t] = "adopt"
    /\ root' = [root EXCEPT ![Of(t)] = candidate[t]]
    /\ current' = (IF t \in current THEN current \cup {Of(t)} ELSE current \ {Of(t)}) \ {t}
    /\ offline' = [offline EXCEPT ![Of(t)] = FALSE]
    /\ Goto(t, "online")
    /\ was' = [was EXCEPT ![t] = TRUE]
    /\ candidate' = [candidate EXCEPT ![t] = None]
    /\ UNCHANGED <<leases, mount, status, recovering, intents, changes, stops>>

(* The probe or reopen succeeded.                                          *)
Online(t) ==
    /\ pc[t] = "online"
    /\ offline' = [offline EXCEPT ![Of(t)] = FALSE]
    /\ recovering' = [recovering EXCEPT ![Of(t)] = @ \/ was[t]]
    /\ Goto(t, IF recovering'[Of(t)] THEN "recover" ELSE "idle")
    /\ was' = [was EXCEPT ![t] = FALSE]
    /\ UNCHANGED <<leases, candidate, mount, root, current, status, intents, changes, stops>>

(* recover: every intent is finished, unless enter fails for one of them.  *)
Recovers(p) == intents => p \in current /\ Healthy(p) /\ SharedFree
AfterRecover(p) ==
    /\ intents' = (intents /\ ~Recovers(p))
    /\ offline' = [offline EXCEPT ![p] = @ \/ (~Recovers(p) /\ SharedFree)]

Recover(t) ==
    /\ pc[t] = "recover"
    /\ AfterRecover(Of(t))
    /\ recovering' = [recovering EXCEPT ![Of(t)] = ~Recovers(Of(t))]
    /\ Goto(t, "idle")
    /\ UNCHANGED <<local, mount, root, current, status, changes, stops>>

(* Mutant: the tick scans without recovering first.                        *)
TickWithoutRecover(t) ==
    /\ IsMonitor(t) /\ Of(t) \in Watch /\ pc[t] = "idle" /\ Admitted(t)
    /\ UNCHANGED vars

(* The polling tick recovers too, whatever happened before.                *)
Tick(t) ==
    /\ IsMonitor(t) /\ Of(t) \in Watch /\ pc[t] = "idle" /\ Admitted(t)
    /\ AfterRecover(Of(t))
    /\ UNCHANGED <<mount, root, current, status, recovering, pc, local, changes, stops>>

----------------------------------------------------------------------------
(* The life of a provider.                                                 *)

Admissions(p) == {t \in Thread : Of(t) = p /\ Shares(t)}

(* Shutdown stops the monitor, then refuses requests and waits for those   *)
(* that were admitted.                                                     *)
Shutdown(p) ==
    /\ status[p] = "open" /\ pc[Monitor(p)] = "idle" /\ stops < MaxStop
    /\ status' = [status EXCEPT ![p] = "closing"]
    /\ stops' = stops + 1
    /\ UNCHANGED <<mount, root, current, offline, recovering, pc, local, intents, changes>>

(* Mutant: close does not wait for the requests that were admitted.        *)
CloseAtOnce(p) ==
    /\ status[p] = "closing"
    /\ status' = [status EXCEPT ![p] = "down"]
    /\ root' = [root EXCEPT ![p] = None]
    /\ current' = current \ {p}
    /\ UNCHANGED <<mount, offline, recovering, pc, local, intents, changes, stops>>

Close(p) ==
    /\ status[p] = "closing"
    /\ Admissions(p) = {}
    /\ status' = [status EXCEPT ![p] = "down"]
    /\ root' = [root EXCEPT ![p] = None]
    /\ current' = current \ {p}
    /\ offline' = [offline EXCEPT ![p] = FALSE]
    /\ recovering' = [recovering EXCEPT ![p] = FALSE]
    /\ UNCHANGED <<mount, pc, local, intents, changes, stops>>

(* The kernel drops the locks of a process that dies; what it was doing    *)
(* may have left an intent.                                                *)
Crash(p) ==
    /\ status[p] # "down" /\ stops < MaxStop
    /\ status' = [status EXCEPT ![p] = "down"]
    /\ root' = [root EXCEPT ![p] = None]
    /\ current' = current \ {p, Monitor(p)}
    /\ pc' = [t \in Thread |-> IF Of(t) = p THEN "idle" ELSE pc[t]]
    /\ leases' = [t \in Thread |-> IF Of(t) = p THEN 0 ELSE leases[t]]
    /\ was' = [t \in Thread |-> IF Of(t) = p THEN FALSE ELSE was[t]]
    /\ candidate' = [t \in Thread |-> IF Of(t) = p THEN None ELSE candidate[t]]
    /\ intents' \in {intents, intents \/ \E t \in Thread : Of(t) = p /\ leases[t] > 0}
    /\ offline' = [offline EXCEPT ![p] = FALSE]
    /\ recovering' = [recovering EXCEPT ![p] = FALSE]
    /\ stops' = stops + 1
    /\ UNCHANGED <<mount, changes>>

(* openStore: it has the gate as a reader, opens the root, checks it and   *)
(* reads the generation.                                                   *)
Start(p) ==
    /\ status[p] = "down" /\ SharedFree
    /\ status' = [status EXCEPT ![p] = "starting"]
    /\ Goto(Monitor(p), "bootopen")
    /\ UNCHANGED <<local, mount, root, current, offline, recovering, intents, changes, stops>>

BootFails(p) ==
    /\ status' = [status EXCEPT ![p] = "down"]
    /\ root' = [root EXCEPT ![p] = None]
    /\ Goto(Monitor(p), "idle")
    /\ UNCHANGED <<local, mount, current, offline, recovering, intents, changes, stops>>

OpenRoot(p) ==
    /\ pc[Monitor(p)] = "bootopen"
    /\ \/ /\ mount # None
          /\ root' = [root EXCEPT ![p] = mount]
          /\ Goto(Monitor(p), "boothealth")
          /\ UNCHANGED <<local, mount, current, offline, status, recovering, intents, changes, stops>>
       \/ mount = None /\ BootFails(p)

OpenStore(p) ==
    /\ pc[Monitor(p)] = "boothealth"
    /\ \/ /\ Healthy(p)
          /\ current' = current \cup {p}
          /\ status' = [status EXCEPT ![p] = "open"]
          /\ Goto(Monitor(p), "idle")
          /\ UNCHANGED <<local, mount, root, offline, recovering, intents, changes, stops>>
       \/ ~Healthy(p) /\ BootFails(p)

(* The operating system mounts, unmounts or mounts over.                   *)
Remount(m) ==
    /\ changes < MaxChange
    /\ m # mount
    /\ mount' = m
    /\ changes' = changes + 1
    /\ UNCHANGED <<root, current, offline, status, recovering, pc, local, intents, stops>>

----------------------------------------------------------------------------
Init ==
    /\ mount \in Instance \ Foreign
    /\ root = [p \in Provider |-> mount]
    /\ current = Provider
    /\ offline = [p \in Provider |-> FALSE]
    /\ status = [p \in Provider |-> "open"]
    /\ recovering = [p \in Provider |-> FALSE]
    /\ pc = [t \in Thread |-> "idle"]
    /\ leases = [t \in Thread |-> 0]
    /\ was = [t \in Thread |-> FALSE]
    /\ candidate = [t \in Thread |-> None]
    /\ intents = FALSE
    /\ changes = 0 /\ stops = 0

EnterStep(t) == Enter(t) \/ EnterBusy(t) \/ RLock(t) \/ EnterOK(t) \/ EnterFails(t)
ReopenStep(t) ==
    \/ Reopen(t) \/ Lock(t) \/ OpenCandidate(t) \/ Verify(t)
    \/ Generation(t) \/ GenerationFails(t) \/ Adopt(t)
MonitorStep(t) == Probe(t) \/ Online(t) \/ Recover(t) \/ Tick(t)
RequestStep(t) == Leave(t) \/ RequestInterrupted(t)
ProviderStep(p) == Shutdown(p) \/ Close(p) \/ Crash(p) \/ Start(p) \/ OpenRoot(p) \/ OpenStore(p)

Next ==
    \/ \E t \in Thread : EnterStep(t) \/ ReopenStep(t) \/ MonitorStep(t) \/ RequestStep(t)
    \/ \E p \in Provider : ProviderStep(p)
    \/ \E m \in Instance \cup {None} : Remount(m)

Spec == Init /\ [][Next]_vars

(* What a request that was admitted, and a pass of a monitor, do next.     *)
RequestGoesOn(t) == RLock(t) \/ EnterOK(t) \/ EnterFails(t) \/ Leave(t)
MonitorGoesOn(t) == EnterStep(t) \/ ReopenStep(t) \/ Online(t) \/ Recover(t)

----------------------------------------------------------------------------
TypeOK ==
    /\ mount \in Instance \cup {None}
    /\ root \in [Provider -> Instance \cup {None}]
    /\ current \subseteq Provider \cup Thread
    /\ offline \in [Provider -> BOOLEAN] /\ recovering \in [Provider -> BOOLEAN]
    /\ status \in [Provider -> {"open", "closing", "down", "starting"}]
    /\ pc \in [Thread -> Pc] /\ leases \in [Thread -> Nat]
    /\ was \in [Thread -> BOOLEAN] /\ candidate \in [Thread -> Instance \cup {None}]
    /\ intents \in BOOLEAN
    /\ changes \in Nat /\ stops \in Nat

(* Whoever has a lease works with a handle of the persisted generation: no *)
(* reopen of any provider gets in between (enter, reopen).                 *)
LeasesAreCurrent ==
    \A t \in Thread : leases[t] > 0 => Of(t) \in current /\ root[Of(t)] # None

(* Nobody ever waits for rootMu: an exclusive holder has the gate first,   *)
(* so it cannot queue while nested admissions are active, which with a Go  *)
(* RWMutex would be a deadlock (enter, the comment on the process-local    *)
(* lock).                                                                  *)
RootMuNeverBlocks ==
    \A t \in Thread :
        /\ pc[t] = "rlock" => ReadFree(Of(t))
        /\ pc[t] = "lock" => WriteFree(Of(t))

(* What a lease and the locks promise, together, in every state.           *)
MountSound == TypeOK /\ LeasesAreCurrent /\ RootMuNeverBlocks

(* The fence: handles change under nobody's lease (reopen, close).         *)
LeasesOf(p) == leases[<<p, "request">>]
Fence == INSTANCE MountFence WITH
    handle <- [p \in Provider |-> IF status[p] = "starting" THEN None ELSE root[p]],
    leases <- [p \in Provider |-> LeasesOf(p)]
Fenced == Fence!Spec

(* The outage is over and no request is under way.                         *)
Quiet ==
    /\ changes = MaxChange /\ Valid(mount)
    /\ \A t \in Thread : ~IsMonitor(t) => pc[t] = "idle" /\ leases[t] = 0

(* Without the help of requests, all providers come back with a handle of  *)
(* the mounted instance and of one generation, and stay.  The intents that *)
(* the outage left are recovered (maintain: the probe after an outage, and *)
(* the polling tick).                                                      *)
OutageEnds ==
    <>[]Quiet => <>[](~intents /\ \A p \in Provider : status[p] = "open" /\ Healthy(p) /\ p \in current)
=============================================================================
