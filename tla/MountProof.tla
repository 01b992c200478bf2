----------------------------- MODULE MountProof -----------------------------
(***************************************************************************)
(* Proofs about Mount, for any number of providers and instances and any   *)
(* bounds: the safety invariants, and that Mount implements MountFence.    *)
(***************************************************************************)
EXTENDS Mount, TLAPS

USE SMTT(20), ZenonT(60)

(* Whoever has the gate exclusively is a monitor and alone with it.        *)
GateOK ==
    \A m \in Thread : pc[m] \in ReopenPc =>
        \A u \in Thread : /\ leases[u] = 0
                          /\ pc[u] \in EnterPc \cup BootPc \cup ReopenPc => u = m

(* Which thread can be where, and in which state of its provider.          *)
PlaceOK ==
    \A t \in Thread :
        /\ IsMonitor(t) => leases[t] = 0
        /\ ~IsMonitor(t) => pc[t] \in {"idle"} \cup EnterPc
        /\ pc[t] \in BootPc => status[Of(t)] = "starting"
        /\ IsMonitor(t) /\ pc[t] \notin {"idle"} \cup BootPc => status[Of(t)] = "open"
        /\ status[Of(t)] \in {"down", "starting"} => leases[t] = 0 /\ pc[t] \in {"idle"} \cup BootPc
        /\ pc[t] \in {"verify", "generation", "adopt"} => candidate[t] # None

RootOK == \A p \in Provider :
    /\ status[p] \in {"open", "closing"} => root[p] # None
    /\ status[p] = "down" => root[p] = None
    /\ pc[Monitor(p)] = "boothealth" => root[p] # None

(* The inductive invariant (enter, reopen, maintain, close, openStore).    *)
IInv == TypeOK /\ GateOK /\ PlaceOK /\ RootOK /\ LeasesAreCurrent

LEMMA ThreadFacts ==
    /\ \A t \in Thread : Of(t) \in Provider
    /\ \A t \in Thread : IsMonitor(t) => t = Monitor(Of(t))
    /\ \A p \in Provider : Monitor(p) \in Thread /\ Of(Monitor(p)) = p /\ IsMonitor(Monitor(p))
BY DEF Thread, Of, IsMonitor, Monitor

LEMMA InitIInv == Init => IInv
<1> SUFFICES ASSUME Init PROVE IInv OBVIOUS
<1> USE ThreadFacts
<1>1. \A t \in Thread : pc[t] = "idle" /\ leases[t] = 0 BY DEF Init
<1>2. root = [p \in Provider |-> mount] /\ mount \in Instance BY DEF Init
<1>3. status = [p \in Provider |-> "open"] BY DEF Init
<1>4. TypeOK
  <2>1. "idle" \in Pc BY DEF Pc
  <2>2. root \in [Provider -> Instance \cup {None}] BY <1>2
  <2>3. status \in [Provider -> {"open", "closing", "down", "starting"}] BY <1>3
  <2>4. /\ pc \in [Thread -> Pc] /\ leases \in [Thread -> Nat]
        /\ was \in [Thread -> BOOLEAN] /\ candidate \in [Thread -> Instance \cup {None}]
    BY <2>1 DEF Init
  <2>5. offline \in [Provider -> BOOLEAN] /\ recovering \in [Provider -> BOOLEAN] BY DEF Init
  <2>6. current \subseteq Provider \cup Thread BY DEF Init
  <2>7. intents \in BOOLEAN BY ZenonT(60) DEF Init
  <2>8. changes \in Nat /\ stops \in Nat BY DEF Init
  <2> QED BY <1>2, <2>2, <2>3, <2>4, <2>5, <2>6, <2>7, <2>8 DEF TypeOK
<1>5. GateOK BY <1>1 DEF GateOK, ReopenPc
<1>6. PlaceOK BY <1>1, <1>3 DEF PlaceOK, BootPc
<1>7. RootOK
  <2>1. root = [p \in Provider |-> mount] /\ mount # None BY <1>2, ConstantAssumption
  <2>2. ASSUME NEW q \in Provider
        PROVE  status[q] = "open" /\ root[q] # None /\ pc[Monitor(q)] = "idle"
    BY <1>1, <1>3, <2>1
  <2>3. "open" # "down" /\ "idle" # "boothealth" OBVIOUS
  <2> QED BY <2>2, <2>3, Zenon DEF RootOK
<1>8. LeasesAreCurrent BY <1>1 DEF LeasesAreCurrent
<1> QED BY <1>4, <1>5, <1>6, <1>7, <1>8 DEF IInv

USE DEF Goto

LEMMA EnterType == ASSUME TypeOK, NEW t \in Thread, EnterStep(t) PROVE TypeOK'
<1> USE ThreadFacts DEF TypeOK, EnterPc, Pc, local
<1>1. CASE Enter(t) BY <1>1 DEF Enter
<1>2. CASE EnterBusy(t) BY <1>2 DEF EnterBusy
<1>3. CASE RLock(t) BY <1>3 DEF RLock
<1>4. CASE EnterOK(t) BY <1>4 DEF EnterOK
<1>5. CASE EnterFails(t) BY <1>5 DEF EnterFails
<1> QED BY <1>1, <1>2, <1>3, <1>4, <1>5 DEF EnterStep

(* The types that the proofs below need of a state.                        *)
LEMMA Types ==
    ASSUME TypeOK
    PROVE  /\ pc \in [Thread -> Pc] /\ leases \in [Thread -> Nat]
           /\ candidate \in [Thread -> Instance \cup {None}]
           /\ status \in [Provider -> {"open", "closing", "down", "starting"}]
           /\ root \in [Provider -> Instance \cup {None}]
BY DEF TypeOK

LEMMA EnterKeeps == ASSUME IInv, NEW t \in Thread, EnterStep(t) PROVE IInv'
<1> USE ThreadFacts, Types DEF IInv, EnterPc, ReopenPc, BootPc, Pc, local
<1>0. TypeOK' BY EnterType
<1>1. CASE Enter(t)
  <2>2. GateOK' BY <1>1 DEF Enter, GateOK, SharedFree, Excludes
  <2>3. PlaceOK' BY <1>1 DEF Enter, PlaceOK, Admitted
  <2>4. RootOK' BY <1>1 DEF Enter, RootOK
  <2>5. LeasesAreCurrent' BY <1>1 DEF Enter, LeasesAreCurrent
  <2> QED BY <1>0, <2>2, <2>3, <2>4, <2>5
<1>2. CASE EnterBusy(t)
  <2>2. GateOK' BY <1>2 DEF EnterBusy, GateOK
  <2>3. PlaceOK' BY <1>2 DEF EnterBusy, PlaceOK
  <2>4. RootOK' BY <1>2 DEF EnterBusy, RootOK
  <2>5. LeasesAreCurrent' BY <1>2 DEF EnterBusy, LeasesAreCurrent
  <2> QED BY <1>0, <2>2, <2>3, <2>4, <2>5
<1>3. CASE RLock(t)
  <2>2. GateOK' BY <1>3 DEF RLock, GateOK
  <2>3. PlaceOK' BY <1>3 DEF RLock, PlaceOK
  <2>4. RootOK' BY <1>3 DEF RLock, RootOK
  <2>5. LeasesAreCurrent' BY <1>3 DEF RLock, LeasesAreCurrent
  <2> QED BY <1>0, <2>2, <2>3, <2>4, <2>5
<1>4. CASE EnterOK(t)
  <2>2. GateOK' BY <1>4 DEF EnterOK, GateOK
  <2>3. PlaceOK' BY <1>4 DEF EnterOK, PlaceOK
  <2>4. RootOK' BY <1>4 DEF EnterOK, RootOK
  <2>5. LeasesAreCurrent' BY <1>4, ConstantAssumption DEF EnterOK, LeasesAreCurrent, Healthy, Valid
  <2> QED BY <1>0, <2>2, <2>3, <2>4, <2>5
<1>5. CASE EnterFails(t)
  <2>2. GateOK' BY <1>5 DEF EnterFails, GateOK
  <2>3. PlaceOK' BY <1>5 DEF EnterFails, PlaceOK
  <2>4. RootOK' BY <1>5 DEF EnterFails, RootOK
  <2>5. LeasesAreCurrent' BY <1>5 DEF EnterFails, LeasesAreCurrent
  <2> QED BY <1>0, <2>2, <2>3, <2>4, <2>5
<1> QED BY <1>1, <1>2, <1>3, <1>4, <1>5 DEF EnterStep

LEMMA DeferType ==
    ASSUME TypeOK, NEW t \in Thread, Defer(t), current' = current, stops' \in Nat PROVE TypeOK'
BY ThreadFacts DEF TypeOK, Pc, Defer

LEMMA ReopenType == ASSUME TypeOK, NEW t \in Thread, ReopenStep(t) PROVE TypeOK'
<1> USE ThreadFacts DEF TypeOK, ReopenPc, Pc, local
<1>1. CASE Reopen(t) BY <1>1, DeferType DEF Reopen
<1>2. CASE Lock(t) BY <1>2 DEF Lock
<1>3. CASE OpenCandidate(t) BY <1>3, DeferType DEF OpenCandidate
<1>4. CASE Verify(t) BY <1>4, DeferType DEF Verify
<1>5. CASE Generation(t) BY <1>5 DEF Generation
<1>6. CASE GenerationFails(t) BY <1>6, DeferType DEF GenerationFails
<1>7. CASE Adopt(t) BY <1>7 DEF Adopt
<1> QED BY <1>1, <1>2, <1>3, <1>4, <1>5, <1>6, <1>7 DEF ReopenStep

LEMMA ReopenKeeps == ASSUME IInv, NEW t \in Thread, ReopenStep(t) PROVE IInv'
<1> USE ThreadFacts, Types DEF IInv, EnterPc, ReopenPc, BootPc, Pc, local
<1>0. TypeOK' BY ReopenType
<1>1. CASE Reopen(t)
  <2>2. GateOK' BY <1>1 DEF Reopen, GateOK, Defer, ExclusiveFree, Shares, Excludes
  <2>3. PlaceOK' BY <1>1 DEF Reopen, PlaceOK, Defer
  <2>4. RootOK' BY <1>1 DEF Reopen, RootOK, Defer
  <2>5. LeasesAreCurrent' BY <1>1 DEF Reopen, LeasesAreCurrent, Defer
  <2> QED BY <1>0, <2>2, <2>3, <2>4, <2>5
<1>2. CASE Lock(t)
  <2>2. GateOK' BY <1>2 DEF Lock, GateOK
  <2>3. PlaceOK' BY <1>2 DEF Lock, PlaceOK
  <2>4. RootOK' BY <1>2 DEF Lock, RootOK
  <2>5. LeasesAreCurrent' BY <1>2 DEF Lock, LeasesAreCurrent
  <2> QED BY <1>0, <2>2, <2>3, <2>4, <2>5
<1>3. CASE OpenCandidate(t)
  <2>2. GateOK' BY <1>3 DEF OpenCandidate, GateOK, Defer
  <2>3. PlaceOK' BY <1>3, ConstantAssumption DEF OpenCandidate, PlaceOK, Defer, Valid
  <2>4. RootOK' BY <1>3 DEF OpenCandidate, RootOK, Defer
  <2>5. LeasesAreCurrent' BY <1>3 DEF OpenCandidate, LeasesAreCurrent, Defer
  <2> QED BY <1>0, <2>2, <2>3, <2>4, <2>5
<1>4. CASE Verify(t)
  <2>2. GateOK' BY <1>4 DEF Verify, GateOK, Defer
  <2>3. PlaceOK' BY <1>4 DEF Verify, PlaceOK, Defer
  <2>4. RootOK' BY <1>4 DEF Verify, RootOK, Defer
  <2>5. LeasesAreCurrent' BY <1>4 DEF Verify, LeasesAreCurrent, Defer
  <2> QED BY <1>0, <2>2, <2>3, <2>4, <2>5
<1>5. CASE Generation(t)
  <2>2. GateOK' BY <1>5 DEF Generation, GateOK
  <2>3. PlaceOK' BY <1>5 DEF Generation, PlaceOK
  <2>4. RootOK' BY <1>5 DEF Generation, RootOK
  <2>5. LeasesAreCurrent' BY <1>5 DEF Generation, LeasesAreCurrent, GateOK
  <2> QED BY <1>0, <2>2, <2>3, <2>4, <2>5
<1>6. CASE GenerationFails(t)
  <2>2. GateOK' BY <1>6 DEF GenerationFails, GateOK, Defer
  <2>3. PlaceOK' BY <1>6 DEF GenerationFails, PlaceOK, Defer
  <2>4. RootOK' BY <1>6 DEF GenerationFails, RootOK, Defer
  <2>5. LeasesAreCurrent' BY <1>6 DEF GenerationFails, LeasesAreCurrent, Defer
  <2> QED BY <1>0, <2>2, <2>3, <2>4, <2>5
<1>7. CASE Adopt(t)
  <2>2. GateOK' BY <1>7 DEF Adopt, GateOK
  <2>3. PlaceOK' BY <1>7 DEF Adopt, PlaceOK
  <2>4. RootOK' BY <1>7 DEF Adopt, RootOK, PlaceOK
  <2>5. LeasesAreCurrent' BY <1>7 DEF Adopt, LeasesAreCurrent, GateOK
  <2> QED BY <1>0, <2>2, <2>3, <2>4, <2>5
<1> QED BY <1>1, <1>2, <1>3, <1>4, <1>5, <1>6, <1>7 DEF ReopenStep

LEMMA MonitorType ==
    ASSUME TypeOK, NEW t \in Thread, MonitorStep(t) \/ RequestStep(t) PROVE TypeOK'
<1> USE ThreadFacts DEF TypeOK, Pc, local
<1>1. CASE Probe(t) BY <1>1 DEF Probe
<1>2. CASE Online(t) BY <1>2 DEF Online
<1>3. CASE Recover(t) BY <1>3 DEF Recover, AfterRecover
<1>4. CASE Tick(t) BY <1>4 DEF Tick, AfterRecover
<1>5. CASE Leave(t) BY <1>5 DEF Leave
<1>6. CASE RequestInterrupted(t) BY <1>6 DEF RequestInterrupted
<1> QED BY <1>1, <1>2, <1>3, <1>4, <1>5, <1>6 DEF MonitorStep, RequestStep

LEMMA MonitorKeeps ==
    ASSUME IInv, NEW t \in Thread, MonitorStep(t) \/ RequestStep(t) PROVE IInv'
<1> USE ThreadFacts, Types DEF IInv, EnterPc, ReopenPc, BootPc, Pc, local
<1>0. TypeOK' BY MonitorType
<1>1. CASE Probe(t)
  <2>2. GateOK' BY <1>1 DEF Probe, GateOK
  <2>3. PlaceOK' BY <1>1 DEF Probe, PlaceOK, Admitted
  <2>4. RootOK' BY <1>1 DEF Probe, RootOK
  <2>5. LeasesAreCurrent' BY <1>1 DEF Probe, LeasesAreCurrent
  <2> QED BY <1>0, <2>2, <2>3, <2>4, <2>5
<1>2. CASE Online(t)
  <2>2. GateOK' BY <1>2 DEF Online, GateOK
  <2>3. PlaceOK' BY <1>2 DEF Online, PlaceOK
  <2>4. RootOK' BY <1>2 DEF Online, RootOK
  <2>5. LeasesAreCurrent' BY <1>2 DEF Online, LeasesAreCurrent
  <2> QED BY <1>0, <2>2, <2>3, <2>4, <2>5
<1>3. CASE Recover(t)
  <2>2. GateOK' BY <1>3 DEF Recover, GateOK
  <2>3. PlaceOK' BY <1>3 DEF Recover, PlaceOK
  <2>4. RootOK' BY <1>3 DEF Recover, RootOK
  <2>5. LeasesAreCurrent' BY <1>3 DEF Recover, LeasesAreCurrent
  <2> QED BY <1>0, <2>2, <2>3, <2>4, <2>5
<1>4. CASE Tick(t)
  <2>2. GateOK' BY <1>4 DEF Tick, GateOK
  <2>3. PlaceOK' BY <1>4 DEF Tick, PlaceOK
  <2>4. RootOK' BY <1>4 DEF Tick, RootOK
  <2>5. LeasesAreCurrent' BY <1>4 DEF Tick, LeasesAreCurrent
  <2> QED BY <1>0, <2>2, <2>3, <2>4, <2>5
<1>5. CASE Leave(t)
  <2>2. GateOK' BY <1>5 DEF Leave, GateOK
  <2>3. PlaceOK' BY <1>5 DEF Leave, PlaceOK
  <2>4. RootOK' BY <1>5 DEF Leave, RootOK
  <2>5. LeasesAreCurrent' BY <1>5 DEF Leave, LeasesAreCurrent
  <2> QED BY <1>0, <2>2, <2>3, <2>4, <2>5
<1>6. CASE RequestInterrupted(t)
  <2>2. GateOK' BY <1>6 DEF RequestInterrupted, GateOK
  <2>3. PlaceOK' BY <1>6 DEF RequestInterrupted, PlaceOK
  <2>4. RootOK' BY <1>6 DEF RequestInterrupted, RootOK
  <2>5. LeasesAreCurrent' BY <1>6 DEF RequestInterrupted, LeasesAreCurrent
  <2> QED BY <1>0, <2>2, <2>3, <2>4, <2>5
<1> QED BY <1>1, <1>2, <1>3, <1>4, <1>5, <1>6 DEF MonitorStep, RequestStep

LEMMA ProviderType == ASSUME TypeOK, NEW p \in Provider, ProviderStep(p) PROVE TypeOK'
<1> USE ThreadFacts DEF TypeOK, Pc, BootPc, local
<1>1. CASE Shutdown(p) BY <1>1 DEF Shutdown
<1>2. CASE Close(p) BY <1>2 DEF Close
<1>3. CASE Crash(p)
  <2>1. pc' \in [Thread -> Pc] /\ leases' \in [Thread -> Nat] BY <1>3 DEF Crash
  <2>2. was' \in [Thread -> BOOLEAN] /\ candidate' \in [Thread -> Instance \cup {None}] BY ZenonT(60), <1>3 DEF Crash
  <2>3. current' \subseteq Provider \cup Thread /\ root' \in [Provider -> Instance \cup {None}] BY <1>3 DEF Crash
  <2>4. status' \in [Provider -> {"open", "closing", "down", "starting"}] BY <1>3 DEF Crash
  <2>5. offline' \in [Provider -> BOOLEAN] /\ recovering' \in [Provider -> BOOLEAN] BY <1>3 DEF Crash
  <2>6. stops' \in Nat /\ changes' \in Nat BY <1>3 DEF Crash
  <2>7. intents' \in BOOLEAN /\ mount' \in Instance \cup {None} BY ZenonT(60), <1>3 DEF Crash
  <2> QED BY <2>1, <2>2, <2>3, <2>4, <2>5, <2>6, <2>7
<1>4. CASE Start(p) BY <1>4 DEF Start
<1>5. CASE OpenRoot(p) BY <1>5 DEF OpenRoot, BootFails
<1>6. CASE OpenStore(p) BY <1>6 DEF OpenStore, BootFails
<1> QED BY <1>1, <1>2, <1>3, <1>4, <1>5, <1>6 DEF ProviderStep

LEMMA ProvidersAreNoThreads == \A p, q \in Provider : q # Monitor(p)
BY ConstantAssumption DEF Monitor

LEMMA ProviderKeeps == ASSUME IInv, NEW p \in Provider, ProviderStep(p) PROVE IInv'
<1> USE ThreadFacts, Types DEF IInv, EnterPc, ReopenPc, BootPc, Pc, local
<1>0. TypeOK' BY ProviderType
<1>1. CASE Shutdown(p)
  <2>2. GateOK' BY <1>1 DEF Shutdown, GateOK
  <2>3. PlaceOK' BY <1>1 DEF Shutdown, PlaceOK
  <2>4. RootOK' BY <1>1 DEF Shutdown, RootOK
  <2>5. LeasesAreCurrent' BY <1>1 DEF Shutdown, LeasesAreCurrent
  <2> QED BY <1>0, <2>2, <2>3, <2>4, <2>5
<1>2. CASE Close(p)
  <2>2. GateOK' BY <1>2 DEF Close, GateOK
  <2>3. PlaceOK' BY <1>2 DEF Close, PlaceOK, Admissions, Shares
  <2>4. RootOK' BY <1>2 DEF Close, RootOK, PlaceOK
  <2>5. LeasesAreCurrent' BY <1>2 DEF Close, LeasesAreCurrent, Admissions, Shares
  <2> QED BY <1>0, <2>2, <2>3, <2>4, <2>5
<1>3. CASE Crash(p)
  <2>2. GateOK' BY <1>3 DEF Crash, GateOK
  <2>3. PlaceOK' BY <1>3 DEF Crash, PlaceOK
  <2>4. RootOK' BY <1>3 DEF Crash, RootOK
  <2>5. LeasesAreCurrent' BY <1>3, ProvidersAreNoThreads DEF Crash, LeasesAreCurrent
  <2> QED BY <1>0, <2>2, <2>3, <2>4, <2>5
<1>4. CASE Start(p)
  <2>2. GateOK' BY <1>4 DEF Start, GateOK, SharedFree, Excludes, PlaceOK
  <2>3. PlaceOK' BY <1>4 DEF Start, PlaceOK
  <2>4. RootOK' BY <1>4 DEF Start, RootOK
  <2>5. LeasesAreCurrent' BY <1>4 DEF Start, LeasesAreCurrent
  <2> QED BY <1>0, <2>2, <2>3, <2>4, <2>5
<1>5. CASE OpenRoot(p)
  <2>2. GateOK' BY <1>5 DEF OpenRoot, GateOK, BootFails
  <2>3. PlaceOK' BY <1>5 DEF OpenRoot, PlaceOK, BootFails
  <2>4. RootOK' BY <1>5 DEF OpenRoot, RootOK, BootFails, PlaceOK
  <2>5. LeasesAreCurrent' BY <1>5 DEF OpenRoot, LeasesAreCurrent, BootFails, PlaceOK
  <2> QED BY <1>0, <2>2, <2>3, <2>4, <2>5
<1>6. CASE OpenStore(p)
  <2>2. GateOK' BY <1>6 DEF OpenStore, GateOK, BootFails
  <2>3. PlaceOK' BY <1>6 DEF OpenStore, PlaceOK, BootFails
  <2>4. RootOK' BY <1>6 DEF OpenStore, RootOK, BootFails
  <2>5. LeasesAreCurrent' BY <1>6 DEF OpenStore, LeasesAreCurrent, BootFails, PlaceOK
  <2> QED BY <1>0, <2>2, <2>3, <2>4, <2>5
<1> QED BY <1>1, <1>2, <1>3, <1>4, <1>5, <1>6 DEF ProviderStep

LEMMA NextKeeps == ASSUME IInv, [Next]_vars PROVE IInv'
<1>1. CASE UNCHANGED vars
  BY <1>1 DEF vars, IInv, TypeOK, GateOK, PlaceOK, RootOK, LeasesAreCurrent
<1>2. ASSUME NEW m \in Instance \cup {None}, Remount(m) PROVE IInv'
  BY <1>2 DEF Remount, IInv, TypeOK, GateOK, PlaceOK, RootOK, LeasesAreCurrent, local
<1> QED BY <1>1, <1>2, EnterKeeps, ReopenKeeps, MonitorKeeps, ProviderKeeps DEF Next

(* IInv holds in every reachable state, for any number of providers.       *)
THEOREM InductiveInvariant == Spec => []IInv
BY InitIInv, NextKeeps, PTL DEF Spec

(* A lease always has a handle of the current generation (enter, reopen).  *)
THEOREM LeaseSafety == Spec => []LeasesAreCurrent
<1>1. IInv => LeasesAreCurrent BY DEF IInv
<1> QED BY <1>1, InductiveInvariant, PTL

(* Nobody waits for rootMu, whatever the nesting (enter, reopen).          *)
THEOREM RootMuSafety == Spec => []RootMuNeverBlocks
<1>1. ASSUME IInv PROVE RootMuNeverBlocks
  <2> USE <1>1, ThreadFacts, Types DEF IInv
  <2>1. ASSUME NEW t \in Thread, pc[t] = "rlock" PROVE ReadFree(Of(t))
    <3>1. Monitor(Of(t)) \in Thread OBVIOUS
    <3>2. pc[Monitor(Of(t))] \in ReopenPc => t = Monitor(Of(t)) BY <2>1, <3>1 DEF GateOK, EnterPc
    <3> QED BY <2>1, <3>2 DEF ReadFree, ReopenPc
  <2>2. ASSUME NEW t \in Thread, pc[t] = "lock" PROVE WriteFree(Of(t))
    <3>1. \A u \in Thread : leases[u] = 0 /\ (pc[u] = "check" => u = t)
      BY <2>2 DEF GateOK, EnterPc, ReopenPc
    <3> QED BY <2>2, <3>1 DEF WriteFree, Reading
  <2> QED BY <2>1, <2>2 DEF RootMuNeverBlocks
<1> QED BY <1>1, InductiveInvariant, PTL

(* Leases and locks together, as the run of the mount checks them.         *)
THEOREM Soundness == Spec => []MountSound
<1>1. IInv => TypeOK BY DEF IInv
<1>2. TypeOK /\ LeasesAreCurrent /\ RootMuNeverBlocks => MountSound BY DEF MountSound
<1> QED BY <1>1, <1>2, InductiveInvariant, LeaseSafety, RootMuSafety, PTL

----------------------------------------------------------------------------
(* Mount implements MountFence.                                            *)

Handle == [p \in Provider |-> IF status[p] = "starting" THEN None ELSE root[p]]
Leases == [p \in Provider |-> LeasesOf(p)]

LEMMA RequestFacts ==
    /\ \A p \in Provider : <<p, "request">> \in Thread /\ ~IsMonitor(<<p, "request">>) /\ Of(<<p, "request">>) = p
    /\ \A t \in Thread : ~IsMonitor(t) => t = <<Of(t), "request">>
BY DEF Thread, IsMonitor, Of

LEMMA InitFence == Init => Fence!Init
<1> SUFFICES ASSUME Init PROVE Fence!Init OBVIOUS
<1>1. \A p \in Provider : LeasesOf(p) = 0 BY ZenonT(60), RequestFacts DEF Init, LeasesOf
<1>2. mount \in Instance /\ Handle = [p \in Provider |-> mount] BY DEF Init, Handle
<1> QED BY <1>1, <1>2 DEF Fence!Init, Handle

(* Steps that leave handles and leases alone.                              *)
LEMMA StutterFence ==
    ASSUME UNCHANGED <<root, status, leases>> PROVE UNCHANGED Fence!vars
BY DEF Fence!vars, LeasesOf

LEMMA EnterFence ==
    ASSUME IInv, NEW t \in Thread, EnterStep(t) \/ MonitorStep(t) \/ RequestStep(t)
    PROVE  [Fence!Next]_(Fence!vars)
<1> USE RequestFacts, ThreadFacts, Types DEF IInv
<1> DEFINE p == Of(t)
<1>1. CASE Enter(t) \/ EnterBusy(t) \/ RLock(t) \/ EnterFails(t) \/ MonitorStep(t)
  BY ZenonT(60), <1>1, StutterFence DEF Enter, EnterBusy, RLock, EnterFails, MonitorStep, Probe, Online, Recover, Tick, local
<1>2. CASE EnterOK(t) /\ IsMonitor(t)
  <2>1. leases' = leases BY <1>2 DEF EnterOK, PlaceOK
  <2> QED BY <1>2, <2>1, StutterFence DEF EnterOK
<1>3. CASE EnterOK(t) /\ ~IsMonitor(t)
  <2>1. status[p] # "starting" /\ root[p] # None
    BY <1>3, ConstantAssumption DEF EnterOK, PlaceOK, EnterPc, BootPc, Healthy, Valid
  <2>2. Leases' = [Leases EXCEPT ![p] = Leases[p] + 1]
    BY ZenonT(60), <1>3 DEF EnterOK, Leases, LeasesOf
  <2>3. Handle' = Handle /\ Handle[p] # None BY <1>3, <2>1 DEF EnterOK, Handle
  <2>4. Fence!Grant(p) BY ZenonT(60), <2>2, <2>3 DEF Fence!Grant, Handle, Leases
  <2> QED BY <2>4 DEF Fence!Next
<1>4. CASE RequestStep(t)
  <2>1. ~IsMonitor(t) /\ leases[t] > 0 /\ Handle' = Handle
    <3>1. ~IsMonitor(t) /\ leases[t] > 0
      BY <1>4 DEF RequestStep, Leave, RequestInterrupted
    <3>2. root' = root /\ status' = status
      BY ZenonT(60), <1>4 DEF RequestStep, Leave, RequestInterrupted
    <3> QED BY <3>1, <3>2 DEF Handle
  <2>2. PICK n \in 0..leases[t] : leases' = [leases EXCEPT ![t] = n]
    <3>1. leases' = [leases EXCEPT ![t] = leases[t] - 1] \/ leases' = [leases EXCEPT ![t] = 0]
      BY ZenonT(60), <1>4 DEF RequestStep, Leave, RequestInterrupted
    <3>2. leases[t] \in Nat
      BY ZenonT(60)
    <3>3. leases[t] - 1 \in 0..leases[t] /\ 0 \in 0..leases[t]
      BY <2>1, <3>2
    <3> QED BY ZenonT(60), <3>1, <3>3
  <2>3. t = <<p, "request">> /\ p \in Provider BY <2>1
  <2>4. Leases[p] = leases[t] BY <2>3 DEF Leases, LeasesOf
  <2>5. Leases' = [Leases EXCEPT ![p] = n] BY ZenonT(60), <2>2, <2>3 DEF Leases, LeasesOf
  <2>6. Fence!Return(p) BY ZenonT(60), <2>1, <2>2, <2>4, <2>5 DEF Fence!Return, Handle, Leases
  <2> QED BY <2>6 DEF Fence!Next
<1> QED BY <1>1, <1>2, <1>3, <1>4 DEF EnterStep

LEMMA ReopenFence == ASSUME IInv, NEW t \in Thread, ReopenStep(t) PROVE [Fence!Next]_(Fence!vars)
<1> USE RequestFacts, ThreadFacts, Types DEF IInv
<1> DEFINE p == Of(t)
<1>1. CASE Adopt(t)
  <2>1. \A q \in Provider : Leases[q] = 0
    BY ZenonT(60), <1>1 DEF Adopt, GateOK, ReopenPc, Leases, LeasesOf
  <2>2. status[p] = "open" BY <1>1 DEF Adopt, PlaceOK, BootPc, EnterPc
  <2>3. Handle[p] # None BY <2>2 DEF RootOK, Handle
  <2>4. PICK i \in Instance : i = candidate[t]
    <3>1. candidate[t] # None BY ZenonT(60), <1>1 DEF Adopt, PlaceOK
    <3>2. candidate[t] \in Instance \cup {None} BY ZenonT(60)
    <3> QED BY ZenonT(60), <3>1, <3>2
  <2>5. Handle' = [Handle EXCEPT ![p] = i] BY ZenonT(60), <1>1, <2>2, <2>4 DEF Adopt, Handle
  <2>6. Leases' = Leases BY <1>1 DEF Adopt, Leases, LeasesOf
  <2>7. PICK q \in Provider : q = p OBVIOUS
  <2>8. Fence!Switch(q, i) BY <2>1, <2>3, <2>5, <2>6, <2>7 DEF Fence!Switch, Handle, Leases
  <2> QED BY <2>8 DEF Fence!Next
<1>2. CASE ~Adopt(t)
  BY ZenonT(60), <1>2, StutterFence DEF ReopenStep, Reopen, Lock, OpenCandidate, Verify, Generation, GenerationFails, Defer, local
<1> QED BY <1>1, <1>2

LEMMA ProviderFence == ASSUME IInv, NEW p \in Provider, ProviderStep(p) PROVE [Fence!Next]_(Fence!vars)
<1> USE RequestFacts, ThreadFacts, Types DEF IInv
<1>1. CASE Shutdown(p)
  <2>1. Handle' = Handle BY <1>1 DEF Shutdown, Handle
  <2>2. Leases' = Leases BY <1>1 DEF Shutdown, Leases, LeasesOf, local
  <2> QED BY <2>1, <2>2 DEF Fence!vars, Handle, Leases
<1>2. CASE Close(p)
  <2>1. leases[<<p, "request">>] = 0
    <3>1. ~(leases[<<p, "request">>] > 0) BY ZenonT(60), <1>2 DEF Close, Admissions, Shares
    <3>2. leases[<<p, "request">>] \in Nat BY ZenonT(60)
    <3> QED BY <3>1, <3>2
  <2>2. Handle' = [Handle EXCEPT ![p] = None] BY ZenonT(60), <1>2 DEF Close, Handle
  <2>3. Leases' = [Leases EXCEPT ![p] = 0] BY <1>2, <2>1 DEF Close, Leases, LeasesOf, local
  <2>4. Fence!Stop(p) BY ZenonT(60), <2>2, <2>3 DEF Fence!Stop, Handle, Leases
  <2> QED BY <2>4 DEF Fence!Next
<1>3. CASE Crash(p)
  <2>1. Handle' = [Handle EXCEPT ![p] = None] BY ZenonT(60), <1>3 DEF Crash, Handle
  <2>2. Leases' = [Leases EXCEPT ![p] = 0] BY ZenonT(60), <1>3 DEF Crash, Leases, LeasesOf
  <2>3. Fence!Stop(p) BY <2>1, <2>2 DEF Fence!Stop, Handle, Leases
  <2> QED BY <2>3 DEF Fence!Next
<1>4. CASE Start(p) \/ OpenRoot(p) \/ (OpenStore(p) /\ BootFails(p))
  <2>a. /\ root \in [Provider -> Instance \cup {None}]
        /\ status \in [Provider -> {"open", "closing", "down", "starting"}]
    OBVIOUS
  <2>b. root[p] = None \/ status[p] = "starting"
    <3>1. pc[Monitor(p)] \in BootPc => status[Of(Monitor(p))] = "starting"
      BY DEF PlaceOK
    <3>2. status[p] = "down" \/ pc[Monitor(p)] \in BootPc
      BY <1>4 DEF Start, OpenRoot, OpenStore, BootPc
    <3> QED BY <3>1, <3>2 DEF RootOK
  <2>c. \/ root' = root /\ status' = [status EXCEPT ![p] = "starting"]
        \/ root' = [root EXCEPT ![p] = None] /\ status' = [status EXCEPT ![p] = "down"]
        \/ root' = [root EXCEPT ![p] = mount] /\ status' = status /\ status[p] = "starting"
    <3>1. pc[Monitor(p)] = "bootopen" => status[p] = "starting"
      BY DEF PlaceOK, BootPc
    <3>2. CASE Start(p)
      BY <3>2 DEF Start
    <3>3. CASE OpenRoot(p)
      BY <3>1, <3>3 DEF OpenRoot, BootFails
    <3>4. CASE BootFails(p)
      BY <3>4 DEF BootFails
    <3> QED BY <1>4, <3>2, <3>3, <3>4
  <2>1. Handle' = Handle
    BY <2>a, <2>b, <2>c DEF Handle
  <2>2. Leases' = Leases BY <1>4 DEF Start, OpenRoot, OpenStore, BootFails, Leases, LeasesOf, local
  <2> QED BY <2>1, <2>2 DEF Fence!vars, Handle, Leases
<1>5. CASE OpenStore(p) /\ ~BootFails(p)
  <2> pc[Monitor(p)] = "boothealth" BY <1>5 DEF OpenStore
  <2>1. status[Of(Monitor(p))] = "starting" BY DEF PlaceOK, BootPc
  <2>2. root[p] # None BY DEF RootOK
  <2>3. PICK i \in Instance : i = root[p] BY <2>2
  <2>4. root' = root /\ leases' = leases /\ status' = [status EXCEPT ![p] = "open"]
    BY <1>5 DEF OpenStore, local
  <2>5. Handle' = [Handle EXCEPT ![p] = i] BY ZenonT(60), <2>3, <2>4 DEF Handle
  <2>6. Handle[p] = None BY <2>1 DEF Handle
  <2>7. Leases' = Leases BY <2>4 DEF Leases, LeasesOf
  <2>8. Fence!Start(p, i) BY ZenonT(60), <2>5, <2>6, <2>7 DEF Fence!Start, Handle, Leases
  <2> QED BY <2>8 DEF Fence!Next
<1> QED BY <1>1, <1>2, <1>3, <1>4, <1>5 DEF ProviderStep

LEMMA NextFence == ASSUME IInv, [Next]_vars PROVE [Fence!Next]_(Fence!vars)
<1>1. CASE UNCHANGED vars BY <1>1, StutterFence DEF vars
<1>2. ASSUME NEW m \in Instance \cup {None}, Remount(m) PROVE UNCHANGED Fence!vars
  BY <1>2, StutterFence DEF Remount, local
<1> QED BY <1>1, <1>2, EnterFence, ReopenFence, ProviderFence DEF Next

(* The code implements the fence: no handle changes under a lease, in any  *)
(* interleaving of requests, monitors, crashes and starts (reconnect.go).  *)
THEOREM Refinement == Spec => Fenced
BY InitFence, InductiveInvariant, NextFence, PTL DEF Spec, Fenced, Fence!Spec
=============================================================================
