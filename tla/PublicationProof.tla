-------------------------- MODULE PublicationProof -------------------------
(***************************************************************************)
(* Proofs about Publication, for every number of processes, names, uuids   *)
(* and edits: what its reachable states and its steps satisfy.             *)
(***************************************************************************)
EXTENDS PublicationSteps, PublicationWinner, PublicationMount, FiniteSetTheorems

USE SMTT(20), ZenonT(60)

(* The invariant of PublicationInv holds in every state the driver can     *)
(* reach: whatever requests, recoveries, crashes, I/O errors, scans and    *)
(* direct edits are interleaved.                                           *)
THEOREM InductiveInvariant == Spec => []IndInv
BY IndInit, IndNext, PTL DEF Spec

(* Tables, mount and processes always have the shapes declared for them;   *)
(* in particular finish never writes a row without the file it describes.  *)
THEOREM TypeCorrectness == Spec => []TypeOK
<1>1. IndInv => TypeOK
  BY DEF IndInv
<1> QED BY <1>1, InductiveInvariant, PTL

(* The lock manifests in the journal are pairwise disjoint, so recover may *)
(* finish the pending operations in any order.                             *)
THEOREM ManifestsDisjoint == Spec => []IntentsIndependent
<1>1. IndInv => IntentsIndependent
  BY DEF IndInv, TablesOK
<1> QED BY <1>1, InductiveInvariant, PTL

(* Nobody meddles with an operation that a process is finishing, although  *)
(* recovery picks operations before it has their locks and a restore may   *)
(* reuse the id of the operation picked.                                   *)
THEOREM FinishExclusive == Spec => []FinisherAlone
<1>1. IndInv => FinisherAlone
  <2> SUFFICES ASSUME IndInv, NEW p \in Proc, Finishing(p)
               PROVE  /\ operations[proc[p].op.id] = proc[p].op
                      /\ \A q \in Proc \ {p} :
                           /\ Finishing(q) => proc[q].op.id # proc[p].op.id
                           /\ proc[q].pc = "journal" => Held(q) \cap proc[p].op.locks = {}
    BY ZenonT(60) DEF FinisherAlone
  <2>1. \A q \in Proc : Finishing(q) =>
          /\ operations[proc[q].op.id] = proc[q].op /\ Anchor(proc[q].op) \in Held(q)
          /\ proc[q].op \in Operation
    BY ZenonT(60) DEF IndInv, TypeOK, LocalOK, ShapeOK, InsideOK, Inside, Finishing, Held, ProcState
  <2>2. proc[p].op.id \in Pending
    BY <2>1, NoneAssumption DEF Pending, Operation
  <2>3. ASSUME NEW q \in Proc \ {p}, Finishing(q), proc[q].op.id = proc[p].op.id PROVE FALSE
    BY <2>1, <2>3 DEF IndInv, HeldDisjoint
  <2>4. ASSUME NEW q \in Proc \ {p}, proc[q].pc = "journal"
        PROVE  Held(q) \cap proc[p].op.locks = {}
    BY ZenonT(60), <2>1, <2>2, <2>4 DEF IndInv, LocalOK, HeldOK, Inside, Held
  <2> QED BY <2>1, <2>3, <2>4
<1> QED BY <1>1, InductiveInvariant, PTL

(* The node of a pending replacement keeps the ETag the intent was planned *)
(* from until the intent is resolved.                                      *)
THEOREM ReplacementRevisionKept == Spec => []RevisionStable
<1>1. IndInv => RevisionStable
  BY ZenonT(60) DEF IndInv, TablesOK, PendingOK, IntentOK, RowsOK, RowAt, RevisionStable
<1> QED BY <1>1, InductiveInvariant, PTL

(* The session of a pending upload is there and has no receipt: the final  *)
(* transaction writes the only one.                                        *)
THEOREM SessionsPublishOnce == Spec => []UploadPublishesOnce
<1>1. IndInv => UploadPublishesOnce
  BY DEF IndInv, TablesOK, PendingOK, IntentOK, UploadPublishesOnce
<1> QED BY <1>1, InductiveInvariant, PTL

(* Intents keep what they were planned from, in the journal and in finish. *)
THEOREM IntentSafety == Spec => []IntentsSafe
<1>1. IntentsIndependent /\ FinisherAlone /\ RevisionStable /\ UploadPublishesOnce => IntentsSafe
  BY DEF IntentsSafe
<1> QED BY <1>1, ManifestsDisjoint, FinishExclusive, ReplacementRevisionKept, SessionsPublishOnce, PTL

----------------------------------------------------------------------------
(* Competing uploads.                                                      *)

(* Pending replacements and open sessions are about the revision that the  *)
(* session set out from, and that revision does not come back.             *)
THEOREM WinnerInvariant == Spec => []WinnerOK
<1>1. IndInv /\ WinnerOK /\ [Next]_vars => WinnerOK'
  BY WinnerNext
<1> QED BY <1>1, WinnerInit, InductiveInvariant, PTL DEF Spec

(* Competing uploads have one winner, whatever else happens to the file    *)
(* and its neighbours in between: of the sessions that expect the same     *)
(* revision of a file, the final transaction of finish gives a receipt to  *)
(* one at most.                                                            *)
THEOREM OneUploadWins == Spec => []OneWinner
<1>1. WinnerOK => OneWinner
  BY DEF WinnerOK
<1> QED BY <1>1, WinnerInvariant, PTL

----------------------------------------------------------------------------
(* The mount and the tables.                                               *)

(* As long as the mount has not been edited directly, tables and mount     *)
(* agree up to what pending intents account for, in every state the driver *)
(* can reach: after any crash, I/O error, retry or scan.                   *)
THEOREM MountInvariant == Spec => [](edits = 0 => MountOK)
<1>1. Init => (edits = 0 => MountOK)
  BY MountInit
<1>2. IndInv /\ (edits = 0 => MountOK) /\ [Next]_vars => (edits = 0 => MountOK)'
  BY MountStep, EditsGrow
<1> QED BY <1>1, <1>2, InductiveInvariant, PTL DEF Spec

(* The three invariants together, as the runs check them on an instance    *)
(* with direct edits: no step of a request, of maintenance or of recovery  *)
(* breaks one of them.                                                     *)
THEOREM AllInvariants == Spec => []Inductive
<1>1. IndInv /\ WinnerOK /\ (edits = 0 => MountOK) => Inductive
  BY DEF Inductive
<1> QED BY <1>1, InductiveInvariant, WinnerInvariant, MountInvariant, PTL

(* With no edit behind the driver's back, finish never refuses a state: at *)
(* every moment, and whatever crashes and retries came before, its checks  *)
(* of fingerprints and the statements of its transaction succeed.          *)
THEOREM FinishGoesOn == Spec => [](edits = 0 => RecoveryNeverStops)
<1>1. IndInv /\ (edits = 0 => MountOK) => (edits = 0 => RecoveryNeverStops)
  BY ReadyGoesOn
<1> QED BY <1>1, InductiveInvariant, MountInvariant, PTL

(* A reader that gets the locks of a node finds on the mount what the row  *)
(* says, and every previous version the tables list is there.              *)
THEOREM RowsDescribeMount == Spec => [](edits = 0 => MetadataMatchesMount)
<1>1. IndInv /\ (edits = 0 => MountOK) => (edits = 0 => MetadataMatchesMount)
  BY RowsDescribe
<1> QED BY <1>1, InductiveInvariant, MountInvariant, PTL

(* Whatever content a commit takes out of a row is kept: the same step     *)
(* lists it as a version of the node and the bytes are where the version   *)
(* says.                                                                   *)
THEOREM ReplacedContentIsKept == Spec /\ [](edits = 0) => OverwritesAreRetained
<1> DEFINE Kept(u) == \E v \in Uuid : retained[v] = None /\ retained'[v] # None
                          /\ retained'[v].node = u /\ retained'[v].row.data = nodes[u].data
                          /\ fs'[Version(v)] = nodes[u].data
           Overwrites == \A u \in Uuid : Row(u) /\ nodes'[u] # None /\ operations' # operations
                             /\ nodes'[u].data # nodes[u].data => Kept(u)
<1>1. ASSUME IndInv, MountOK, [Next]_vars, edits' = edits PROVE Overwrites
  BY <1>1, OverwriteKept
<1>2. IndInv /\ (edits = 0 => MountOK) /\ edits = 0 /\ (edits = 0)' /\ [Next]_vars => [Overwrites]_vars
  BY <1>1
<1> QED BY <1>2, InductiveInvariant, MountInvariant, PTL DEF Spec, OverwritesAreRetained

(* Outside tmp the driver never writes over a file and removes none: each  *)
(* of its steps leaves the content of a place there or at a place that was *)
(* empty, even if the mount was edited before and fingerprints differ.     *)
THEOREM ContentSurvives == Spec => DriverNeverDestroys
<1> DEFINE Survives == edits' = edits => \A l \in Place : Preserved(l)
<1>1. IndInv /\ [Next]_vars => [Survives]_vars
  BY StepPreserves
<1>2. [Survives]_vars <=> [edits' = edits => \A l \in Place : l[1] # "tmp" /\ fs[l] # None /\ fs'[l] # fs[l] =>
          \E k \in Place : fs[k] = None /\ fs'[k] = fs[l] /\ fs'[l] = None]_vars
  BY DEF Preserved
<1> QED BY <1>1, <1>2, InductiveInvariant, PTL DEF Spec, DriverNeverDestroys

----------------------------------------------------------------------------
(* Events.                                                                 *)

(* The operations on a node that completed_operations lists.               *)
Done(u) == {c \in completed : c[3] = u}

EventsOf(u) == outbox[<<u, "file", "finish">>] + outbox[<<u, "directory", "finish">>]
                 + outbox[<<u, "deleted", "finish">>]

Counted == IsFiniteSet(completed) /\ OneEventPerCompletion

LEMMA CommitCounts ==
    ASSUME IndInv, Counted, NEW p \in Proc, Commit(p)
    PROVE  Counted'
<1> DEFINE op == proc[p].op
           x == op.node
           k == EventKind(op)
           e == <<op.id, op.kind, op.node>>
<1>1. /\ x \in Uuid /\ e \notin completed /\ completed' = completed \cup {e}
      /\ k \in {"file", "directory", "deleted"} /\ outbox' = [outbox EXCEPT ![<<x, k, "finish">>] = @ + 1]
      /\ e[3] = x
  BY CommitCompletes
<1>2. outbox \in [Event -> Nat] /\ IsFiniteSet(completed)
  BY DEF Counted, IndInv, TypeOK
<1> HIDE DEF x, k, e
<1>3. IsFiniteSet(completed')
  BY <1>1, <1>2, FS_AddElement
<1>4. \A u \in Uuid : EventsOf(u)' = IF u = x THEN EventsOf(u) + 1 ELSE EventsOf(u)
  <2> SUFFICES ASSUME NEW u \in Uuid PROVE EventsOf(u)' = IF u = x THEN EventsOf(u) + 1 ELSE EventsOf(u)
    OBVIOUS
  <2>1. \A j \in {"file", "directory", "deleted"} :
          /\ <<u, j, "finish">> \in Event /\ outbox[<<u, j, "finish">>] \in Nat
          /\ outbox'[<<u, j, "finish">>] = IF u = x /\ j = k THEN outbox[<<u, j, "finish">>] + 1
                                           ELSE outbox[<<u, j, "finish">>]
    BY <1>1, <1>2 DEF Event
  <2> QED BY <1>1, <2>1 DEF EventsOf
<1>5. \A u \in Uuid : Cardinality(Done(u))' = IF u = x THEN Cardinality(Done(u)) + 1 ELSE Cardinality(Done(u))
  <2> SUFFICES ASSUME NEW u \in Uuid
               PROVE  Cardinality(Done(u)') = IF u = x THEN Cardinality(Done(u)) + 1 ELSE Cardinality(Done(u))
    OBVIOUS
  <2>1. IsFiniteSet(Done(u))
    BY <1>2, FS_Subset DEF Done
  <2>2. Done(u)' = IF u = x THEN Done(u) \cup {e} ELSE Done(u)
    BY <1>1 DEF Done
  <2>3. e \notin Done(u)
    BY <1>1 DEF Done
  <2> QED BY ZenonT(60), <2>1, <2>2, <2>3, FS_AddElement
<1>6. \A u \in Uuid : EventsOf(u) = Cardinality(Done(u))
  BY ZenonT(60) DEF Counted, OneEventPerCompletion, EventsOf, Done
<1>7. \A u \in Uuid : EventsOf(u)' = Cardinality(Done(u))'
  BY <1>4, <1>5, <1>6
<1>8. OneEventPerCompletion'
  BY ZenonT(60), <1>7 DEF OneEventPerCompletion, EventsOf, Done
<1> QED BY <1>3, <1>8 DEF Counted

(* Every operation that completed has left exactly one event on its node,  *)
(* however often it was interrupted, retried or met by several recoveries, *)
(* and whatever was edited on the mount.                                   *)
THEOREM EventsMatchCompletions == Spec => []OneEventPerCompletion
<1>1. Init => Counted
  <2> SUFFICES ASSUME Init PROVE Counted
    OBVIOUS
  <2>1. completed = {} /\ outbox = [e \in Event |-> 0]
    BY DEF Init
  <2>2. IsFiniteSet(completed) /\ \A u : Cardinality({c \in completed : c[3] = u}) = 0
    <3>1. \A u : {c \in completed : c[3] = u} = {}
      BY <2>1
    <3> QED BY <2>1, <3>1, FS_EmptySet
  <2>3. \A u \in Uuid : \A k \in {"file", "directory", "deleted"} : outbox[<<u, k, "finish">>] = 0
    BY <2>1 DEF Event
  <2> QED BY <2>2, <2>3 DEF Counted, OneEventPerCompletion
<1>2. ASSUME IndInv, Counted, [Next]_vars PROVE Counted'
  <2>1. CASE /\ completed' = completed
             /\ \A u \in Uuid : \A k \in {"file", "directory", "deleted"} :
                  outbox'[<<u, k, "finish">>] = outbox[<<u, k, "finish">>]
    BY <1>2, <2>1 DEF Counted, OneEventPerCompletion
  <2>2. ASSUME NEW p \in Proc, Commit(p) PROVE Counted'
    BY <1>2, <2>2, CommitCounts
  <2> QED BY <1>2, <2>1, <2>2, EventsAtCommit
<1>3. IndInv /\ Counted /\ [Next]_vars => Counted'
  BY <1>2
<1>4. Counted => OneEventPerCompletion
  BY DEF Counted
<1> QED BY <1>1, <1>3, <1>4, InductiveInvariant, PTL DEF Spec
=============================================================================
