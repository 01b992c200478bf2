-------------------------- MODULE PublicationSteps -------------------------
(***************************************************************************)
(* The initial state satisfies IndInv, and every step keeps it: the        *)
(* renames of finish, recovery before it is inside finish, errors and      *)
(* crashes, requests from taking their locks to the durable intent,        *)
(* uploads, edits and scans.                                               *)
(***************************************************************************)
EXTENDS PublicationCommit

USE SMTT(20), ZenonT(60)

----------------------------------------------------------------------------
(* The initial state.                                                      *)

LEMMA InitType == Init => TypeOK
<1> SUFFICES ASSUME Init PROVE TypeOK
  OBVIOUS
<1> USE ConstantAssumption, NoneAssumption
<1>1. fs \in [Place -> Content \cup {None}]
  <2> fs = [l \in Place |-> IF l \in Public /\ InitNodes[l[2]] # None
                            THEN InitData[l[2]] ELSE None]
    BY DEF Init
  <2> \A l \in Public : l[2] \in Name
    BY DEF Public
  <2> QED BY DEF Content
<1>2. nodes \in [Uuid -> NodeRow \cup {None}]
  <2> nodes = [u \in Uuid |->
          IF \E n \in Name : InitNodes[n] = u
          THEN LET n == CHOOSE m \in Name : InitNodes[m] = u IN
               [path |-> Entry(n), dir |-> FALSE, data |-> InitData[n], etag |-> 1,
                missing |-> FALSE]
          ELSE None]
    BY ZenonT(60) DEF Init
  <2> SUFFICES ASSUME NEW u \in Uuid PROVE nodes[u] \in NodeRow \cup {None}
    OBVIOUS
  <2>1. CASE \E n \in Name : InitNodes[n] = u
    <3> DEFINE n == CHOOSE m \in Name : InitNodes[m] = u
    <3>1. n \in Name
      BY <2>1
    <3>2. nodes[u] = [path |-> Entry(n), dir |-> FALSE, data |-> InitData[n], etag |-> 1,
                      missing |-> FALSE]
      BY <2>1
    <3> QED BY <3>1, <3>2, PlaceType DEF NodeRow, Content
  <2> QED BY <2>1
<1>3. proc \in [Proc -> ProcState]
  BY IdleType DEF Init
<1> QED BY <1>1, <1>2, <1>3 DEF Init, TypeOK

LEMMA IndInit == Init => IndInv
<1> SUFFICES ASSUME Init PROVE IndInv
  OBVIOUS
<1>1. TypeOK
  BY InitType
<1>2. /\ Pending = {} /\ completed = {}
      /\ \A u \in Uuid : retained[u] = None /\ uploads[u] = None /\ operations[u] = None
      /\ \A p \in Proc : proc[p] = Idle
  BY DEF Init, Pending
<1>3. \A u \in Uuid : Row(u) => u \in issued
  <2> nodes = [u \in Uuid |->
          IF \E n \in Name : InitNodes[n] = u
          THEN LET n == CHOOSE m \in Name : InitNodes[m] = u IN
               [path |-> Entry(n), dir |-> FALSE, data |-> InitData[n], etag |-> 1,
                missing |-> FALSE]
          ELSE None]
    BY ZenonT(60) DEF Init
  <2> QED BY DEF Init, Row
<1>4. TablesOK
  BY <1>2, <1>3 DEF TablesOK, PendingOK, SessionsDistinct, IntentsIndependent, TrashOK,
                    SessionsOK, UsedIsIssued
<1>5. ASSUME NEW p \in Proc PROVE LocalOK(proc[p])
  BY <1>2, IdleType DEF LocalOK, ShapeOK, Draft, JournalOK, HeldOK, Inside, InsideOK, PickedOK
<1>6. HeldDisjoint /\ DraftsDistinct
  BY ZenonT(60), <1>2, IdleType DEF HeldDisjoint, Held, DraftsDistinct, Draft
<1> QED BY <1>1, <1>4, <1>5, <1>6 DEF IndInv

----------------------------------------------------------------------------
(* Steps of one process that leave the tables alone.                       *)

LEMMA TablesSame ==
    ASSUME TablesOK, UNCHANGED tables, issued \subseteq issued'
    PROVE  TablesOK'
<1>1. /\ nodes' = nodes /\ operations' = operations /\ retained' = retained /\ uploads' = uploads
      /\ completed' = completed /\ Pending' = Pending
  BY ZenonT(60) DEF tables, Pending
<1>2. PendingOK'
  <2>1. \A op : RowsOK(op) => RowsOK(op)'
    BY <1>1 DEF RowsOK, RowAt, Row
  <2> SUFFICES ASSUME NEW o \in Pending PROVE IntentOK(o, operations[o])'
    BY ZenonT(60), <1>1 DEF PendingOK
  <2>2. IntentOK(o, operations[o])
    BY ZenonT(60) DEF TablesOK, PendingOK
  <2> QED BY <1>1, <2>1, <2>2 DEF IntentOK, ManifestOK, RowRecorded, OpShape, Row
<1>3. SessionsDistinct' /\ IntentsIndependent'
  BY ZenonT(60), <1>1 DEF TablesOK, SessionsDistinct, IntentsIndependent
<1>4. TrashOK' /\ SessionsOK' /\ UsedIsIssued'
  BY <1>1 DEF TablesOK, TrashOK, SessionsOK, UsedIsIssued, RowAt, Row
<1> QED BY ZenonT(60), <1>2, <1>3, <1>4 DEF TablesOK

LEMMA LocalSame ==
    ASSUME NEW q \in Proc, LocalOK(proc[q]), proc'[q] = proc[q],
           UNCHANGED tables, issued \subseteq issued'
    PROVE  LocalOK(proc[q])'
<1> USE DEF tables
<1>1. Pending' = Pending
  BY DEF Pending
<1>2. ShapeOK(proc[q])'
  BY DEF LocalOK, ShapeOK
<1>3. (proc[q].op # None => RowRecorded(proc[q].op))'
  BY DEF LocalOK, RowRecorded
<1>4. (Draft(proc[q]) # None => DraftOK(Draft(proc[q]), proc[q].held))'
  BY ZenonT(60), <1>1 DEF LocalOK, Draft, DraftOK, OpShape, Row
<1>5. JournalOK(proc[q])'
  BY ZenonT(60) DEF LocalOK, JournalOK, RowsOK, RowAt, Row, Plan
<1>6. HeldOK(proc[q])' /\ InsideOK(proc[q])' /\ PickedOK(proc[q])'
  BY ZenonT(60), <1>1 DEF LocalOK, HeldOK, Inside, Row, InsideOK, Anchor, PickedOK, OpShape, ManifestOK
<1> QED BY <1>2, <1>3, <1>4, <1>5, <1>6 DEF LocalOK

LEMMA ProcStep ==
    ASSUME IndInv, TypeOK', UNCHANGED tables, issued \subseteq issued',
           NEW p \in Proc, \A q \in Proc \ {p} : proc'[q] = proc[q],
           LocalOK(proc[p])',
           \A q \in Proc \ {p} : proc[q].held \cap proc'[p].held = {},
           DraftsDistinct'
    PROVE  IndInv'
<1>1. TablesOK'
  BY TablesSame DEF IndInv
<1>2. ASSUME NEW q \in Proc PROVE LocalOK(proc[q])'
  <2>1. CASE q = p
    BY <2>1
  <2>2. CASE q # p
    BY <2>2, LocalSame DEF IndInv
  <2> QED BY <2>1, <2>2
<1>3. HeldDisjoint'
  BY DEF IndInv, HeldDisjoint, Held
<1> QED BY <1>1, <1>2, <1>3 DEF IndInv

(* A request ends: with an error, by a crash, or because it gave up.       *)
LEMMA IdleStep ==
    ASSUME IndInv, NEW p \in Proc, proc' = [proc EXCEPT ![p] = Idle],
           UNCHANGED <<tables, issued>>,
           fs' \in [Place -> Content \cup {None}], crashes' \in Nat, edits' \in Nat
    PROVE  IndInv'
<1>1. TypeOK'
  BY IdleType DEF IndInv, TypeOK, tables
<1>2. proc'[p] = Idle /\ \A q \in Proc \ {p} : proc'[q] = proc[q]
  BY DEF IndInv, TypeOK
<1>3. LocalOK(proc[p])'
  BY ZenonT(60), <1>2, IdleType DEF LocalOK, ShapeOK, Draft, JournalOK, HeldOK, Inside, InsideOK, PickedOK
<1>4. DraftsDistinct'
  BY <1>2, IdleType DEF IndInv, DraftsDistinct, Draft
<1> QED BY <1>1, <1>2, <1>3, <1>4, ProcStep, IdleType

LEMMA FailStep ==
    ASSUME IndInv, NEW p \in Proc, Fail(p), crashes' \in Nat
    PROVE  IndInv'
<1>1. proc[p].request # None => proc[p].request.source \in Place
  BY DEF IndInv, TypeOK, ProcState, Operation
<1>2. fs' \in [Place -> Content \cup {None}]
  BY <1>1 DEF Fail, IndInv, TypeOK
<1> QED BY ZenonT(60), <1>2, IdleStep DEF Fail, IndInv, TypeOK

(* A rename of finish: only the mount changes.                             *)
LEMMA InsideStep ==
    ASSUME IndInv, NEW p \in Proc, Inside(proc[p]), NEW pc \in {"publish", "commit"},
           proc' = [proc EXCEPT ![p].pc = pc], UNCHANGED <<tables, issued, crashes, edits>>,
           fs' \in [Place -> Content \cup {None}]
    PROVE  IndInv'
<1> DEFINE s == proc[p]
<1>1. s \in ProcState /\ s.op \in Operation
  BY DEF IndInv, TypeOK, LocalOK, ShapeOK, Inside, ProcState
<1>2. /\ proc' \in [Proc -> ProcState] /\ \A q \in Proc \ {p} : proc'[q] = proc[q]
      /\ proc'[p].pc = pc /\ proc'[p].op = s.op /\ proc'[p].request = s.request
      /\ proc'[p].held = s.held
  BY <1>1 DEF IndInv, TypeOK, ProcState, Pc
<1>3. TypeOK'
  BY <1>2 DEF IndInv, TypeOK, tables
<1>4. LocalOK(s)
  BY DEF IndInv
<1>5. Draft(s) = s.request /\ Draft(proc[p])' = s.request
  BY <1>2 DEF Inside, Draft
<1>6. ShapeOK(proc[p])' /\ (proc[p].op # None => RowRecorded(proc[p].op))'
  BY <1>2, <1>4 DEF LocalOK, ShapeOK, RowRecorded, Inside
<1>7. (Draft(proc[p]) # None => DraftOK(Draft(proc[p]), proc[p].held))'
  BY <1>2, <1>4, <1>5 DEF LocalOK, DraftOK, OpShape, Row, Pending, tables
<1>8. JournalOK(proc[p])' /\ HeldOK(proc[p])' /\ InsideOK(proc[p])' /\ PickedOK(proc[p])'
  BY <1>2, <1>4 DEF LocalOK, JournalOK, HeldOK, InsideOK, Inside, Anchor, PickedOK, tables
<1>9. DraftsDistinct'
  BY <1>2, <1>5 DEF IndInv, DraftsDistinct, Draft
<1>10. \A q \in Proc \ {p} : proc[q].held \cap proc'[p].held = {}
  BY <1>2 DEF IndInv, HeldDisjoint, Held
<1>11. LocalOK(proc[p])'
  BY <1>6, <1>7, <1>8 DEF LocalOK
<1> QED BY <1>2, <1>3, <1>9, <1>10, <1>11, ProcStep

LEMMA MoveType ==
    ASSUME TypeOK, NEW from \in Place, NEW to \in Place
    PROVE  Move1(from, to) \in [Place -> Content \cup {None}]
BY DEF TypeOK, Move1

LEMMA BackupStep == ASSUME IndInv, NEW p \in Proc, Backup(p) PROVE IndInv'
<1>1. proc[p].op \in Operation
  BY DEF Backup, IndInv, TypeOK, LocalOK, ShapeOK, ProcState
<1>2. fs' \in [Place -> Content \cup {None}]
  BY <1>1, MoveType, PlaceType DEF Backup, IndInv, TypeOK, Operation
<1> QED BY ZenonT(60), <1>2, InsideStep DEF Backup, Inside

LEMMA PublishStep == ASSUME IndInv, NEW p \in Proc, Publish(p) PROVE IndInv'
<1>1. proc[p].op \in Operation
  BY DEF Publish, IndInv, TypeOK, LocalOK, ShapeOK, ProcState
<1>2. fs' \in [Place -> Content \cup {None}]
  BY <1>1, MoveType DEF Publish, IndInv, TypeOK, Operation
<1> QED BY ZenonT(60), <1>2, InsideStep DEF Publish, Inside

(* A process becomes interested in a pending intent.                       *)
LEMMA PickStep == ASSUME IndInv, NEW p \in Proc, NEW o \in Uuid, RecoverPick(p, o) PROVE IndInv'
<1> DEFINE s == proc[p]
<1>1. s \in ProcState /\ operations[o] \in Operation /\ o \in Pending
  BY NoneAssumption DEF RecoverPick, Pending, IndInv, TypeOK
<1>2. s.pc \in {"idle", "prepared"} /\ (s.pc = "idle" => s = Idle)
  BY IdleType DEF RecoverPick, IndInv, LocalOK, ShapeOK
<1>3. /\ proc' \in [Proc -> ProcState] /\ \A q \in Proc \ {p} : proc'[q] = proc[q]
      /\ proc'[p].pc = "picked" /\ proc'[p].op = operations[o]
      /\ proc'[p].request = s.request /\ proc'[p].held = s.held
  BY ZenonT(60), <1>1 DEF RecoverPick, IndInv, TypeOK, ProcState, Pc
<1>4. TypeOK' /\ UNCHANGED tables /\ issued' = issued
  BY <1>3 DEF RecoverPick, IndInv, TypeOK, tables
<1>5. LocalOK(s) /\ IntentOK(o, operations[o])
  BY <1>1 DEF IndInv, TablesOK, PendingOK
<1>6. Draft(s) = s.request /\ Draft(proc[p])' = s.request
  BY <1>2, <1>3 DEF Draft
<1>7. ShapeOK(proc[p])' /\ (proc[p].op # None => RowRecorded(proc[p].op))'
  BY ZenonT(60), <1>1, <1>2, <1>3, <1>5, IdleType, NoneAssumption DEF LocalOK, ShapeOK, RowRecorded, IntentOK
<1>8. (Draft(proc[p]) # None => DraftOK(Draft(proc[p]), proc[p].held))'
  BY ZenonT(60), <1>3, <1>4, <1>5, <1>6 DEF LocalOK, DraftOK, OpShape, Row, Pending, tables
<1>9. HeldOK(proc[p])'
  BY ZenonT(60), <1>2, <1>3, <1>4, <1>5 DEF LocalOK, HeldOK, Inside, Row, Pending, tables
<1>10. JournalOK(proc[p])' /\ InsideOK(proc[p])'
  BY <1>3 DEF JournalOK, InsideOK, Inside
<1>11. PickedOK(proc[p])'
  BY ZenonT(60), <1>3, <1>4, <1>5 DEF PickedOK, IntentOK, OpShape, ManifestOK, tables
<1>12. DraftsDistinct'
  BY <1>3, <1>6 DEF IndInv, DraftsDistinct, Draft
<1>13. \A q \in Proc \ {p} : proc[q].held \cap proc'[p].held = {}
  BY <1>3 DEF IndInv, HeldDisjoint, Held
<1>14. LocalOK(proc[p])'
  BY <1>7, <1>8, <1>9, <1>10, <1>11 DEF LocalOK
<1> QED BY <1>3, <1>4, <1>12, <1>13, <1>14, ProcStep

(* The intent was finished meanwhile: back to idle, or to the request that *)
(* was waiting.                                                            *)
LEMMA ResumeStep ==
    ASSUME IndInv, NEW p \in Proc, proc[p].pc = "picked", Resume(p),
           UNCHANGED <<fs, tables, issued, crashes, edits>>
    PROVE  IndInv'
<1> DEFINE s == proc[p]
           r == [pc |-> "prepared", op |-> None, request |-> s.request,
                 held |-> {SessionKey(s.request.session)}]
<1>1. CASE s.request = None
  <2>1. proc' = [proc EXCEPT ![p] = Idle]
    BY <1>1 DEF Resume
  <2> QED BY ZenonT(60), <2>1, IdleStep DEF IndInv, TypeOK
<1>2. CASE s.request # None
  <2>1. s \in ProcState /\ s.request \in Operation /\ LocalOK(s)
    BY <1>2 DEF IndInv, TypeOK, ProcState
  <2>2. s.request.session \in Uuid
    BY ZenonT(60), <1>2, <2>1 DEF LocalOK, ShapeOK, Operation
  <2>3. r \in ProcState
    BY <2>1, <2>2, KeyType DEF ProcState, Pc
  <2>4. proc' = [proc EXCEPT ![p] = r]
    BY <1>2 DEF Resume
  <2>5. r.pc = "prepared" /\ r.op = None /\ r.request = s.request
        /\ r.held = {SessionKey(s.request.session)}
    OBVIOUS
  <2> HIDE DEF r
  <2>6. /\ proc' \in [Proc -> ProcState] /\ proc'[p] = r
        /\ \A q \in Proc \ {p} : proc'[q] = proc[q]
    BY <2>3, <2>4 DEF IndInv, TypeOK
  <2>7. TypeOK'
    BY <2>6 DEF IndInv, TypeOK, tables
  <2>8. Draft(s) = s.request /\ Draft(proc[p])' = s.request
    BY ZenonT(60), <2>5, <2>6 DEF Draft
  <2>9. r.held \subseteq s.held
    BY ZenonT(60), <1>2, <2>1, <2>5, <2>8 DEF LocalOK, DraftOK, ShapeOK
  <2>10. ShapeOK(proc[p])' /\ (proc[p].op # None => RowRecorded(proc[p].op))'
    BY ZenonT(60), <1>2, <2>1, <2>5, <2>6 DEF LocalOK, ShapeOK
  <2>11. (Draft(proc[p]) # None => DraftOK(Draft(proc[p]), proc[p].held))'
    BY ZenonT(180), <2>1, <2>5, <2>6, <2>8, <1>2 DEF LocalOK, DraftOK, OpShape, Row, Pending, tables
  <2>12. HeldOK(proc[p])'
    BY ZenonT(60), <2>1, <2>5, <2>6, <2>9 DEF LocalOK, HeldOK, Inside, Row, Pending, tables
  <2>13. JournalOK(proc[p])' /\ InsideOK(proc[p])' /\ PickedOK(proc[p])'
    BY ZenonT(60), <2>5, <2>6 DEF JournalOK, InsideOK, Inside, PickedOK
  <2>14. DraftsDistinct'
    <3>1. \A q \in Proc : Draft(proc[q])' = Draft(proc[q])
      BY <2>6, <2>8 DEF Draft
    <3> QED BY ZenonT(60), <3>1 DEF IndInv, DraftsDistinct
  <2>15. \A q \in Proc \ {p} : proc[q].held \cap proc'[p].held = {}
    BY <2>6, <2>9 DEF IndInv, HeldDisjoint, Held
  <2>16. LocalOK(proc[p])'
    BY <2>10, <2>11, <2>12, <2>13 DEF LocalOK
  <2> QED BY ZenonT(60), <2>6, <2>7, <2>14, <2>15, <2>16, ProcStep
<1> QED BY <1>1, <1>2

(* With the locks of the operation it picked, recovery has the anchor of   *)
(* the one it reads again: either it is the same, or a restore that reuses *)
(* the id of a finished deletion of the same node.                         *)
LEMMA AnchorLocked ==
    ASSUME IndInv, NEW p \in Proc, proc[p].pc = "picked",
           operations[proc[p].op.id] # None
    PROVE  Anchor(operations[proc[p].op.id]) \in RecoveryKeys(proc[p].op)
<1> DEFINE op == proc[p].op
           cur == operations[op.id]
<1>1. op \in Operation /\ PickedOK(proc[p])
  BY ZenonT(60) DEF IndInv, TypeOK, ProcState, LocalOK, ShapeOK
<1>2. op.id \in Pending /\ op.kind \in Kind /\ op.node \in Uuid
  BY <1>1 DEF Pending, Operation
<1>3. CASE cur = op
  <2>1. OpShape(op) /\ ManifestOK(op)
    BY <1>1 DEF PickedOK
  <2> QED BY ZenonT(60), <1>3, <2>1, <1>2 DEF OpShape, ManifestOK, Anchor, RecoveryKeys
<1>4. CASE <<op.id, op.kind, op.node>> \in completed
  <2>1. cur.kind = "restore" /\ <<op.id, op.kind, op.node>> = <<op.id, "trash", cur.node>>
    BY ZenonT(60), <1>2, <1>4 DEF IndInv, TablesOK, PendingOK, IntentOK
  <2> QED BY ZenonT(60), <1>1, <2>1 DEF PickedOK, ManifestOK, Anchor, RecoveryKeys
<1> QED BY ZenonT(60), <1>1, <1>3, <1>4 DEF PickedOK

LEMMA RecoveryKeysType == ASSUME NEW op \in Operation PROVE RecoveryKeys(op) \in SUBSET Key
BY KeyType DEF RecoveryKeys, Operation

LEMMA RecoverStep == ASSUME IndInv, NEW p \in Proc, RecoverOne(p) PROVE IndInv'
<1> DEFINE s == proc[p]
           o == s.op.id
           ks == RecoveryKeys(s.op)
<1>1. s \in ProcState /\ s.pc = "picked" /\ s.op \in Operation /\ o \in Uuid /\ LocalOK(s)
  BY DEF RecoverOne, IndInv, TypeOK, LocalOK, ShapeOK, ProcState, Operation
<1>2. Free(ks) /\ UNCHANGED <<fs, tables, issued, crashes, edits>>
  BY DEF RecoverOne
<1>3. CASE operations[o] = None
  BY <1>1, <1>2, <1>3, ResumeStep DEF RecoverOne
<1>4. CASE operations[o] # None
  <2>1. operations[o] \in Operation /\ o \in Pending /\ IntentOK(o, operations[o])
    BY <1>1, <1>4 DEF IndInv, TypeOK, Pending, TablesOK, PendingOK
  <2>2. FirstStep(operations[o]) \in {"backup", "publish"}
    BY DEF FirstStep
  <2>3. ks \in SUBSET Key
    BY <1>1, RecoveryKeysType
  <2>4. Anchor(operations[o]) \in ks
    BY <1>1, <1>4, AnchorLocked
  <2>5. proc' = [proc EXCEPT ![p].pc = FirstStep(operations[o]),
                             ![p].op = operations[o], ![p].held = @ \cup ks]
    BY <1>4 DEF RecoverOne
  <2>6. /\ proc' \in [Proc -> ProcState] /\ \A q \in Proc \ {p} : proc'[q] = proc[q]
        /\ proc'[p].pc \in {"backup", "publish"} /\ proc'[p].op = operations[o]
        /\ proc'[p].request = s.request /\ proc'[p].held = s.held \cup ks
    <3> HIDE DEF ks
    <3> QED BY ZenonT(60), <1>1, <2>1, <2>2, <2>3, <2>5 DEF IndInv, TypeOK, ProcState, Pc
  <2> HIDE DEF ks
  <2>7. TypeOK'
    BY ZenonT(60), <1>2, <2>6 DEF IndInv, TypeOK, tables
  <2>8. Draft(s) = s.request /\ Draft(proc[p])' = s.request
    BY <1>1, <2>6 DEF Draft
  <2>9. ShapeOK(proc[p])' /\ (proc[p].op # None => RowRecorded(proc[p].op))'
    BY ZenonT(60), <1>1, <2>1, <2>6, NoneAssumption DEF LocalOK, ShapeOK, RowRecorded, IntentOK
  <2>10. (Draft(proc[p]) # None => DraftOK(Draft(proc[p]), proc[p].held))'
    BY ZenonT(60), <1>1, <1>2, <2>6, <2>8 DEF LocalOK, DraftOK, OpShape, Row, Pending, tables
  <2>11. InsideOK(proc[p])'
    BY ZenonT(60), <1>2, <2>1, <2>4, <2>6 DEF InsideOK, Inside, IntentOK, Anchor, tables
  <2>12. JournalOK(proc[p])' /\ HeldOK(proc[p])' /\ PickedOK(proc[p])'
    BY ZenonT(60), <2>6 DEF JournalOK, HeldOK, Inside, PickedOK
  <2>13. DraftsDistinct'
    <3>1. \A q \in Proc : Draft(proc[q])' = Draft(proc[q])
      BY <2>6, <2>8 DEF Draft
    <3> QED BY ZenonT(60), <3>1 DEF IndInv, DraftsDistinct
  <2>14. \A q \in Proc \ {p} : proc[q].held \cap proc'[p].held = {}
    BY ZenonT(60), <1>2, <2>6 DEF IndInv, HeldDisjoint, Held, Free
  <2>15. LocalOK(proc[p])'
    BY <2>9, <2>10, <2>11, <2>12 DEF LocalOK
  <2> QED BY <1>2, <2>6, <2>7, <2>13, <2>14, <2>15, ProcStep
<1> QED BY <1>3, <1>4

----------------------------------------------------------------------------
(* Errors, crashes and requests that give up.                              *)

LEMMA EndStep ==
    ASSUME IndInv, NEW p \in Proc,
           \/ AbandonUpload(p) \/ ApplyFails(p) \/ RecoveryStopped(p) \/ RecoverTimeout(p)
           \/ Crash(p) \/ IOError(p)
    PROVE  IndInv'
<1>a. crashes \in Nat /\ edits \in Nat /\ fs \in [Place -> Content \cup {None}]
  BY DEF IndInv, TypeOK
<1>1. CASE AbandonUpload(p)
  <2>1. proc[p].request.source \in Place
    BY ZenonT(60), <1>1 DEF AbandonUpload, IndInv, TypeOK, LocalOK, ShapeOK, ProcState, Operation
  <2>2. fs' \in [Place -> Content \cup {None}]
    BY <1>a, <1>1, <2>1 DEF AbandonUpload
  <2> QED BY ZenonT(60), <1>a, <1>1, <2>2, IdleStep DEF AbandonUpload
<1>2. CASE ApplyFails(p)
  <2>1. proc[p].op.source \in Place
    BY ZenonT(60), <1>2 DEF ApplyFails, IndInv, TypeOK, LocalOK, ShapeOK, ProcState, Operation
  <2>2. fs' \in [Place -> Content \cup {None}]
    BY ZenonT(60), <1>a, <1>2, <2>1 DEF ApplyFails
  <2> QED BY ZenonT(60), <1>a, <1>2, <2>2, IdleStep DEF ApplyFails
<1>3. CASE RecoveryStopped(p) \/ RecoverTimeout(p)
  BY ZenonT(60), <1>a, <1>3, FailStep DEF RecoveryStopped, RecoverTimeout
<1>4. CASE Crash(p)
  <2>1. crashes' \in Nat /\ edits' \in Nat /\ fs' \in [Place -> Content \cup {None}]
    BY <1>a, <1>4 DEF Crash
  <2> QED BY ZenonT(60), <1>4, <2>1, IdleStep DEF Crash
<1>5. CASE IOError(p)
  BY <1>a, <1>5, FailStep DEF IOError
<1> QED BY <1>1, <1>2, <1>3, <1>4, <1>5

----------------------------------------------------------------------------
(* Requests.  All of them take their locks and draft an operation in the   *)
(* same way; what they have in common is enough to keep the invariant.     *)

DraftStep(p, op, ks) ==
    /\ op \in Operation /\ ks \in SUBSET Key
    /\ BeginRefs(ks) /\ Ready(p, op, ks)
    /\ UNCHANGED <<tables, crashes, edits>>
    /\ fs' \in [Place -> Content \cup {None}]
    /\ OpShape(op) /\ RowRecorded(op) /\ RowsOK(op)
    /\ Plan({op.source, op.target}) \subseteq ks
    /\ op.kind # "create" => NodeKey(op.node) \in ks
    /\ \A u \in Uuid : NodeKey(u) \in ks => Row(u)
    /\ \/ /\ proc[p] = Idle /\ op.id \in Fresh /\ issued' = issued \cup {op.id}
          /\ op.kind # "restore" /\ op.session = None
       \/ /\ proc[p] = Idle /\ op.kind = "restore" /\ issued' = issued
       \/ /\ proc[p].pc = "prepared" /\ issued' = issued /\ op.kind # "restore"
          /\ op.id = proc[p].request.id /\ op.session = proc[p].request.session

LEMMA DraftKeeps ==
    ASSUME IndInv, NEW p \in Proc, NEW op, NEW ks, DraftStep(p, op, ks)
    PROVE  IndInv'
<1> USE DEF DraftStep
<1> DEFINE s == proc[p]
           t == [pc |-> "journal", op |-> op, request |-> None, held |-> s.held \cup ks]
<1>1. s \in ProcState /\ LocalOK(s) /\ op \in Operation /\ op # None /\ op.id \in Uuid
  BY ZenonT(60), NoneAssumption DEF IndInv, TypeOK, Operation
<1>2. t \in ProcState /\ t.pc = "journal" /\ t.op = op /\ t.request = None /\ t.held = s.held \cup ks
  BY ZenonT(60), <1>1 DEF ProcState, Pc
<1>3. proc' = [proc EXCEPT ![p] = t]
  BY ZenonT(60) DEF Ready, Held
<1> HIDE DEF t
<1>4. /\ proc' \in [Proc -> ProcState] /\ proc'[p] = t
      /\ \A q \in Proc \ {p} : proc'[q] = proc[q]
  BY ZenonT(60), <1>2, <1>3 DEF IndInv, TypeOK
<1>5. issued \subseteq issued' /\ issued' \in SUBSET Uuid
  BY ZenonT(60) DEF IndInv, TypeOK, Fresh
<1>6. TypeOK'
  BY ZenonT(60), <1>4, <1>5 DEF IndInv, TypeOK, tables
<1>7. Draft(proc[p])' = op
  BY ZenonT(60), <1>2, <1>4 DEF Draft
<1>8. ~Inside(s) /\ (s.pc = "prepared" => s.request # None /\ Draft(s) = s.request)
  BY ZenonT(60), <1>1, IdleType DEF Inside, Draft, LocalOK, ShapeOK
<1>9. /\ op.id \in issued' /\ uploads[op.id] = None
      /\ op.kind # "restore" =>
           /\ operations[op.id] = None /\ retained[op.id] = None /\ ~Row(op.id)
           /\ \A c \in completed : c[1] # op.id
  <2>1. CASE op.id \in Fresh /\ issued' = issued \cup {op.id} /\ op.kind # "restore"
    BY ZenonT(60), <2>1, FreshUnused
  <2>2. CASE op.kind = "restore" /\ issued' = issued
    BY ZenonT(60), <1>1, <2>2 DEF RowsOK, IndInv, TablesOK, TrashOK
  <2>3. CASE s.pc = "prepared" /\ issued' = issued /\ op.id = s.request.id
    BY ZenonT(60), <1>1, <1>8, <2>3 DEF LocalOK, DraftOK, ShapeOK
  <2> QED BY ZenonT(60), <2>1, <2>2, <2>3
<1>10. op.session # None =>
         /\ SessionKey(op.session) \in s.held
         /\ uploads[op.session] # None /\ uploads[op.session].result = None
         /\ \A o \in Pending : operations[o].session # op.session
  <2>1. CASE op.kind = "restore"
    BY ZenonT(60), <2>1 DEF OpShape
  <2>2. CASE s.pc = "prepared" /\ op.session = s.request.session
    BY ZenonT(60), <1>1, <1>8, <2>2 DEF LocalOK, DraftOK
  <2> QED BY ZenonT(60), <2>1, <2>2
<1>11. (Draft(proc[p]) # None => DraftOK(Draft(proc[p]), proc[p].held))'
  BY ZenonT(60), <1>2, <1>4, <1>7, <1>9, <1>10 DEF DraftOK, OpShape, Row, Pending, tables
<1>12. ShapeOK(proc[p])' /\ (proc[p].op # None => RowRecorded(proc[p].op))'
  BY ZenonT(60), <1>1, <1>2, <1>4 DEF ShapeOK, RowRecorded
<1>13. JournalOK(proc[p])'
  BY ZenonT(60), <1>2, <1>4 DEF JournalOK, RowsOK, RowAt, Row, Plan, tables
<1>14. HeldOK(proc[p])'
  BY ZenonT(60), <1>1, <1>2, <1>4, <1>8 DEF LocalOK, HeldOK, BeginRefs, Overlaps, Row, Pending, tables
<1>15. InsideOK(proc[p])' /\ PickedOK(proc[p])'
  BY ZenonT(60), <1>2, <1>4 DEF InsideOK, Inside, PickedOK
<1>16. LocalOK(proc[p])'
  BY ZenonT(60), <1>11, <1>12, <1>13, <1>14, <1>15 DEF LocalOK
<1>17. \A q \in Proc \ {p} : proc[q].held \cap proc'[p].held = {}
  BY ZenonT(60), <1>2, <1>4 DEF BeginRefs, Free, IndInv, HeldDisjoint, Held
<1>18. ASSUME NEW q \in Proc \ {p}, Draft(proc[q]) # None
       PROVE  /\ op.kind # "restore" => Draft(proc[q]).id # op.id
              /\ Draft(proc[q]).kind # "restore" => Draft(proc[q]).id # op.id
  <2>1. CASE op.id \in Fresh
    BY ZenonT(60), <1>18, <2>1, FreshUnused
  <2>2. CASE op.kind = "restore"
    <3>1. retained[op.id] # None
      BY ZenonT(60), <2>2 DEF RowsOK
    <3> QED BY ZenonT(60), <1>18, <2>2, <3>1 DEF IndInv, LocalOK, DraftOK
  <2>3. CASE s.pc = "prepared" /\ op.id = s.request.id
    <3>1. Draft(s).kind = "create" /\ Draft(s).id = op.id /\ Draft(s) # None
      BY ZenonT(60), <1>1, <1>8, <2>3 DEF LocalOK, ShapeOK
    <3> QED BY ZenonT(60), <1>18, <3>1 DEF IndInv, DraftsDistinct
  <2> QED BY ZenonT(60), <2>1, <2>2, <2>3
<1>19. DraftsDistinct'
  <2>1. \A q \in Proc \ {p} : Draft(proc[q])' = Draft(proc[q])
    BY ZenonT(60), <1>4 DEF Draft
  <2>2. ASSUME NEW a \in Proc, NEW b \in Proc, a # b, Draft(proc[a])' # None, Draft(proc[b])' # None,
               Draft(proc[a])'.kind # "restore"
        PROVE  Draft(proc[b])'.id # Draft(proc[a])'.id
    <3>1. CASE a = p
      BY ZenonT(60), <1>7, <1>18, <2>1, <2>2, <3>1
    <3>2. CASE b = p
      BY ZenonT(60), <1>7, <1>18, <2>1, <2>2, <3>2
    <3>3. CASE a # p /\ b # p
      BY ZenonT(60), <2>1, <2>2, <3>3 DEF IndInv, DraftsDistinct
    <3> QED BY <3>1, <3>2, <3>3
  <2> QED BY ZenonT(60), <2>2 DEF DraftsDistinct
<1> QED BY ZenonT(60), <1>4, <1>5, <1>6, <1>16, <1>17, <1>19, ProcStep

LEMMA PlanFacts ==
    ASSUME TypeOK, NEW l \in Place, NEW m \in Place
    PROVE  /\ Plan({l, m}) \in SUBSET Key /\ Plan({m}) \in SUBSET Key
           /\ l \notin Public => Plan({l, m}) = Plan({m})
           /\ m \notin Public => Plan({l, m}) = Plan({l})
           /\ \A u \in Uuid : NodeKey(u) \in Plan({l, m}) => Row(u)
           /\ \A u \in Uuid : RowAt(u, l) /\ l \in Public => NodeKey(u) \in Plan({l, m})
           /\ \A u \in Uuid : RowAt(u, m) /\ m \in Public => NodeKey(u) \in Plan({l, m})
<1>1. Plan({l, m}) \in SUBSET Key /\ Plan({m}) \in SUBSET Key
  BY PlanType
<1>2. (l \notin Public => {l, m} \cap Public = {m} \cap Public)
      /\ (m \notin Public => {l, m} \cap Public = {l} \cap Public)
  OBVIOUS
<1>3. \A u \in Uuid : NodeKey(u) \notin Public
  BY DEF NodeKey, Public
<1>4. \A u, v \in Uuid : NodeKey(u) = NodeKey(v) => u = v
  BY DEF NodeKey
<1> QED BY ZenonT(60), <1>1, <1>2, <1>3, <1>4 DEF Plan, RowAt

LEMMA CreateDraft ==
    ASSUME IndInv, NEW p \in Proc, NEW n \in Name, NEW o \in Uuid, NEW c \in Content,
           proc[p] = Idle, o \in Fresh, BeginRefs(Plan({Entry(n)})),
           issued' = issued \cup {o}, fs' = [fs EXCEPT ![Tmp(o)] = c],
           Ready(p, Intent(o, "create", Tmp(o), Entry(n), None, o, None), Plan({Entry(n)})),
           UNCHANGED <<tables, crashes, edits>>
    PROVE  \E op, ks : DraftStep(p, op, ks)
<1> DEFINE op == Intent(o, "create", Tmp(o), Entry(n), None, o, None)
           ks == Plan({Entry(n)})
<1>1. op \in Operation
  BY PlaceType, IntentType DEF Kind
<1>2. /\ op.id = o /\ op.kind = "create" /\ op.source = Tmp(o) /\ op.target = Entry(n)
      /\ op.session = None /\ op.node = o
  BY ZenonT(60) DEF Intent
<1>3. /\ ks \in SUBSET Key /\ Plan({Tmp(o), Entry(n)}) = ks
      /\ \A u \in Uuid : NodeKey(u) \in ks => Row(u)
  BY ZenonT(60), PlanFacts, PlaceType DEF IndInv
<1>4. fs' \in [Place -> Content \cup {None}]
  BY ZenonT(60), PlaceType DEF IndInv, TypeOK
<1>5. BeginRefs(ks) /\ Ready(p, op, ks)
  OBVIOUS
<1> HIDE DEF op, ks
<1>6. OpShape(op) /\ RowRecorded(op) /\ RowsOK(op)
  BY ZenonT(60), <1>2, PlaceType DEF OpShape, RowRecorded, RowsOK
<1>7. DraftStep(p, op, ks)
  BY ZenonT(60), <1>1, <1>2, <1>3, <1>4, <1>5, <1>6 DEF DraftStep
<1> QED BY <1>7

(* Requests on an existing public node: a move, a deletion, the            *)
(* restoration of a version.                                               *)
LEMMA ExistingDraft ==
    ASSUME IndInv, NEW p \in Proc, NEW u \in Uuid, NEW o \in Uuid,
           NEW kind \in {"replace", "move", "trash"}, NEW source \in Place, NEW target \in Place,
           proc[p] = Idle, o \in Fresh, PublicRow(u),
           kind = "replace" => source = Tmp(o) /\ target = nodes[u].path,
           kind = "move" => source = nodes[u].path /\ target \in Public,
           kind = "trash" => source = nodes[u].path /\ target = Trash(o),
           BeginRefs(Plan({source, target})),
           issued' = issued \cup {o}, fs' \in [Place -> Content \cup {None}],
           Ready(p, Intent(o, kind, source, target, None, u, nodes[u]), Plan({source, target})),
           UNCHANGED <<tables, crashes, edits>>
    PROVE  \E op, ks : DraftStep(p, op, ks)
<1> DEFINE op == Intent(o, kind, source, target, None, u, nodes[u])
           ks == Plan({source, target})
<1>1. nodes[u] \in NodeRow /\ nodes[u] # None /\ nodes[u].path \in Public
  BY ZenonT(60) DEF PublicRow, Row, IndInv, TypeOK
<1>2. op \in Operation
  BY ZenonT(60), <1>1, IntentType DEF Kind
<1>3. /\ op.id = o /\ op.kind = kind /\ op.source = source /\ op.target = target
      /\ op.session = None /\ op.node = u /\ op.row = nodes[u]
  BY ZenonT(60) DEF Intent
<1>4. /\ ks \in SUBSET Key /\ \A v \in Uuid : NodeKey(v) \in ks => Row(v)
      /\ NodeKey(u) \in ks
  BY ZenonT(60), <1>1, PlanFacts DEF IndInv, RowAt, Row
<1>5. BeginRefs(ks) /\ Ready(p, op, ks) /\ Plan({op.source, op.target}) \subseteq ks
  BY ZenonT(60), <1>3
<1> HIDE DEF op, ks
<1>6. OpShape(op) /\ RowRecorded(op)
  BY ZenonT(60), <1>1, <1>3 DEF OpShape, RowRecorded
<1>7. RowsOK(op)
  BY ZenonT(60), <1>1, <1>3 DEF RowsOK, RowAt, Row
<1>8. DraftStep(p, op, ks)
  BY ZenonT(60), <1>2, <1>3, <1>4, <1>5, <1>6, <1>7 DEF DraftStep
<1> QED BY <1>8

LEMMA RestoreDraft ==
    ASSUME IndInv, NEW p \in Proc, NEW r \in Uuid, NEW n \in Name, RestoreRecycleItem(p, r, n)
    PROVE  \E op, ks : DraftStep(p, op, ks)
<1> DEFINE op == Intent(r, "restore", Trash(r), Entry(n), None, retained[r].node, retained[r].row)
           ks == Plan({Entry(n)}) \cup {NodeKey(retained[r].node)}
<1>1. /\ retained[r] \in RetainedRow /\ retained[r].node \in Uuid /\ retained[r].row \in NodeRow
      /\ retained[r].row # None
  BY ZenonT(60), NoneAssumption DEF RestoreRecycleItem, IndInv, TypeOK, RetainedRow
<1>2. op \in Operation
  BY ZenonT(60), <1>1, PlaceType, IntentType DEF Kind
<1>3. /\ op.id = r /\ op.kind = "restore" /\ op.source = Trash(r) /\ op.target = Entry(n)
      /\ op.session = None /\ op.node = retained[r].node /\ op.row = retained[r].row
  BY ZenonT(60) DEF Intent
<1>4. Row(retained[r].node)
  BY ZenonT(60) DEF RestoreRecycleItem, IndInv, TablesOK, TrashOK, RowAt
<1>5. \A u, v \in Uuid : NodeKey(u) = NodeKey(v) => u = v
  BY DEF NodeKey
<1>6. /\ Plan({Trash(r), Entry(n)}) = Plan({Entry(n)}) /\ Plan({Entry(n)}) \in SUBSET Key
      /\ \A u \in Uuid : NodeKey(u) \in Plan({Trash(r), Entry(n)}) => Row(u)
  BY ZenonT(60), PlanFacts, PlaceType DEF IndInv
<1>7. ks \in SUBSET Key /\ \A u \in Uuid : NodeKey(u) \in ks => Row(u)
  BY ZenonT(60), <1>1, <1>4, <1>5, <1>6, KeyType
<1>8. /\ proc[p] = Idle /\ BeginRefs(ks) /\ Ready(p, op, ks)
      /\ retained[r].kind = "trash" /\ retained[r] # None
      /\ UNCHANGED <<fs, tables, issued, crashes, edits>>
  BY ZenonT(60) DEF RestoreRecycleItem
<1>9. Plan({op.source, op.target}) \subseteq ks /\ NodeKey(op.node) \in ks
  BY ZenonT(60), <1>3, <1>6
<1> HIDE DEF op, ks
<1>10. OpShape(op) /\ RowRecorded(op) /\ RowsOK(op)
  BY ZenonT(60), <1>1, <1>3, <1>8, PlaceType DEF OpShape, RowRecorded, RowsOK
<1>11. DraftStep(p, op, ks)
  BY ZenonT(60), <1>2, <1>3, <1>7, <1>8, <1>9, <1>10 DEF DraftStep, IndInv, TypeOK
<1> QED BY <1>11

LEMMA WriteDraft ==
    ASSUME IndInv, NEW p \in Proc, WriteUpload(p)
    PROVE  \E op, ks : DraftStep(p, op, ks)
<1> DEFINE s == proc[p]
           req == s.request
           ks == Plan({req.target})
<1>1. /\ s \in ProcState /\ s.pc = "prepared" /\ LocalOK(s) /\ req \in Operation /\ req # None
      /\ Draft(s) = req /\ req.kind = "create"
  BY ZenonT(60) DEF WriteUpload, IndInv, TypeOK, LocalOK, ShapeOK, Draft, ProcState
<1>2. OpShape(req) /\ req.source = Tmp(req.id) /\ req.target \in Public /\ req.id \in Uuid
      /\ req.session # None
  BY ZenonT(60), <1>1 DEF LocalOK, ShapeOK, DraftOK, OpShape, Operation
<1>3. /\ ks \in SUBSET Key /\ Plan({req.source, req.target}) = ks
      /\ \A u \in Uuid : NodeKey(u) \in ks => Row(u)
      /\ \A u \in Uuid : RowAt(u, req.target) => NodeKey(u) \in ks
  <2>1. TypeOK /\ req.target \in Place /\ Tmp(req.id) \in Place /\ Tmp(req.id) \notin Public
    BY ZenonT(60), <1>1, <1>2, PlaceType DEF IndInv, Operation
  <2> HIDE DEF req
  <2> QED BY ZenonT(60), <1>2, <2>1, PlanFacts
<1>4. /\ BeginRefs(ks) /\ UNCHANGED <<fs, tables, issued, crashes, edits>>
      /\ fs' \in [Place -> Content \cup {None}]
  BY ZenonT(60) DEF WriteUpload, IndInv, TypeOK
<1>5. CASE Ready(p, req, ks)
  <2>1. RowRecorded(req) /\ RowsOK(req)
    BY ZenonT(60), <1>1 DEF RowRecorded, RowsOK
  <2> HIDE DEF req, ks
  <2>2. DraftStep(p, req, ks)
    BY ZenonT(60), <1>1, <1>2, <1>3, <1>4, <1>5, <2>1 DEF DraftStep, req
  <2> QED BY <2>2
<1>6. ASSUME NEW u \in Uuid, RowAt(u, req.target), Expected(req.session, u),
             Ready(p, [req EXCEPT !.kind = "replace", !.node = u, !.row = nodes[u]], ks)
      PROVE  \E op : DraftStep(p, op, ks)
  <2> DEFINE op == [req EXCEPT !.kind = "replace", !.node = u, !.row = nodes[u]]
  <2>1. nodes[u] \in NodeRow /\ nodes[u] # None
    BY <1>6 DEF RowAt, Row, IndInv, TypeOK
  <2>2. op \in Operation
    BY ZenonT(60), <1>1, <2>1 DEF Operation, Kind
  <2>3. /\ op.id = req.id /\ op.kind = "replace" /\ op.source = req.source
        /\ op.target = req.target /\ op.session = req.session /\ op.node = u /\ op.row = nodes[u]
    BY <1>1 DEF Operation
  <2>4. Ready(p, op, ks)
    BY <1>6
  <2> HIDE DEF op
  <2>5. OpShape(op) /\ RowRecorded(op) /\ RowsOK(op)
    BY <1>2, <1>6, <2>1, <2>3 DEF OpShape, RowRecorded, RowsOK, RowAt, Row
  <2>6. Plan({op.source, op.target}) \subseteq ks /\ NodeKey(op.node) \in ks
    BY <1>3, <1>6, <2>3
  <2> HIDE DEF ks
  <2>7. DraftStep(p, op, ks)
    BY ZenonT(60), <1>1, <1>3, <1>4, <2>2, <2>3, <2>4, <2>5, <2>6 DEF DraftStep
  <2> QED BY <2>7
<1> QED BY ZenonT(60), <1>5, <1>6 DEF WriteUpload

LEMMA FinishUploadStep ==
    ASSUME IndInv, NEW p \in Proc, NEW u \in Uuid, NEW o \in Uuid, FinishUpload(p, u, o)
    PROVE  IndInv'
<1> DEFINE op == Intent(o, "create", Tmp(o), Entry(uploads[u].name), u, u, None)
           t == [pc |-> "prepared", op |-> None, request |-> op, held |-> {SessionKey(u)}]
<1>1. /\ proc[p] = Idle /\ o \in Fresh /\ Free({SessionKey(u)})
      /\ \A q \in Pending : operations[q].session # u
      /\ uploads[u] # None /\ uploads[u].result = None /\ uploads[u] \in Upload
      /\ issued' = issued \cup {o} /\ UNCHANGED tables
  BY ZenonT(60) DEF FinishUpload, IndInv, TypeOK
<1>2. op \in Operation
  BY ZenonT(60), <1>1, PlaceType, IntentType DEF Kind, Upload
<1>3. /\ op.id = o /\ op.kind = "create" /\ op.source = Tmp(o) /\ op.target \in Public
      /\ op.session = u /\ op.node = u
  BY ZenonT(60), <1>1, PlaceType DEF Upload, Intent
<1>4. proc' = [proc EXCEPT ![p] = t]
  BY ZenonT(60) DEF FinishUpload
<1> HIDE DEF op
<1>5. t \in ProcState /\ t.pc = "prepared" /\ t.op = None /\ t.request = op /\ t.held = {SessionKey(u)}
  BY <1>2, KeyType DEF ProcState, Pc
<1> HIDE DEF t
<1>6. /\ proc' \in [Proc -> ProcState] /\ proc'[p] = t
      /\ \A q \in Proc \ {p} : proc'[q] = proc[q]
  BY ZenonT(60), <1>4, <1>5 DEF IndInv, TypeOK
<1>7. fs' \in [Place -> Content \cup {None}] /\ issued' \in SUBSET Uuid /\ issued \subseteq issued'
  BY ZenonT(60), <1>1, PlaceType DEF FinishUpload, IndInv, TypeOK, Upload, Content
<1>8. TypeOK'
  BY ZenonT(60), <1>6, <1>7 DEF FinishUpload, IndInv, TypeOK, tables
<1>9. Draft(proc[p])' = op /\ op # None /\ u # None
  BY <1>2, <1>5, <1>6, NoneAssumption, ConstantAssumption DEF Draft
<1>10. DraftOK(Draft(proc[p]), proc[p].held)'
  <2>1. OpShape(Draft(proc[p]))'
    BY ZenonT(60), <1>3, <1>9 DEF OpShape
  <2>2. /\ operations[o] = None /\ retained[o] = None /\ uploads[o] = None /\ ~Row(o)
        /\ \A c \in completed : c[1] # o
    BY ZenonT(60), <1>1, FreshUnused
  <2>3. /\ nodes' = nodes /\ operations' = operations /\ retained' = retained
        /\ uploads' = uploads /\ completed' = completed /\ Pending' = Pending
    BY ZenonT(60), <1>1 DEF tables, Pending
  <2> QED BY ZenonT(60), <1>1, <1>3, <1>5, <1>6, <1>9, <2>1, <2>2, <2>3 DEF DraftOK, Row
<1>11. ShapeOK(proc[p])' /\ (proc[p].op # None => RowRecorded(proc[p].op))'
  BY ZenonT(60), <1>3, <1>5, <1>6, <1>9 DEF ShapeOK
<1>12. HeldOK(proc[p])'
  <2>1. \A v \in Uuid : NodeKey(v) # SessionKey(u)
    BY DEF NodeKey, SessionKey
  <2>2. \A q \in Pending : SessionKey(u) \notin operations[q].locks
    <3>1. \A q \in Pending : ManifestOK(operations[q])
      BY ZenonT(60) DEF IndInv, TablesOK, PendingOK, IntentOK
    <3> QED BY <3>1 DEF ManifestOK, SessionKey
  <2> QED BY ZenonT(60), <1>1, <1>5, <1>6, <2>1, <2>2 DEF HeldOK, Pending, tables
<1>13. JournalOK(proc[p])' /\ InsideOK(proc[p])' /\ PickedOK(proc[p])'
  BY ZenonT(60), <1>5, <1>6 DEF JournalOK, InsideOK, Inside, PickedOK
<1>14. LocalOK(proc[p])'
  BY <1>10, <1>11, <1>12, <1>13 DEF LocalOK
<1>15. \A q \in Proc \ {p} : proc[q].held \cap proc'[p].held = {}
  BY <1>1, <1>5, <1>6 DEF Free, Held
<1>16. DraftsDistinct'
  <2>1. \A q \in Proc \ {p} : Draft(proc[q])' = Draft(proc[q])
    BY <1>6 DEF Draft
  <2>2. \A q \in Proc \ {p} : Draft(proc[q]) # None => Draft(proc[q]).id # o
    BY <1>1, FreshUnused
  <2> QED BY <1>3, <1>9, <2>1, <2>2 DEF IndInv, DraftsDistinct
<1> QED BY ZenonT(60), <1>1, <1>6, <1>7, <1>8, <1>14, <1>15, <1>16, ProcStep

LEMMA RequestStep == ASSUME IndInv, NEW p \in Proc, Request(p) PROVE IndInv'
<1>a. TypeOK
  BY DEF IndInv
<1>1. ASSUME NEW o \in Uuid, NEW n \in Name, CreateDir(p, n, o) PROVE IndInv'
  <2>1. \E op, ks : DraftStep(p, op, ks)
    BY ZenonT(60), <1>1, CreateDraft DEF CreateDir, Content
  <2> QED BY <2>1, DraftKeeps
<1>2. ASSUME NEW o \in Uuid, NEW n \in Name, TouchFile(p, n, o) PROVE IndInv'
  <2>1. \E op, ks : DraftStep(p, op, ks)
    BY ZenonT(60), <1>2, CreateDraft, ConstantAssumption DEF TouchFile, Content
  <2> QED BY <2>1, DraftKeeps
<1>3. ASSUME NEW o \in Uuid, NEW n \in Name, RestoreRecycleItem(p, o, n) PROVE IndInv'
  BY <1>3, RestoreDraft, DraftKeeps
<1>4. ASSUME NEW u \in Uuid, NEW o \in Uuid, NEW n \in Name, Move(p, u, n, o) PROVE IndInv'
  <2>1. nodes[u].path \in Place /\ Entry(n) \in Place /\ Entry(n) \in Public
    BY ZenonT(60), <1>a, <1>4, PlaceType DEF Move, PublicRow, Row, TypeOK, NodeRow
  <2>2. \E op, ks : DraftStep(p, op, ks)
    BY ZenonT(60), <1>a, <1>4, <2>1, ExistingDraft DEF Move, TypeOK
  <2> QED BY ZenonT(60), <2>2, DraftKeeps
<1>5. ASSUME NEW u \in Uuid, NEW o \in Uuid, Delete(p, u, o) PROVE IndInv'
  <2>1. nodes[u].path \in Place /\ Trash(o) \in Place /\ Trash(o) \notin Public
    BY ZenonT(60), <1>a, <1>5, PlaceType DEF Delete, PublicRow, Row, TypeOK, NodeRow
  <2>2. Plan({nodes[u].path, Trash(o)}) = Plan({nodes[u].path})
    BY ZenonT(60), <1>a, <2>1, PlanFacts
  <2>3. \E op, ks : DraftStep(p, op, ks)
    BY ZenonT(60), <1>a, <1>5, <2>1, <2>2, ExistingDraft DEF Delete, TypeOK
  <2> QED BY ZenonT(60), <2>3, DraftKeeps
<1>6. ASSUME NEW u \in Uuid, NEW v \in Uuid, NEW o \in Uuid, RestoreRevision(p, u, v, o) PROVE IndInv'
  <2>1. nodes[u].path \in Place /\ Tmp(o) \in Place /\ Tmp(o) \notin Public
    BY ZenonT(60), <1>a, <1>6, PlaceType DEF RestoreRevision, PublicRow, Row, TypeOK, NodeRow
  <2>2. Plan({Tmp(o), nodes[u].path}) = Plan({nodes[u].path})
    BY ZenonT(60), <1>a, <2>1, PlanFacts
  <2>3. fs' \in [Place -> Content \cup {None}]
    BY <1>a, <1>6, PlaceType DEF RestoreRevision, TypeOK
  <2>4. \E op, ks : DraftStep(p, op, ks)
    BY ZenonT(60), <1>6, <2>1, <2>2, <2>3, ExistingDraft DEF RestoreRevision
  <2> QED BY ZenonT(60), <2>4, DraftKeeps
<1> QED BY <1>1, <1>2, <1>3, <1>4, <1>5, <1>6, FinishUploadStep DEF Request

----------------------------------------------------------------------------
(* apply writes the intent.                                                *)

(* Every pending intent but a creation has a row for its node.             *)
LEMMA IntentHasRow ==
    ASSUME IndInv, NEW o \in Pending, operations[o].kind # "create"
    PROVE  Row(operations[o].node)
<1>1. operations[o] \in Operation /\ o \in Uuid
  BY ZenonT(60) DEF IndInv, TypeOK, Pending
<1>2. IntentOK(o, operations[o]) /\ operations[o].id = o
  BY ZenonT(60) DEF IndInv, TablesOK, PendingOK, IntentOK
<1>3. CASE operations[o].kind = "restore"
  <2>1. /\ retained[o] # None /\ retained[o].kind = "trash"
        /\ retained[o].node = operations[o].node
    BY ZenonT(60), <1>2, <1>3 DEF IntentOK, RowsOK
  <2> QED BY ZenonT(60), <1>1, <2>1 DEF IndInv, TablesOK, TrashOK, RowAt
<1>4. CASE operations[o].kind \in {"replace", "move", "trash"}
  BY ZenonT(60), <1>2, <1>4 DEF IntentOK, RowsOK, RowAt
<1> QED BY <1>1, <1>3, <1>4 DEF Operation, Kind

(* The key of a node about to be created is in no manifest, and held by    *)
(* nobody outside finish.                                                  *)
LEMMA NewNodeUnlocked ==
    ASSUME IndInv, NEW p \in Proc, proc[p].pc = "journal", proc[p].op.kind = "create",
           operations[proc[p].op.id] = None
    PROVE  /\ \A o \in Pending : NodeKey(proc[p].op.node) \notin operations[o].locks
           /\ \A q \in Proc : ~Inside(proc[q]) => NodeKey(proc[p].op.node) \notin proc[q].held
<1> DEFINE op == proc[p].op
<1>1. op \in Operation /\ Draft(proc[p]) = op /\ DraftOK(op, proc[p].held)
  BY ZenonT(60), NoneAssumption DEF IndInv, TypeOK, LocalOK, ShapeOK, Draft, ProcState
<1>2. op.node \in Uuid /\ op.id \in Uuid /\ op.node = IF op.session = None THEN op.id ELSE op.session
  BY ZenonT(60), <1>1 DEF Operation, DraftOK, OpShape
<1>3. ~Row(op.node)
  BY ZenonT(60), <1>1, <1>2 DEF DraftOK, IndInv, TablesOK, SessionsOK
<1>4. ASSUME NEW o \in Pending PROVE NodeKey(op.node) \notin operations[o].locks
  <2>1. o \in Uuid /\ operations[o] \in Operation /\ IntentOK(o, operations[o])
    BY DEF IndInv, TypeOK, Pending, TablesOK, PendingOK
  <2>2. operations[o].node # op.node
    <3>1. CASE operations[o].kind # "create"
      BY <1>3, <3>1, IntentHasRow
    <3>2. CASE operations[o].kind = "create"
      <4>1. /\ operations[o] # None /\ uploads[o] = None
            /\ operations[o].node = IF operations[o].session = None THEN o ELSE operations[o].session
            /\ operations[o].session # None => uploads[operations[o].session] # None
        BY ZenonT(60), <2>1, <3>2 DEF IntentOK, OpShape, Pending
      <4>2. /\ uploads[op.id] = None /\ operations[op.id] = None
            /\ op.session # None => uploads[op.session] # None /\ operations[o].session # op.session
        BY ZenonT(60), <1>1 DEF DraftOK
      <4> HIDE DEF op
      <4> QED BY ZenonT(60), <1>2, <4>1, <4>2
    <3> QED BY <3>1, <3>2
  <2> QED BY ZenonT(60), <1>2, <1>3, <2>1, <2>2 DEF IntentOK
<1>5. \A q \in Proc : ~Inside(proc[q]) => NodeKey(op.node) \notin proc[q].held
  BY ZenonT(60), <1>2, <1>3 DEF IndInv, LocalOK, HeldOK
<1> QED BY <1>4, <1>5

(* The manifest of the new intent is disjoint from those in the journal    *)
(* and from what others hold.                                              *)
LEMMA NewManifest ==
    ASSUME IndInv, NEW p \in Proc, proc[p].pc = "journal", operations[proc[p].op.id] = None
    PROVE  /\ \A o \in Pending : OperationLocks(proc[p].op) \cap operations[o].locks = {}
           /\ \A q \in Proc \ {p} : ~Inside(proc[q]) =>
                OperationLocks(proc[p].op) \cap proc[q].held = {}
           /\ Anchor(proc[p].op) \in proc[p].held
<1> DEFINE op == proc[p].op
           pl == Plan({op.source, op.target})
<1>1. /\ op \in Operation /\ Draft(proc[p]) = op /\ OpShape(op)
      /\ pl \subseteq proc[p].held
      /\ op.kind # "create" => NodeKey(op.node) \in proc[p].held
  BY ZenonT(60), NoneAssumption DEF IndInv, TypeOK, LocalOK, ShapeOK, Draft, ProcState, JournalOK, DraftOK
<1>2. OperationLocks(op) = pl \cup {NodeKey(op.node)}
  BY DEF OperationLocks
<1>3. \A o \in Pending : proc[p].held \cap operations[o].locks = {}
  BY ZenonT(60) DEF IndInv, LocalOK, HeldOK, Inside
<1>4. \A q \in Proc \ {p} : proc[p].held \cap proc[q].held = {}
  BY DEF IndInv, HeldDisjoint, Held
<1>5. Anchor(op) \in proc[p].held
  <2>1. op.kind = "create" => op.target \in pl
    BY ZenonT(60), <1>1 DEF OpShape, Plan
  <2> QED BY ZenonT(60), <1>1, <2>1 DEF Anchor
<1> HIDE DEF pl
<1>6. CASE op.kind = "create"
  <2>1. /\ \A o \in Pending : NodeKey(op.node) \notin operations[o].locks
        /\ \A q \in Proc : ~Inside(proc[q]) => NodeKey(op.node) \notin proc[q].held
    BY <1>6, NewNodeUnlocked
  <2> QED BY ZenonT(60), <1>1, <1>2, <1>3, <1>4, <1>5, <2>1
<1>7. CASE op.kind # "create"
  BY ZenonT(60), <1>1, <1>2, <1>3, <1>4, <1>5, <1>7 DEF op
<1> QED BY ZenonT(60), <1>6, <1>7

LEMMA ApplyStep == ASSUME IndInv, NEW p \in Proc, Apply(p) PROVE IndInv'
<1> DEFINE s == proc[p]
           d == s.op
           op == Recorded(d)
<1>1. /\ s \in ProcState /\ s.pc = "journal" /\ LocalOK(s) /\ d \in Operation /\ s.request = None
      /\ Draft(s) = d /\ d # None /\ d.id \in Uuid /\ d.kind \in Kind /\ d.node \in Uuid
      /\ d.source \in Place /\ d.target \in Place
  BY NoneAssumption DEF Apply, IndInv, TypeOK, LocalOK, ShapeOK, Draft, ProcState, Operation
<1>2. /\ OpShape(d) /\ DraftOK(d, s.held) /\ RowRecorded(d) /\ RowsOK(d)
  BY ZenonT(60), <1>1 DEF LocalOK, DraftOK, JournalOK
<1>3. OperationLocks(d) \in SUBSET Key
  BY ZenonT(60), <1>1, PlanType, KeyType DEF OperationLocks, IndInv
<1>4. op \in Operation
  BY ZenonT(60), <1>1, <1>3 DEF Recorded, Operation, IndInv, TypeOK
<1>5. /\ op.id = d.id /\ op.kind = d.kind /\ op.source = d.source /\ op.target = d.target
      /\ op.session = d.session /\ op.node = d.node /\ op.row = d.row
      /\ op.locks = OperationLocks(d)
  BY <1>1 DEF Recorded, Operation
<1>6. /\ operations[d.id] = None /\ operations' = [operations EXCEPT ![d.id] = op]
      /\ proc' = [proc EXCEPT ![p].pc = FirstStep(op), ![p].op = op]
      /\ UNCHANGED <<fs, nodes, retained, uploads, completed, outbox, issued, crashes, edits>>
  BY <1>5 DEF Apply
<1> HIDE DEF op
<1>7. FirstStep(op) \in {"backup", "publish"}
  BY DEF FirstStep
<1>8. /\ proc' \in [Proc -> ProcState] /\ \A q \in Proc \ {p} : proc'[q] = proc[q]
      /\ proc'[p].pc \in {"backup", "publish"} /\ proc'[p].op = op
      /\ proc'[p].request = None /\ proc'[p].held = s.held
  BY ZenonT(60), <1>1, <1>4, <1>6, <1>7 DEF IndInv, TypeOK, ProcState, Pc
<1>9. /\ operations' \in [Uuid -> Operation \cup {None}] /\ operations'[d.id] = op
      /\ \A o \in Uuid \ {d.id} : operations'[o] = operations[o]
  BY <1>1, <1>4, <1>6 DEF IndInv, TypeOK
<1>10. TypeOK'
  BY <1>6, <1>8, <1>9 DEF IndInv, TypeOK
<1>11. Pending' = Pending \cup {d.id} /\ d.id \notin Pending /\ op # None
  BY <1>1, <1>4, <1>6, <1>9, NoneAssumption DEF Pending
<1>12. /\ \A o \in Pending : op.locks \cap operations[o].locks = {}
       /\ \A q \in Proc \ {p} : ~Inside(proc[q]) => op.locks \cap proc[q].held = {}
       /\ Anchor(d) \in s.held
  BY <1>1, <1>5, <1>6, NewManifest
<1>13. OpShape(op) /\ RowRecorded(op) /\ RowsOK(op)
  BY ZenonT(60), <1>2, <1>5 DEF OpShape, RowRecorded, RowsOK
<1>14. ManifestOK(op) /\ \A u \in Uuid : NodeKey(u) \in op.locks => Row(u) \/ u = op.node
  <2>1. \A k \in op.locks : k[1] \in {"node", "entry"}
    <3>1. \A k \in Plan({d.source, d.target}) : k[1] \in {"node", "entry"}
      BY DEF Plan, NodeKey, Public
    <3>2. NodeKey(d.node)[1] = "node"
      BY DEF NodeKey
    <3> QED BY ZenonT(60), <1>5, <3>1, <3>2 DEF OperationLocks
  <2>2. {op.source, op.target} \cap Public \subseteq op.locks /\ NodeKey(op.node) \in op.locks
    BY ZenonT(60), <1>5 DEF OperationLocks, Plan
  <2>3. TypeOK /\ \A u \in Uuid : NodeKey(u) \in Plan({d.source, d.target}) => Row(u)
    BY ZenonT(60), <1>1, PlanFacts DEF IndInv
  <2>4. \A u \in Uuid : NodeKey(u) = NodeKey(d.node) => u = d.node
    BY DEF NodeKey
  <2> QED BY ZenonT(60), <1>5, <2>1, <2>2, <2>3, <2>4 DEF ManifestOK, OperationLocks
<1>15. \A c \in completed : c[1] = d.id => op.kind = "restore" /\ c = <<d.id, "trash", op.node>>
  <2>1. CASE d.kind # "restore"
    BY ZenonT(60), <1>2, <2>1 DEF DraftOK
  <2>2. CASE d.kind = "restore"
    BY ZenonT(60), <1>1, <1>2, <1>5, <2>2 DEF RowsOK, IndInv, TablesOK, TrashOK
  <2> QED BY ZenonT(60), <2>1, <2>2
<1>16. IntentOK(d.id, op)
  BY ZenonT(60), <1>2, <1>5, <1>13, <1>14, <1>15 DEF IntentOK, DraftOK
<1>18. PendingOK'
  <2> SUFFICES ASSUME NEW o \in Pending' PROVE IntentOK(o, operations[o])'
    BY DEF PendingOK
  <2>1. CASE o = d.id
    BY ZenonT(180), <1>6, <1>9, <1>16, <2>1 DEF IntentOK, OpShape, ManifestOK, RowsOK, RowAt, Row, RowRecorded
  <2>2. CASE o # d.id
    <3>1. o \in Pending /\ operations'[o] = operations[o]
      BY ZenonT(60), <1>9, <1>11, <2>2 DEF Pending
    <3>2. IntentOK(o, operations[o])
      BY ZenonT(60), <3>1 DEF IndInv, TablesOK, PendingOK
    <3> QED BY ZenonT(60), <1>6, <3>1, <3>2 DEF IntentOK, OpShape, ManifestOK, RowsOK, RowAt, Row, RowRecorded
  <2> QED BY <2>1, <2>2
<1>19. \A o \in Pending : op.session # None => operations[o].session # op.session
  BY ZenonT(60), <1>2, <1>5 DEF DraftOK
<1>20. SessionsDistinct' /\ IntentsIndependent'
  <2>1. \A o \in Pending : operations'[o] = operations[o]
    BY <1>9, <1>11 DEF Pending
  <2>2. SessionsDistinct'
    BY <1>9, <1>11, <1>19, <2>1 DEF IndInv, TablesOK, SessionsDistinct
  <2>3. IntentsIndependent'
    BY ZenonT(60), <1>9, <1>11, <1>12, <2>1 DEF IndInv, TablesOK, IntentsIndependent
  <2> QED BY <2>2, <2>3
<1>21. TablesOK'
  BY <1>6, <1>18, <1>20 DEF IndInv, TablesOK, TrashOK, SessionsOK, UsedIsIssued, Row, RowAt
<1>22. LocalOK(proc[p])'
  <2>1. ShapeOK(proc[p])' /\ (proc[p].op # None => RowRecorded(proc[p].op))'
    BY ZenonT(60), <1>8, <1>11, <1>13 DEF ShapeOK, RowRecorded
  <2>2. Draft(proc[p])' = None
    BY <1>8 DEF Draft
  <2>3. JournalOK(proc[p])' /\ HeldOK(proc[p])' /\ PickedOK(proc[p])'
    BY ZenonT(60), <1>8 DEF JournalOK, HeldOK, Inside, PickedOK
  <2>4. InsideOK(proc[p])'
    BY ZenonT(60), <1>5, <1>8, <1>9, <1>12 DEF InsideOK, Anchor
  <2> QED BY ZenonT(60), <2>1, <2>2, <2>3, <2>4 DEF LocalOK
<1>23. ASSUME NEW q \in Proc \ {p} PROVE LocalOK(proc[q])'
  <2>1. proc'[q] = proc[q] /\ LocalOK(proc[q]) /\ proc[q] \in ProcState
    BY <1>8 DEF IndInv, TypeOK
  <2>2. ShapeOK(proc[q])' /\ (proc[q].op # None => RowRecorded(proc[q].op))'
    BY ZenonT(60), <2>1 DEF LocalOK, ShapeOK, RowRecorded
  <2>3. JournalOK(proc[q])'
    BY ZenonT(60), <1>6, <2>1 DEF LocalOK, JournalOK, RowsOK, RowAt, Row, Plan
  <2>4. HeldOK(proc[q])'
    <3>1. \A o \in Pending : operations'[o] = operations[o]
      BY ZenonT(60), <1>9, <1>11 DEF Pending
    <3> QED BY ZenonT(60), <1>6, <1>9, <1>11, <1>12, <2>1, <3>1 DEF LocalOK, HeldOK, Inside, Row
  <2>5. proc[q].op # None => proc[q].op \in Operation /\ proc[q].op.id \in Uuid
    BY ZenonT(60), <2>1 DEF ProcState, Operation
  <2>6. InsideOK(proc[q])' /\ PickedOK(proc[q])'
    <3>1. proc[q].op # None /\ operations[proc[q].op.id] = proc[q].op
            => operations'[proc[q].op.id] = proc[q].op
      BY ZenonT(60), <1>6, <1>9, <2>5
    <3>2. proc[q].pc \in {"picked", "backup", "publish", "commit"} => proc[q].op # None
      BY ZenonT(60), <2>1 DEF LocalOK, ShapeOK
    <3>3. InsideOK(proc[q])'
      BY ZenonT(60), <2>1, <3>1, <3>2 DEF LocalOK, InsideOK, Inside, Anchor
    <3>4. PickedOK(proc[q])'
      <4>1. OpShape(proc[q].op)' = OpShape(proc[q].op) /\ ManifestOK(proc[q].op)' = ManifestOK(proc[q].op)
        BY ZenonT(60), <2>1 DEF OpShape, ManifestOK
      <4>2. completed' = completed /\ PickedOK(proc[q])
        BY <1>6, <2>1 DEF LocalOK
      <4> QED BY ZenonT(60), <2>1, <3>1, <3>2, <4>1, <4>2 DEF PickedOK
    <3> QED BY <3>3, <3>4
  <2>7. ASSUME Draft(proc[q]) # None PROVE DraftOK(Draft(proc[q]), proc[q].held)'
    <3> DEFINE e == Draft(proc[q])
    <3>1. DraftOK(e, proc[q].held) /\ e \in Operation /\ e.id \in Uuid
      BY ZenonT(60), <2>1, <2>7 DEF LocalOK, Draft, ProcState, Operation
    <3>2. e.kind # "restore" => e.id # d.id
      BY ZenonT(60), <1>1, <2>7 DEF IndInv, DraftsDistinct
    <3>3. e.session # None => e.session # op.session
      BY ZenonT(60), <1>2, <1>5, <3>1 DEF DraftOK, IndInv, HeldDisjoint, Held
    <3>4. Draft(proc[q])' = e
      BY ZenonT(60), <2>1 DEF Draft
    <3> HIDE DEF e
    <3>5. \A o \in Pending' : e.session # None => operations'[o].session # e.session
      BY ZenonT(60), <1>9, <1>11, <3>1, <3>3 DEF DraftOK, Pending
    <3>6. e.kind # "restore" => operations'[e.id] = None
      BY ZenonT(60), <1>9, <3>1, <3>2 DEF DraftOK
    <3>7. OpShape(Draft(proc[q]))' = OpShape(e)
      BY ZenonT(60), <3>4 DEF OpShape
    <3> QED BY ZenonT(60), <1>6, <2>1, <3>1, <3>4, <3>5, <3>6, <3>7 DEF DraftOK, Row
  <2>8. (Draft(proc[q]) # None)' => Draft(proc[q]) # None
    BY <2>1 DEF Draft
  <2> QED BY ZenonT(60), <2>2, <2>3, <2>4, <2>6, <2>7, <2>8 DEF LocalOK
<1>24. HeldDisjoint'
  BY ZenonT(60), <1>8 DEF IndInv, HeldDisjoint, Held
<1>25. DraftsDistinct'
  <2>1. Draft(proc[p])' = None /\ \A q \in Proc \ {p} : Draft(proc[q])' = Draft(proc[q])
    BY ZenonT(60), <1>8 DEF Draft
  <2> QED BY ZenonT(60), <2>1 DEF IndInv, DraftsDistinct
<1> QED BY <1>10, <1>21, <1>22, <1>23, <1>24, <1>25 DEF IndInv

----------------------------------------------------------------------------
(* Uploads that start or are dropped, metadata edits, direct edits, scans. *)

LEMMA ExternalEditStep ==
    ASSUME IndInv, NEW n \in Name, NEW c \in Bytes \cup {None}, ExternalEdit(n, c)
    PROVE  IndInv'
<1>1. TypeOK'
  BY PlaceType DEF ExternalEdit, IndInv, TypeOK, tables, Content
<1>2. UNCHANGED <<tables, proc, issued>>
  BY DEF ExternalEdit
<1> QED BY ZenonT(60), <1>1, <1>2, TablesSame, LocalSame, ProcsSame DEF IndInv

LEMMA StartUploadStep ==
    ASSUME IndInv, NEW s \in Uuid, NEW n \in Name, NEW b \in Bytes, StartUpload(s, n, b)
    PROVE  IndInv'
<1>1. /\ s \in Fresh /\ issued' = issued \cup {s}
      /\ UNCHANGED <<fs, nodes, operations, retained, completed, outbox, proc, crashes, edits>>
  BY ZenonT(60) DEF StartUpload
<1>2. \E r \in Upload : r.result = None /\ uploads' = [uploads EXCEPT ![s] = r]
  <2>1. PICK x \in Uuid \cup {None} :
          /\ IF x = None THEN ~\E u \in Uuid : RowAt(u, Entry(n)) ELSE RowAt(x, Entry(n))
          /\ uploads' = [uploads EXCEPT ![s] =
               [name |-> n, expectedID |-> x,
                expectedETag |-> IF x = None THEN 0 ELSE nodes[x].etag,
                staged |-> b, result |-> None]]
    BY ZenonT(60) DEF StartUpload
  <2>2. (IF x = None THEN 0 ELSE nodes[x].etag) \in Nat
    BY ZenonT(60), <2>1 DEF IndInv, TypeOK, RowAt, Row, NodeRow
  <2> QED BY ZenonT(60), <2>1, <2>2 DEF Upload
<1>3. PICK r \in Upload : r.result = None /\ uploads' = [uploads EXCEPT ![s] = r]
  BY ZenonT(60), <1>2
<1>4. /\ uploads' \in [Uuid -> Upload \cup {None}] /\ uploads'[s] = r
      /\ \A t \in Uuid \ {s} : uploads'[t] = uploads[t]
  BY ZenonT(60), <1>3 DEF IndInv, TypeOK
<1>5. TypeOK'
  BY ZenonT(60), <1>1, <1>4 DEF IndInv, TypeOK
<1>6. s \notin issued /\ uploads[s] = None /\ ~Row(s) /\ Pending' = Pending
  BY ZenonT(60), <1>1, FreshUnused DEF Fresh, Pending
<1>7. TablesOK'
  <2>1. PendingOK'
    <3> SUFFICES ASSUME NEW o \in Pending PROVE IntentOK(o, operations[o])'
      BY <1>6 DEF PendingOK
    <3>1. IntentOK(o, operations[o]) /\ operations[o] \in Operation /\ o \in Uuid
      BY ZenonT(60) DEF IndInv, TypeOK, TablesOK, PendingOK, Pending
    <3>2. operations[o].session # None =>
            operations[o].session \in Uuid \ {s}
      BY ZenonT(60), <1>6, <3>1 DEF IntentOK, Operation
    <3> QED BY ZenonT(60), <1>1, <1>4, <1>6, <3>1, <3>2 DEF IntentOK, OpShape, ManifestOK, RowsOK, RowAt, Row, RowRecorded
  <2>2. SessionsDistinct' /\ IntentsIndependent' /\ UsedIsIssued'
    BY ZenonT(60), <1>1, <1>6 DEF IndInv, TablesOK, SessionsDistinct, IntentsIndependent, UsedIsIssued, Row
  <2>3. TrashOK' /\ SessionsOK'
    BY ZenonT(60), <1>1, <1>4, <1>6 DEF IndInv, TablesOK, TrashOK, SessionsOK, RowAt, Row
  <2> QED BY ZenonT(60), <2>1, <2>2, <2>3 DEF TablesOK
<1>8. ASSUME NEW q \in Proc PROVE LocalOK(proc[q])'
  <2>1. proc'[q] = proc[q] /\ LocalOK(proc[q]) /\ proc[q] \in ProcState
    BY ZenonT(60), <1>1 DEF IndInv, TypeOK
  <2>2. JournalOK(proc[q])' /\ HeldOK(proc[q])'
    BY ZenonT(60), <1>1, <1>6, <2>1 DEF LocalOK, JournalOK, HeldOK, Inside, RowsOK, RowAt, Row, Plan
  <2>3. ASSUME Draft(proc[q]) # None PROVE DraftKept(Draft(proc[q]))
    <3> DEFINE d == Draft(proc[q])
    <3>1. DraftOK(d, proc[q].held) /\ d \in Operation /\ d.id \in Uuid /\ d.session \in Uuid \cup {None}
      BY ZenonT(60), <2>1, <2>3 DEF LocalOK, Draft, ProcState, Operation
    <3> HIDE DEF d
    <3>2. DraftKept(d)
      BY ZenonT(60), <1>1, <1>4, <1>6, <3>1 DEF DraftOK, DraftKept, Row
    <3> QED BY <3>2 DEF d
  <2> QED BY ZenonT(60), <1>1, <2>1, <2>2, <2>3, LocalKept DEF LocalOK, InsideOK, PickedOK
<1> QED BY ZenonT(60), <1>1, <1>5, <1>7, <1>8, ProcsSame

LEMMA DropUploadStep == ASSUME IndInv, NEW s \in Uuid, DropUpload(s) PROVE IndInv'
<1>1. /\ Free({SessionKey(s)}) /\ \A o \in Pending : operations[o].session # s
      /\ UNCHANGED <<fs, nodes, operations, retained, completed, outbox, proc, issued, crashes, edits>>
  BY ZenonT(60) DEF DropUpload
<1>2. /\ uploads' \in [Uuid -> Upload \cup {None}] /\ uploads'[s] = None
      /\ \A t \in Uuid \ {s} : uploads'[t] = uploads[t]
  BY ZenonT(60) DEF DropUpload, IndInv, TypeOK
<1>3. TypeOK' /\ Pending' = Pending
  BY ZenonT(60), <1>1, <1>2 DEF IndInv, TypeOK, Pending
<1>4. TablesOK'
  <2>1. PendingOK'
    <3> SUFFICES ASSUME NEW o \in Pending PROVE IntentOK(o, operations[o])'
      BY <1>3 DEF PendingOK
    <3>1. IntentOK(o, operations[o]) /\ operations[o] \in Operation /\ o \in Uuid
      BY DEF IndInv, TypeOK, TablesOK, PendingOK, Pending
    <3>2. operations[o].session # None => operations[o].session \in Uuid \ {s}
      BY ZenonT(60), <1>1, <3>1 DEF Operation
    <3> QED BY ZenonT(60), <1>1, <1>2, <3>1, <3>2 DEF IntentOK, OpShape, ManifestOK, RowsOK, RowAt, Row, RowRecorded
  <2>2. SessionsDistinct' /\ IntentsIndependent' /\ UsedIsIssued'
    BY ZenonT(60), <1>1, <1>3 DEF IndInv, TablesOK, SessionsDistinct, IntentsIndependent, UsedIsIssued, Row
  <2>3. TrashOK' /\ SessionsOK'
    BY ZenonT(60), <1>1, <1>2 DEF IndInv, TablesOK, TrashOK, SessionsOK, RowAt, Row
  <2> QED BY ZenonT(60), <2>1, <2>2, <2>3 DEF TablesOK
<1>5. ASSUME NEW q \in Proc PROVE LocalOK(proc[q])'
  <2>1. proc'[q] = proc[q] /\ LocalOK(proc[q]) /\ proc[q] \in ProcState
    BY ZenonT(60), <1>1 DEF IndInv, TypeOK
  <2>2. JournalOK(proc[q])' /\ HeldOK(proc[q])'
    BY ZenonT(60), <1>1, <1>3, <2>1 DEF LocalOK, JournalOK, HeldOK, Inside, RowsOK, RowAt, Row, Plan
  <2>3. ASSUME Draft(proc[q]) # None PROVE DraftKept(Draft(proc[q]))
    <3> DEFINE d == Draft(proc[q])
    <3>1. DraftOK(d, proc[q].held) /\ d \in Operation /\ d.id \in Uuid /\ d.session \in Uuid \cup {None}
      BY ZenonT(60), <2>1, <2>3 DEF LocalOK, Draft, ProcState, Operation
    <3> HIDE DEF d
    <3>2. d.session # None => d.session # s
      BY ZenonT(60), <1>1, <3>1 DEF DraftOK, Free, Held
    <3>3. DraftKept(d)
      BY <1>1, <1>2, <1>3, <3>1, <3>2 DEF DraftOK, DraftKept, Row
    <3> QED BY <3>3 DEF d
  <2> QED BY ZenonT(60), <1>1, <2>1, <2>2, <2>3, LocalKept DEF LocalOK, InsideOK, PickedOK
<1> QED BY <1>1, <1>3, <1>4, <1>5, ProcsSame

LEMMA EditMetadataStep == ASSUME IndInv, NEW u \in Uuid, EditMetadata(u) PROVE IndInv'
<1>1. /\ UNCHANGED <<fs, operations, retained, uploads, completed, outbox, proc, issued, crashes, edits>>
      /\ BeginRefs(Plan({nodes[u].path})) /\ RowAt(u, nodes[u].path) /\ nodes[u].path \in Public
      /\ nodes[u] \in NodeRow /\ nodes[u].path \in Place
      /\ nodes' = [nodes EXCEPT ![u] = [nodes[u] EXCEPT !.etag = @ + 1]]
  BY DEF EditMetadata, PublicRow, RowAt, Row, IndInv, TypeOK, NodeRow
<1>2. [nodes[u] EXCEPT !.etag = @ + 1] \in NodeRow /\ [nodes[u] EXCEPT !.etag = @ + 1].path = nodes[u].path
  BY <1>1 DEF NodeRow
<1>3. /\ nodes' \in [Uuid -> NodeRow \cup {None}] /\ \A v \in Uuid \ {u} : nodes'[v] = nodes[v]
      /\ nodes'[u] # None /\ nodes'[u].path = nodes[u].path
  BY <1>1, <1>2, NoneAssumption DEF IndInv, TypeOK
<1>4. TypeOK' /\ Pending' = Pending
  BY <1>1, <1>3 DEF IndInv, TypeOK, Pending
<1>5. \A v \in Uuid : (nodes'[v] # None <=> nodes[v] # None) /\ (Row(v) => nodes'[v].path = nodes[v].path)
  BY <1>1, <1>3 DEF RowAt, Row
<1>6. NodeKey(u) \in Plan({nodes[u].path})
  BY <1>1 DEF Plan, RowAt
<1>7. /\ \A o \in Pending : NodeKey(u) \notin operations[o].locks
      /\ \A q \in Proc : NodeKey(u) \notin proc[q].held
  BY ZenonT(60), <1>1, <1>6 DEF BeginRefs, Overlaps, Free, Held
<1>8. TablesOK'
  <2>1. PendingOK'
    <3> SUFFICES ASSUME NEW o \in Pending PROVE IntentOK(o, operations[o])'
      BY <1>4 DEF PendingOK
    <3>1. IntentOK(o, operations[o]) /\ operations[o] \in Operation /\ o \in Uuid
      BY DEF IndInv, TypeOK, TablesOK, PendingOK, Pending
    <3>2. operations[o].node \in Uuid \ {u}
      BY ZenonT(60), <1>7, <3>1 DEF IntentOK, ManifestOK, Operation
    <3>3. RowsOK(operations[o])'
      BY <1>1, <1>3, <3>1, <3>2 DEF IntentOK, RowsOK, RowAt, Row
    <3> QED BY <1>1, <1>5, <3>1, <3>3 DEF IntentOK, OpShape, ManifestOK, Row, RowRecorded
  <2>2. SessionsDistinct' /\ IntentsIndependent' /\ UsedIsIssued'
    BY <1>1, <1>4, <1>5 DEF IndInv, TablesOK, SessionsDistinct, IntentsIndependent, UsedIsIssued, Row
  <2>3. TrashOK' /\ SessionsOK'
    BY ZenonT(180), <1>1, <1>5 DEF IndInv, TypeOK, RetainedRow, TablesOK, TrashOK, SessionsOK, RowAt, Row
  <2> QED BY <2>1, <2>2, <2>3 DEF TablesOK
<1>9. ASSUME NEW q \in Proc PROVE LocalOK(proc[q])'
  <2>1. proc'[q] = proc[q] /\ LocalOK(proc[q]) /\ proc[q] \in ProcState
    BY <1>1 DEF IndInv, TypeOK
  <2>2. HeldOK(proc[q])'
    BY ZenonT(60), <1>1, <1>4, <1>5, <2>1 DEF LocalOK, HeldOK, Inside, Row
  <2>3. JournalOK(proc[q])'
    <3> SUFFICES ASSUME proc[q].pc = "journal" PROVE JournalOK(proc[q])'
      BY <2>1 DEF JournalOK
    <3>1. proc[q].op \in Operation /\ proc[q].op.node \in Uuid
      BY ZenonT(60), <2>1 DEF LocalOK, ShapeOK, ProcState, Operation
    <3>2. proc[q].op.kind # "create" => proc[q].op.node # u
      BY ZenonT(60), <1>7, <2>1 DEF LocalOK, JournalOK
    <3>3. RowsOK(proc[q].op)'
      BY ZenonT(60), <1>1, <1>3, <2>1, <3>1, <3>2 DEF LocalOK, JournalOK, RowsOK, RowAt, Row
    <3>4. Plan({proc[q].op.source, proc[q].op.target})' = Plan({proc[q].op.source, proc[q].op.target})
      BY ZenonT(60), <1>5, <2>1 DEF Plan, Row
    <3> QED BY ZenonT(60), <2>1, <3>3, <3>4 DEF LocalOK, JournalOK
  <2>4. ASSUME Draft(proc[q]) # None PROVE DraftKept(Draft(proc[q]))
    <3> DEFINE d == Draft(proc[q])
    <3>1. DraftOK(d, proc[q].held) /\ d \in Operation /\ d.id \in Uuid
      BY ZenonT(60), <2>1, <2>4 DEF LocalOK, Draft, ProcState, Operation
    <3> HIDE DEF d
    <3>2. DraftKept(d)
      BY <1>1, <1>4, <1>5, <3>1 DEF DraftOK, DraftKept, Row
    <3> QED BY <3>2 DEF d
  <2> QED BY <1>1, <2>1, <2>2, <2>3, <2>4, LocalKept DEF LocalOK, InsideOK, PickedOK
<1> QED BY <1>1, <1>4, <1>8, <1>9, ProcsSame

LEMMA ScanStep ==
    ASSUME IndInv, NEW new \in FreshIds, NEW expired, Scan(new, expired)
    PROVE  IndInv'
<1>1. /\ Pending = {} /\ issued' = issued \cup {new[n] : n \in Imported}
      /\ nodes' = [u \in Uuid |-> Rescanned(u, new, expired)]
      /\ \A q \in Proc : proc[q].pc \in {"idle", "prepared", "picked"}
      /\ UNCHANGED <<fs, operations, retained, uploads, completed, proc, crashes, edits>>
  BY ZenonT(60) DEF Scan
<1>2. /\ nodes' \in [Uuid -> NodeRow \cup {None}]
      /\ \A u \in Uuid : nodes'[u] # None => u \in issued'
      /\ \A u \in issued : ~Row(u) => nodes'[u] = None
      /\ \A u \in Uuid : Row(u) /\ nodes[u].path \notin Public => nodes'[u] = nodes[u]
  <2> HIDE DEF IndInv
  <2>1. \A u \in Uuid : nodes'[u] = Rescanned(u, new, expired)
    BY ZenonT(60), <1>1
  <2>2. issued \subseteq Uuid /\ \A u \in Uuid : Row(u) => u \in issued
    BY ZenonT(60) DEF IndInv, TypeOK, TablesOK, UsedIsIssued
  <2> QED BY ZenonT(60), <1>1, <2>1, <2>2, RescannedRows
<1>3. outbox' \in [Event -> Nat]
  <2>1. outbox \in [Event -> Nat]
    BY ZenonT(60) DEF IndInv, TypeOK
  <2> DEFINE sent == UNION {ScanEvent(u, Rescanned(u, new, expired)) : u \in Uuid}
  <2>2. outbox' = [e \in Event |-> IF e \in sent THEN outbox[e] + 1 ELSE outbox[e]]
    BY ZenonT(60) DEF Scan
  <2> HIDE DEF sent
  <2>3. \A e \in Event : (IF e \in sent THEN outbox[e] + 1 ELSE outbox[e]) \in Nat
    BY <2>1
  <2> QED BY ZenonT(60), <2>2, <2>3
<1>4. issued \subseteq issued' /\ issued' \in SUBSET Uuid
  BY <1>1 DEF IndInv, TypeOK, FreshIds, Fresh
<1>5. TypeOK' /\ Pending' = {}
  BY ZenonT(60), <1>1, <1>2, <1>3, <1>4 DEF IndInv, TypeOK, Pending
<1>6. TablesOK'
  <2>1. PendingOK' /\ SessionsDistinct' /\ IntentsIndependent'
    BY <1>5 DEF PendingOK, SessionsDistinct, IntentsIndependent
  <2>2. UsedIsIssued' /\ SessionsOK'
    BY ZenonT(60), <1>1, <1>2, <1>4 DEF IndInv, TablesOK, UsedIsIssued, SessionsOK, Row
  <2>3. TrashOK'
    <3>1. ASSUME NEW r \in Uuid, retained[r] # None, retained[r].kind = "trash"
          PROVE  nodes'[retained[r].node] # None /\ nodes'[retained[r].node].path = Trash(r)
      <4>1. retained[r].node \in Uuid /\ RowAt(retained[r].node, Trash(r)) /\ Trash(r) \notin Public
        BY <3>1, PlaceType DEF IndInv, TypeOK, RetainedRow, TablesOK, TrashOK
      <4> QED BY <1>2, <4>1 DEF RowAt, Row
    <3>2. TrashOK /\ retained' = retained /\ uploads' = uploads /\ completed' = completed
      BY ZenonT(60), <1>1 DEF IndInv, TablesOK
    <3> QED BY <1>4, <3>1, <3>2 DEF TrashOK, RowAt, Row
  <2> QED BY <2>1, <2>2, <2>3 DEF TablesOK
<1>7. ASSUME NEW q \in Proc PROVE LocalOK(proc[q])'
  <2>1. proc'[q] = proc[q] /\ LocalOK(proc[q]) /\ proc[q] \in ProcState
    BY ZenonT(60), <1>1 DEF IndInv, TypeOK
  <2>2. JournalOK(proc[q])'
    BY ZenonT(60), <1>1, <2>1 DEF JournalOK
  <2>3. HeldOK(proc[q])'
    <3>1. \A u \in Uuid : NodeKey(u) \notin proc[q].held
      BY ZenonT(60), <1>1, <2>1, IdleType DEF LocalOK, ShapeOK, NodeKey, SessionKey
    <3> QED BY ZenonT(60), <1>5, <2>1, <3>1 DEF HeldOK
  <2>4. ASSUME Draft(proc[q]) # None PROVE DraftKept(Draft(proc[q]))
    <3> DEFINE d == Draft(proc[q])
    <3>1. DraftOK(d, proc[q].held) /\ d \in Operation /\ d.id \in Uuid
      BY ZenonT(60), <2>1, <2>4 DEF LocalOK, Draft, ProcState, Operation
    <3> HIDE DEF d
    <3>2. DraftKept(d)
      BY ZenonT(60), <1>1, <1>2, <1>4, <1>5, <3>1 DEF DraftOK, DraftKept, Row
    <3> QED BY <3>2 DEF d
  <2> QED BY ZenonT(60), <1>1, <2>1, <2>2, <2>3, <2>4, LocalKept DEF LocalOK, InsideOK, PickedOK
<1> QED BY ZenonT(60), <1>1, <1>5, <1>6, <1>7, ProcsSame

----------------------------------------------------------------------------
(* Every step keeps the invariant.                                         *)

LEMMA StutterStep == ASSUME IndInv, UNCHANGED vars PROVE IndInv'
<1>1. UNCHANGED <<tables, proc, issued>> /\ TypeOK'
  BY DEF vars, tables, IndInv, TypeOK
<1> QED BY <1>1, TablesSame, LocalSame, ProcsSame DEF IndInv

LEMMA IndNext == IndInv /\ [Next]_vars => IndInv'
<1> SUFFICES ASSUME IndInv, [Next]_vars PROVE IndInv'
  OBVIOUS
<1>1. ASSUME NEW p \in Proc, Request(p) PROVE IndInv'
  BY <1>1, RequestStep
<1>2. ASSUME NEW p \in Proc, Step(p) PROVE IndInv'
  <2>1. CASE WriteUpload(p)
    BY <2>1, WriteDraft, DraftKeeps
  <2>2. CASE AbandonUpload(p) \/ ApplyFails(p) \/ RecoveryStopped(p) \/ RecoverTimeout(p)
    BY <2>2, EndStep
  <2>3. CASE Apply(p)
    BY <2>3, ApplyStep
  <2>4. CASE Backup(p)
    BY <2>4, BackupStep
  <2>5. CASE Publish(p)
    BY <2>5, PublishStep
  <2>6. CASE Commit(p)
    BY <2>6, CommitStep
  <2>7. CASE RecoverOne(p)
    BY <2>7, RecoverStep
  <2> QED BY <1>2, <2>1, <2>2, <2>3, <2>4, <2>5, <2>6, <2>7 DEF Step
<1>3. ASSUME NEW p \in Proc, Crash(p) \/ IOError(p) PROVE IndInv'
  BY <1>3, EndStep
<1>4. ASSUME NEW p \in Proc, NEW o \in Uuid, RecoverPick(p, o) PROVE IndInv'
  BY <1>4, PickStep
<1>5. ASSUME NEW s \in Uuid, NEW n \in Name, NEW b \in Bytes, StartUpload(s, n, b) PROVE IndInv'
  BY <1>5, StartUploadStep
<1>6. ASSUME NEW u \in Uuid, EditMetadata(u) \/ DropUpload(u) PROVE IndInv'
  BY <1>6, EditMetadataStep, DropUploadStep
<1>7. ASSUME NEW n \in Name, NEW c \in Bytes \cup {None}, ExternalEdit(n, c) PROVE IndInv'
  BY <1>7, ExternalEditStep
<1>8. ASSUME NEW new \in FreshIds, NEW expired \in SUBSET {u \in Uuid : Row(u) /\ nodes[u].missing},
             Scan(new, expired)
      PROVE  IndInv'
  BY <1>8, ScanStep
<1>9. CASE UNCHANGED vars
  BY <1>9, StutterStep
<1> QED BY <1>1, <1>2, <1>3, <1>4, <1>5, <1>6, <1>7, <1>8, <1>9 DEF Next
=============================================================================
