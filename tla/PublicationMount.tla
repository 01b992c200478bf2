-------------------------- MODULE PublicationMount --------------------------
(***************************************************************************)
(* The mount and the tables agree: as long as nobody edits the mount       *)
(* behind the driver's back MountOK holds in every state, so finish never  *)
(* meets a state it refuses, rows describe the files, and what is replaced *)
(* is kept.                                                                *)
(***************************************************************************)
EXTENDS PublicationCommit

USE SMTT(20), ZenonT(60)

----------------------------------------------------------------------------
(* Places of the mount.                                                    *)

LEMMA PlacesDiffer ==
    ASSUME NEW u \in Uuid, NEW v \in Uuid
    PROVE  /\ Tmp(u) # Version(v) /\ Tmp(u) # Trash(v) /\ Version(u) # Trash(v)
           /\ Tmp(u) = Tmp(v) => u = v
           /\ Trash(u) = Trash(v) => u = v
           /\ Version(u) = Version(v) => u = v
BY DEF Tmp, Version, Trash

(* The places finish works on for an operation.                            *)
Places(op) == {op.source, op.target, Version(op.id)}

(* An intent in the journal and what IndInv says of it.                    *)
LEMMA IntentFacts ==
    ASSUME IndInv, NEW o \in Pending
    PROVE  /\ o \in Uuid /\ operations[o] \in Operation /\ operations[o] # None
           /\ operations[o].id = o /\ operations[o].kind \in Kind /\ operations[o].node \in Uuid
           /\ operations[o].source \in Place /\ operations[o].target \in Place
           /\ IntentOK(o, operations[o]) /\ OpShape(operations[o]) /\ ManifestOK(operations[o])
           /\ RowsOK(operations[o])
<1>1. o \in Uuid /\ operations[o] \in Operation /\ operations[o] # None
  BY DEF Pending, IndInv, TypeOK
<1>2. IntentOK(o, operations[o])
  BY ZenonT(60) DEF IndInv, TablesOK, PendingOK
<1>3. /\ operations[o].id = o /\ OpShape(operations[o]) /\ ManifestOK(operations[o])
      /\ RowsOK(operations[o])
  BY ZenonT(60), <1>2 DEF IntentOK
<1> QED BY <1>1, <1>2, <1>3 DEF Operation

(* A restore goes from the trash item of its node; others have none yet.   *)
LEMMA IntentTrash ==
    ASSUME IndInv, NEW o \in Pending
    PROVE  /\ operations[o].kind = "restore" => RowAt(operations[o].node, Trash(o))
           /\ operations[o].kind # "restore" => retained[o] = None
<1>1. /\ o \in Uuid /\ IntentOK(o, operations[o]) /\ RowsOK(operations[o]) /\ operations[o].id = o
  BY IntentFacts
<1>2. TrashOK
  BY ZenonT(60) DEF IndInv, TablesOK
<1> QED BY <1>1, <1>2 DEF IntentOK, RowsOK, TrashOK

(* Public places of an operation are in its manifest, the others have its  *)
(* id.                                                                     *)
LEMMA PlacesOwned ==
    ASSUME IndInv, NEW o \in Pending, NEW l \in Places(operations[o])
    PROVE  (l \in Public /\ l \in operations[o].locks) \/ l \in {Tmp(o), Trash(o), Version(o)}
<1>1. /\ operations[o].id = o /\ operations[o].kind \in Kind /\ OpShape(operations[o])
      /\ {operations[o].source, operations[o].target} \cap Public \subseteq operations[o].locks
  BY IntentFacts DEF ManifestOK
<1> QED BY <1>1 DEF Places, OpShape, Kind

(* Different intents work on different places.                             *)
LEMMA PlacesApart ==
    ASSUME IndInv, NEW o1 \in Pending, NEW o2 \in Pending, o1 # o2
    PROVE  Places(operations[o1]) \cap Places(operations[o2]) = {}
<1>1. operations[o1].locks \cap operations[o2].locks = {} /\ o1 \in Uuid /\ o2 \in Uuid
  BY DEF IndInv, TablesOK, IntentsIndependent, Pending
<1> SUFFICES ASSUME NEW l \in Places(operations[o1]), l \in Places(operations[o2]) PROVE FALSE
  OBVIOUS
<1>2. (l \in Public /\ l \in operations[o1].locks) \/ l \in {Tmp(o1), Trash(o1), Version(o1)}
  BY PlacesOwned
<1>3. (l \in Public /\ l \in operations[o2].locks) \/ l \in {Tmp(o2), Trash(o2), Version(o2)}
  BY PlacesOwned
<1> QED BY <1>1, <1>2, <1>3, PlaceType, PlacesDiffer

(* Rows of other nodes are elsewhere.                                      *)
LEMMA RowsApart ==
    ASSUME IndInv, RowsStand, PathsUnique, IntentsReady,
           NEW o \in Pending, NEW u \in Uuid, Row(u), u # operations[o].node
    PROVE  nodes[u].path \notin Places(operations[o])
<1> DEFINE op == operations[o]
           l == nodes[u].path
<1>1. /\ o \in Uuid /\ op.id = o /\ op.kind \in Kind /\ op.node \in Uuid /\ OpShape(op) /\ RowsOK(op)
  BY IntentFacts
<1>2. /\ op.kind = "restore" => RowAt(op.node, Trash(o))
      /\ op.kind # "restore" => retained[o] = None
  BY IntentTrash
<1>3. op.kind \in {"create", "move", "restore"} => ~RowAt(u, op.target)
  BY DEF IntentsReady, IntentReady
<1>4. l \in Public \/ \E r \in Uuid : l = Trash(r) /\ retained[r] # None
  BY DEF RowsStand
<1>5. \A x \in Place : RowAt(op.node, x) => l # x
  BY <1>1 DEF PathsUnique, RowAt
<1> HIDE DEF op
<1>6. l # Version(o) /\ l # Tmp(o)
  BY <1>1, <1>4, PlaceType, PlacesDiffer
<1>7. l = Trash(o) => op.kind = "restore"
  BY <1>1, <1>2, <1>4, PlaceType, PlacesDiffer
<1>8. l # op.source
  BY <1>1, <1>2, <1>5, <1>6, PlaceType DEF OpShape, RowsOK, Kind
<1>9. l # op.target
  BY <1>1, <1>3, <1>5, <1>7, PlaceType DEF OpShape, RowsOK, Kind, RowAt
<1> QED BY <1>1, <1>6, <1>8, <1>9 DEF Places, op

----------------------------------------------------------------------------
(* Steps that leave rows and journal alone.                                *)

(* What MountOK says of an intent depends on its places only.              *)
LEMMA IntentReadySame ==
    ASSUME NEW op, IntentReady(op), nodes' = nodes,
           \A l \in Places(op) : fs'[l] = fs[l]
    PROVE  IntentReady(op)'
<1>1. /\ fs'[op.source] = fs[op.source] /\ fs'[op.target] = fs[op.target]
      /\ fs'[Version(op.id)] = fs[Version(op.id)]
  BY DEF Places
<1>2. Unambiguous(op)' = Unambiguous(op)
  BY <1>1 DEF Unambiguous, PublishOK
<1> QED BY <1>2 DEF IntentReady, Row, RowAt

LEMMA ProcReadySame ==
    ASSUME NEW q, ProcReady(proc[q]), proc'[q] = proc[q], nodes' = nodes,
           Inside(proc[q]) => \A l \in Places(proc[q].op) : fs'[l] = fs[l]
    PROVE  ProcReady(proc[q])'
BY DEF ProcReady, Inside, Places

(* The operation of a process inside finish is in the journal.             *)
LEMMA InsideFacts ==
    ASSUME IndInv, NEW p \in Proc, Inside(proc[p])
    PROVE  /\ proc[p].op.id \in Pending /\ operations[proc[p].op.id] = proc[p].op
           /\ proc[p] \in ProcState
<1>1. proc[p] \in ProcState /\ LocalOK(proc[p])
  BY ZenonT(60) DEF IndInv, TypeOK
<1>2. operations[proc[p].op.id] = proc[p].op /\ proc[p].op # None
  BY <1>1 DEF LocalOK, InsideOK, ShapeOK, Inside
<1>3. proc[p].op.id \in Uuid
  BY <1>1, <1>2 DEF ProcState, Operation
<1> QED BY <1>1, <1>2, <1>3 DEF Pending

(* Requests, errors and crashes write and remove temporary files that no   *)
(* intent refers to.                                                       *)
LEMMA QuietKeeps ==
    ASSUME IndInv, MountOK, UNCHANGED <<nodes, operations, retained>>,
           \A l \in Place : (\A o \in Uuid \ Pending : l # Tmp(o)) => fs'[l] = fs[l],
           \A q \in Proc : proc'[q] = proc[q] \/ ProcReady(proc[q])'
    PROVE  MountOK'
<1>1. Pending' = Pending
  BY DEF Pending
<1>2. RowsStand' /\ PathsUnique'
  BY DEF MountOK, RowsStand, PathsUnique, Row
<1>3. /\ \A l \in Public : fs'[l] = fs[l]
      /\ \A o \in Uuid : fs'[Version(o)] = fs[Version(o)] /\ fs'[Trash(o)] = fs[Trash(o)]
      /\ \A o \in Pending : fs'[Tmp(o)] = fs[Tmp(o)]
  BY PlaceType, PlacesDiffer DEF Pending
<1>4. RowsMatch'
  <2> SUFFICES ASSUME NEW u \in Uuid, Row(u), \A o \in Pending : operations[o].node # u
               PROVE  fs'[nodes[u].path] = Seen(nodes[u].data)
    BY <1>1 DEF RowsMatch, Row
  <2>1. fs[nodes[u].path] = Seen(nodes[u].data)
    BY DEF MountOK, RowsMatch
  <2>2. nodes[u].path \in Public \/ \E r \in Uuid : nodes[u].path = Trash(r)
    BY DEF MountOK, RowsStand
  <2> QED BY <1>3, <2>1, <2>2
<1>5. EntriesKnown'
  BY <1>1, <1>3, PlaceType DEF MountOK, EntriesKnown, Row, RowAt
<1>6. VersionsKept'
  BY <1>1, <1>3 DEF MountOK, VersionsKept
<1>7. \A o \in Pending : \A l \in Places(operations[o]) : fs'[l] = fs[l]
  <2> SUFFICES ASSUME NEW o \in Pending, NEW l \in Places(operations[o]) PROVE fs'[l] = fs[l]
    OBVIOUS
  <2>1. o \in Uuid
    BY DEF Pending
  <2> QED BY <1>3, <2>1, PlacesOwned
<1>8. IntentsReady'
  <2> SUFFICES ASSUME NEW o \in Pending PROVE IntentReady(operations[o])'
    BY <1>1 DEF IntentsReady
  <2>1. IntentReady(operations[o])
    BY DEF MountOK, IntentsReady
  <2>2. \A l \in Places(operations[o]) : fs'[l] = fs[l]
    BY <1>7
  <2> DEFINE op == operations[o]
  <2>3. op' = op
    OBVIOUS
  <2> HIDE DEF op
  <2>4. ASSUME NEW w, w = op PROVE IntentReady(w)'
    BY <2>1, <2>2, <2>4, IntentReadySame DEF op
  <2> QED BY <2>4 DEF op
<1>9. \A q \in Proc : ProcReady(proc[q])'
  <2> SUFFICES ASSUME NEW q \in Proc, proc'[q] = proc[q] PROVE ProcReady(proc[q])'
    OBVIOUS
  <2>1. Inside(proc[q]) => \A l \in Places(proc[q].op) : fs'[l] = fs[l]
    BY <1>7, InsideFacts
  <2> QED BY <2>1, ProcReadySame DEF MountOK
<1> QED BY <1>2, <1>4, <1>5, <1>6, <1>8, <1>9 DEF MountOK

(* Two processes inside finish work on different operations.               *)
LEMMA FinishersApart ==
    ASSUME IndInv, NEW p \in Proc, NEW q \in Proc, p # q, Inside(proc[p]), Inside(proc[q])
    PROVE  proc[p].op.id # proc[q].op.id
<1>1. /\ Anchor(proc[p].op) \in proc[p].held /\ Anchor(proc[q].op) \in proc[q].held
      /\ operations[proc[p].op.id] = proc[p].op /\ operations[proc[q].op.id] = proc[q].op
  BY ZenonT(60) DEF IndInv, LocalOK, InsideOK
<1>2. proc[p].held \cap proc[q].held = {}
  BY DEF IndInv, HeldDisjoint, Held
<1> QED BY <1>1, <1>2

(* The renames of finish: only places of the operation change.             *)
LEMMA RenameKeeps ==
    ASSUME IndInv, MountOK, NEW p \in Proc, Inside(proc[p]),
           UNCHANGED <<nodes, operations, retained>>,
           \A l \in Place : l \notin Places(proc[p].op) => fs'[l] = fs[l],
           fs'[proc[p].op.source] \in {fs[proc[p].op.source], None},
           proc[p].op.kind # "replace" => fs'[Version(proc[p].op.id)] = fs[Version(proc[p].op.id)],
           \A w : w = proc[p].op => IntentReady(w)',
           \A q \in Proc \ {p} : proc'[q] = proc[q],
           ProcReady(proc[p])'
    PROVE  MountOK'
<1> DEFINE op == proc[p].op
<1>1. Pending' = Pending
  BY DEF Pending
<1>2. /\ op.id \in Pending /\ op.id \in Uuid /\ operations[op.id] = op
      /\ op.source \in Place /\ op.target \in Place
      /\ op.kind # "restore" => retained[op.id] = None
      /\ op.kind = "restore" => retained[op.id].kind = "trash"
  <2>1. op.id \in Pending /\ operations[op.id] = op
    BY ZenonT(60), InsideFacts
  <2>2. op.id \in Uuid /\ op.source \in Place /\ op.target \in Place /\ RowsOK(op)
    BY ZenonT(60), <2>1, IntentFacts
  <2>3. op.kind # "restore" => retained[op.id] = None
    BY ZenonT(60), <2>1, IntentTrash
  <2>4. op.kind = "restore" => retained[op.id].kind = "trash"
    BY <2>2 DEF RowsOK
  <2> QED BY ZenonT(60), <2>1, <2>2, <2>3, <2>4
<1>3. RowsStand' /\ PathsUnique'
  BY ZenonT(60) DEF MountOK, RowsStand, PathsUnique, Row
<1>4. RowsMatch'
  <2> SUFFICES ASSUME NEW u \in Uuid, Row(u), \A o \in Pending : operations[o].node # u
               PROVE  fs'[nodes[u].path] = Seen(nodes[u].data)
    BY <1>1 DEF RowsMatch, Row
  <2>1. fs[nodes[u].path] = Seen(nodes[u].data) /\ u # op.node
    BY <1>2 DEF MountOK, RowsMatch
  <2>2. nodes[u].path \notin Places(op)
    BY <1>2, <2>1, RowsApart DEF MountOK
  <2>3. nodes[u].path \in Place
    BY DEF IndInv, TypeOK, NodeRow, Row
  <2> QED BY <2>1, <2>2, <2>3
<1>5. EntriesKnown'
  <2> SUFFICES ASSUME NEW n \in Name, fs'[Entry(n)] # None,
                      ~\E o \in Pending : operations[o].target = Entry(n)
               PROVE  \E u \in Uuid : RowAt(u, Entry(n))
    BY <1>1 DEF EntriesKnown, Row, RowAt
  <2>1. Entry(n) # op.target /\ Entry(n) # Version(op.id) /\ Entry(n) \in Place
    BY <1>2, PlaceType
  <2>2. fs[Entry(n)] # None
    BY <1>2, <2>1 DEF Places
  <2> QED BY <2>2 DEF MountOK, EntriesKnown
<1>6. VersionsKept'
  <2> SUFFICES ASSUME NEW v \in Uuid
               PROVE  /\ retained[v] # None /\ retained[v].kind = "version" => fs'[Version(v)] = retained[v].row.data
                      /\ fs'[Version(v)] # None =>
                           \/ retained[v] # None /\ retained[v].kind = "version"
                           \/ v \in Pending /\ operations[v].kind = "replace"
    BY <1>1 DEF VersionsKept
  <2>1. CASE fs'[Version(v)] = fs[Version(v)]
    BY <2>1 DEF MountOK, VersionsKept
  <2>2. CASE fs'[Version(v)] # fs[Version(v)]
    <3>1. Version(v) \in Places(op) /\ Version(v) \in Place
      BY <2>2, PlaceType
    <3>2. v = op.id
      BY <1>2, <3>1, PlacesOwned, PlaceType, PlacesDiffer
    <3> QED BY ZenonT(60), <1>2, <2>2, <3>2
  <2> QED BY <2>1, <2>2
<1>7. \A o \in Pending \ {op.id} : \A l \in Places(operations[o]) : fs'[l] = fs[l]
  <2> SUFFICES ASSUME NEW o \in Pending \ {op.id}, NEW l \in Places(operations[o]) PROVE fs'[l] = fs[l]
    OBVIOUS
  <2>1. l \notin Places(op)
    BY ZenonT(60), <1>2, PlacesApart
  <2>2. l \in Place
    BY ZenonT(60), IntentFacts, PlaceType DEF Places
  <2> QED BY <2>1, <2>2
<1>8. IntentsReady'
  <2> SUFFICES ASSUME NEW o \in Pending PROVE \A w : w = operations[o] => IntentReady(w)'
    BY <1>1 DEF IntentsReady
  <2>1. CASE o = op.id
    BY <1>2, <2>1
  <2>2. CASE o # op.id
    <3>1. IntentReady(operations[o])
      BY DEF MountOK, IntentsReady
    <3>2. \A l \in Places(operations[o]) : fs'[l] = fs[l]
      BY <1>7, <2>2
    <3>3. ASSUME NEW w, w = operations[o] PROVE IntentReady(w)'
      BY <3>1, <3>2, <3>3, IntentReadySame
    <3> QED BY <3>3
  <2> QED BY ZenonT(60), <2>1, <2>2
<1>9. \A q \in Proc : ProcReady(proc[q])'
  <2> SUFFICES ASSUME NEW q \in Proc \ {p} PROVE ProcReady(proc[q])'
    OBVIOUS
  <2>1. Inside(proc[q]) => \A l \in Places(proc[q].op) : fs'[l] = fs[l]
    BY <1>7, InsideFacts, FinishersApart
  <2> QED BY <2>1, ProcReadySame DEF MountOK
<1> QED BY <1>3, <1>4, <1>5, <1>6, <1>8, <1>9 DEF MountOK

(* A scan sees what is there, be it recorded by a scan or by Stat.         *)
LEMMA SeenTwice == \A d : Seen(Seen(d)) = Seen(d)
BY DEF Seen

LEMMA SeenContent == \A c \in Content \cup {None} : Seen(c) = c /\ Seen(Stat(c)) = c
BY ConstantAssumption DEF Seen, Stat, Content

(* Rows describe contents, so a fingerprint of one is not that of nothing. *)
LEMMA RowData ==
    ASSUME IndInv, NEW u \in Uuid, Row(u)
    PROVE  /\ nodes[u] \in NodeRow /\ nodes[u].data # None /\ nodes[u].path \in Place
           /\ Seen(nodes[u].data) \in Content /\ Seen(nodes[u].data) # None
BY ConstantAssumption DEF IndInv, TypeOK, Row, NodeRow, Seen, Content

(* A row that passes expectNodeUnderLocks has what a scan would say.       *)
LEMMA ExactRow ==
    ASSUME IndInv, NEW u \in Uuid, Row(u), fs[nodes[u].path] = nodes[u].data
    PROVE  Seen(nodes[u].data) = nodes[u].data
<1>1. fs[nodes[u].path] \in Content \cup {None}
  BY RowData DEF IndInv, TypeOK
<1> QED BY <1>1, SeenContent

(* What a process inside finish knows.                                     *)
LEMMA FinishFacts ==
    ASSUME IndInv, MountOK, NEW p \in Proc, Inside(proc[p])
    PROVE  LET op == proc[p].op IN
           /\ op.id \in Uuid /\ op.id \in Pending /\ operations[op.id] = op /\ op.kind \in Kind
           /\ op.source \in Place /\ op.target \in Place /\ op.node \in Uuid
           /\ OpShape(op) /\ RowsOK(op) /\ IntentOK(op.id, op)
           /\ IntentReady(op) /\ ProcReady(proc[p])
           /\ op.source # op.target => {op.source, op.target} \cap {Version(op.id)} = {}
           /\ op.kind \in {"create", "replace", "trash", "restore"} => op.source # op.target
           /\ op.kind = "replace" => op.previous # None
<1> DEFINE op == proc[p].op
<1>1. op.id \in Pending /\ operations[op.id] = op
  BY InsideFacts
<1>2. /\ op.id \in Uuid /\ op.kind \in Kind /\ op.node \in Uuid /\ op.source \in Place /\ op.target \in Place
      /\ OpShape(op) /\ RowsOK(op) /\ IntentOK(op.id, op)
  BY ZenonT(60), <1>1, IntentFacts
<1>3. IntentReady(op) /\ ProcReady(proc[p])
  BY <1>1 DEF MountOK, IntentsReady
<1> HIDE DEF op
<1>4. op.source # Version(op.id) /\ op.target # Version(op.id)
  BY <1>2, PlaceType, PlacesDiffer DEF OpShape, Kind
<1>5. op.kind \in {"create", "replace", "trash", "restore"} => op.source # op.target
  BY <1>2, PlaceType DEF OpShape
<1>6. op.kind = "replace" => op.previous # None
  BY <1>2, <1>3, RowData DEF RowsOK, RowAt, IntentReady
<1> QED BY ZenonT(60), <1>1, <1>2, <1>3, <1>4, <1>5, <1>6 DEF op

LEMMA BackupKeeps == ASSUME IndInv, MountOK, NEW p \in Proc, Backup(p) PROVE MountOK'
<1> DEFINE op == proc[p].op
           V == Version(op.id)
<1>1. Inside(proc[p]) /\ proc[p].pc = "backup" /\ BackupOK(op)
  BY DEF Backup, Inside
<1>2. /\ op.id \in Uuid /\ op.id \in Pending /\ op.kind = "replace" /\ op.source \in Place /\ op.target \in Place
      /\ op.source # op.target /\ op.source # V /\ op.target # V /\ V \in Place
      /\ IntentReady(op) /\ op.previous # None
  <2>1. op.kind = "replace"
    BY ZenonT(60), <1>1, FinishFacts DEF ProcReady
  <2> QED BY ZenonT(60), <1>1, <2>1, FinishFacts, PlaceType
<1>3. /\ proc' = [proc EXCEPT ![p].pc = "publish"]
      /\ fs' = IF fs[V] = None THEN Move1(op.target, V) ELSE fs
      /\ UNCHANGED <<nodes, operations, retained>>
  BY DEF Backup, tables
<1>4. proc'[p].pc = "publish" /\ proc'[p].op = op /\ \A q \in Proc \ {p} : proc'[q] = proc[q]
  BY <1>3 DEF IndInv, TypeOK, ProcState
<1>5. fs \in [Place -> Content \cup {None}]
  BY DEF IndInv, TypeOK
<1> HIDE DEF op
<1>6. /\ \A l \in Place : l \notin {op.target, V} => fs'[l] = fs[l]
      /\ fs'[V] = op.previous /\ fs'[op.source] = fs[op.source]
      /\ fs[V] = None => fs'[op.target] = None /\ fs[op.source] = op.digest
      /\ fs[V] # None => fs' = fs
  <2>1. CASE fs[V] = None
    <3>1. fs[op.target] = op.previous /\ fs[op.source] = op.digest
      BY <1>2, <2>1 DEF IntentReady, Unambiguous
    <3> QED BY <1>2, <1>3, <1>5, <2>1, <3>1 DEF Move1
  <2>2. CASE fs[V] # None
    BY <1>1, <1>2, <1>3, <2>2 DEF BackupOK, op
  <2> QED BY <2>1, <2>2
<1>7. Unambiguous(op)' /\ op' = op
  <2>1. op' = op
    BY <1>4 DEF op
  <2>2. CASE fs[V] = None
    BY <1>2, <1>6, <2>1, <2>2 DEF Unambiguous, PublishOK
  <2>3. CASE fs[V] # None
    BY <1>2, <1>6, <2>1, <2>3 DEF IntentReady, Unambiguous, PublishOK
  <2> QED BY <2>1, <2>2, <2>3
<1>8. \A w : w = op => IntentReady(w)'
  BY <1>2, <1>3, <1>7 DEF IntentReady, Row, RowAt
<1>9. ProcReady(proc[p])'
  BY <1>2, <1>4, <1>6, <1>7 DEF ProcReady
<1>10. \A l \in Place : l \notin Places(op) => fs'[l] = fs[l]
  BY <1>6 DEF Places
<1>11. fs'[op.source] \in {fs[op.source], None}
  BY <1>6
<1> QED BY ZenonT(60), <1>1, <1>2, <1>3, <1>4, <1>8, <1>9, <1>10, <1>11, RenameKeeps DEF op

LEMMA PublishKeeps == ASSUME IndInv, MountOK, NEW p \in Proc, Publish(p) PROVE MountOK'
<1> DEFINE op == proc[p].op
           V == Version(op.id)
<1>1. Inside(proc[p]) /\ proc[p].pc = "publish" /\ PublishOK(op)
  BY DEF Publish, Inside
<1>2. /\ op.id \in Uuid /\ op.id \in Pending /\ op.source \in Place /\ op.target \in Place
      /\ op.kind = "replace" => fs[V] = op.previous
      /\ IntentReady(op) /\ op.digest # None
  BY ZenonT(60), <1>1, FinishFacts DEF ProcReady, IntentReady
<1>3. op.source # op.target /\ op.source # V /\ op.target # V
  <2>1. op.source # op.target
    BY <1>1, <1>2 DEF PublishOK
  <2> QED BY ZenonT(60), <1>1, <2>1, FinishFacts
<1>4. /\ proc' = [proc EXCEPT ![p].pc = "commit"]
      /\ fs' = IF fs[op.target] = None THEN Move1(op.source, op.target) ELSE fs
      /\ UNCHANGED <<nodes, operations, retained>>
  BY DEF Publish, tables
<1>5. proc'[p].pc = "commit" /\ proc'[p].op = op /\ \A q \in Proc \ {p} : proc'[q] = proc[q]
  BY <1>4 DEF IndInv, TypeOK, ProcState
<1>6. fs \in [Place -> Content \cup {None}] /\ V \in Place
  BY <1>2, PlaceType DEF IndInv, TypeOK
<1> HIDE DEF op
<1>7. /\ \A l \in Place : l \notin {op.source, op.target} => fs'[l] = fs[l]
      /\ fs'[op.source] = None /\ fs'[op.target] = op.digest /\ fs'[V] = fs[V]
  BY ZenonT(60), <1>1, <1>2, <1>3, <1>4, <1>6 DEF Move1, PublishOK, op
<1>8. op' = op /\ Unambiguous(op)'
  <2>1. op' = op
    BY <1>5 DEF op
  <2> QED BY <1>2, <1>7, <2>1 DEF Unambiguous, PublishOK
<1>9. \A w : w = op => IntentReady(w)'
  BY <1>2, <1>4, <1>8 DEF IntentReady, Row, RowAt
<1>10. ProcReady(proc[p])'
  BY <1>2, <1>5, <1>7, <1>8 DEF ProcReady
<1>11. \A l \in Place : l \notin Places(op) => fs'[l] = fs[l]
  BY <1>7 DEF Places
<1>12. fs'[op.source] \in {fs[op.source], None}
  BY <1>7
<1> QED BY ZenonT(60), <1>1, <1>2, <1>4, <1>5, <1>7, <1>9, <1>10, <1>11, <1>12, RenameKeeps DEF op

----------------------------------------------------------------------------
(* apply.                                                                  *)

(* A node whose key somebody holds outside finish has no intent, so its    *)
(* row describes its file.                                                 *)
LEMMA HeldMatches ==
    ASSUME IndInv, MountOK, NEW p \in Proc, ~Inside(proc[p]),
           NEW u \in Uuid, Row(u), NodeKey(u) \in proc[p].held
    PROVE  fs[nodes[u].path] = Seen(nodes[u].data) /\ Seen(nodes[u].data) # None
<1>1. \A o \in Pending : proc[p].held \cap operations[o].locks = {}
  BY ZenonT(60) DEF IndInv, LocalOK, HeldOK
<1>2. \A o \in Pending : NodeKey(operations[o].node) \in operations[o].locks
  BY IntentFacts DEF ManifestOK
<1> QED BY <1>1, <1>2, RowData DEF MountOK, RowsMatch

LEMMA ApplyKeeps == ASSUME IndInv, MountOK, NEW p \in Proc, Apply(p) PROVE MountOK'
<1> DEFINE d == proc[p].op
           op == Recorded(d)
<1>1. /\ proc[p] \in ProcState /\ proc[p].pc = "journal" /\ ~Inside(proc[p]) /\ d \in Operation
      /\ OpShape(d) /\ RowsOK(d) /\ Plan({d.source, d.target}) \subseteq proc[p].held
      /\ d.kind # "create" => NodeKey(d.node) \in proc[p].held
      /\ DraftOK(d, proc[p].held) /\ ProcReady(proc[p])
  <2>1. proc[p] \in ProcState /\ LocalOK(proc[p]) /\ proc[p].pc = "journal" /\ ProcReady(proc[p])
    BY DEF IndInv, TypeOK, Apply, MountOK
  <2>2. d # None /\ Draft(proc[p]) = d
    BY ZenonT(60), <2>1 DEF LocalOK, ShapeOK, Draft
  <2>3. DraftOK(d, proc[p].held)
    BY ZenonT(60), <2>1, <2>2 DEF LocalOK
  <2> QED BY ZenonT(60), <2>1, <2>2, <2>3 DEF LocalOK, JournalOK, DraftOK, ProcState, Inside
<1>2. /\ d.id \in Uuid /\ d.node \in Uuid /\ d.source \in Place /\ d.target \in Place /\ d.kind \in Kind
  BY ZenonT(60), <1>1 DEF Operation
<1>3. /\ op.id = d.id /\ op.kind = d.kind /\ op.source = d.source /\ op.target = d.target
      /\ op.node = d.node /\ op.row = d.row /\ op.digest = fs[d.source]
      /\ op.previous = (IF d.kind = "replace" THEN fs[d.target] ELSE None)
  BY <1>1 DEF Recorded, Operation
<1>4. /\ Applicable(op) /\ operations[op.id] = None
      /\ operations' = [operations EXCEPT ![op.id] = op]
      /\ proc' = [proc EXCEPT ![p].pc = FirstStep(op), ![p].op = op]
      /\ UNCHANGED <<fs, nodes, retained>>
  BY DEF Apply
<1> HIDE DEF op, d
<1>5. /\ operations'[d.id] = op /\ \A o \in Uuid \ {d.id} : operations'[o] = operations[o]
      /\ op # None => Pending' = Pending \cup {d.id}
      /\ d.id \notin Pending
  BY <1>2, <1>3, <1>4 DEF IndInv, TypeOK, Pending
<1>6. proc'[p].pc = FirstStep(op) /\ proc'[p].op = op /\ \A q \in Proc \ {p} : proc'[q] = proc[q]
  BY <1>1, <1>4 DEF IndInv, TypeOK, ProcState
<1>7. op # None
  <2>1. OperationLocks(d) \in SUBSET Key
    BY <1>2, PlanType, KeyType DEF OperationLocks, IndInv
  <2>2. op \in Operation
    BY ZenonT(60), <1>1, <1>2, <2>1 DEF Recorded, Operation, IndInv, TypeOK, op
  <2> QED BY <2>2, NoneAssumption
<1>8. d.kind # "create" =>
        /\ Row(d.node) /\ nodes[d.node].path = (IF d.kind = "replace" THEN d.target ELSE d.source)
        /\ fs[nodes[d.node].path] = Seen(nodes[d.node].data)
  <2> SUFFICES ASSUME d.kind # "create"
               PROVE  /\ RowAt(d.node, IF d.kind = "replace" THEN d.target ELSE d.source)
                      /\ fs[nodes[d.node].path] = Seen(nodes[d.node].data)
    BY ZenonT(60) DEF RowAt
  <2>1. d.kind = "restore" => RowAt(d.node, Trash(d.id))
    <3>1. TrashOK
      BY ZenonT(60) DEF IndInv, TablesOK
    <3> QED BY ZenonT(60), <1>1, <1>2, <3>1 DEF TrashOK, RowsOK
  <2>2. RowAt(d.node, IF d.kind = "replace" THEN d.target ELSE d.source)
    BY ZenonT(60), <1>1, <1>2, <2>1 DEF RowsOK, OpShape, Kind
  <2> QED BY ZenonT(60), <1>1, <1>2, <2>2, HeldMatches DEF RowAt
<1>9. d.kind \in {"create", "move", "restore"} => \A u \in Uuid : ~RowAt(u, d.target)
  <2> SUFFICES ASSUME d.kind \in {"create", "move", "restore"}, NEW u \in Uuid, RowAt(u, d.target) PROVE FALSE
    OBVIOUS
  <2>1. d.target \in Public /\ fs[d.target] = None
    BY <1>1, <1>3, <1>4 DEF OpShape, Applicable
  <2>2. NodeKey(u) \in Plan({d.source, d.target})
    BY <2>1 DEF Plan, RowAt
  <2> QED BY ZenonT(60), <1>1, <2>1, <2>2, HeldMatches DEF RowAt
<1>10. d.kind = "create" => ~Row(d.node)
  <2>1. SessionsOK /\ d.session \in Uuid \cup {None}
    BY ZenonT(60), <1>1 DEF IndInv, TablesOK, Operation
  <2> QED BY ZenonT(60), <1>1, <2>1 DEF OpShape, DraftOK, SessionsOK
<1>11. d.kind = "replace" => fs[Version(d.id)] = None
  BY ZenonT(60), <1>1, <1>2, <1>5 DEF DraftOK, MountOK, VersionsKept
<1>12. IntentReady(op)
  <2>1. op.digest # None /\ (op.kind # "replace" => fs[op.target] = None)
    BY <1>3, <1>4 DEF Applicable
  <2>2. Unambiguous(op)
    BY <1>3, <1>11, <2>1 DEF Unambiguous, PublishOK
  <2>3. op.kind = "replace" => op.previous = nodes[op.node].data /\ op.row.data = nodes[op.node].data
    BY ZenonT(60), <1>1, <1>3, <1>8 DEF ProcReady, d
  <2>4. op.kind \in {"move", "trash", "restore"} => op.digest = Seen(nodes[op.node].data)
    BY <1>3, <1>8
  <2> QED BY <1>3, <1>9, <1>10, <2>1, <2>2, <2>3, <2>4 DEF IntentReady
<1>13. \A w : IntentReady(w) => IntentReady(w)'
  BY <1>4 DEF IntentReady, Unambiguous, PublishOK, Row, RowAt
<1>14. IntentsReady'
  <2> SUFFICES ASSUME NEW o \in Pending' PROVE \A w : w = operations'[o] => IntentReady(w)'
    BY DEF IntentsReady
  <2>1. IntentReady(operations[o]) \/ o = d.id
    BY <1>5, <1>7 DEF MountOK, IntentsReady
  <2>2. o # d.id => operations'[o] = operations[o]
    BY <1>5, <1>7 DEF Pending
  <2> QED BY <1>5, <1>12, <1>13, <2>1, <2>2
<1>15. \A q \in Proc : ProcReady(proc[q])'
  <2>1. ASSUME NEW q \in Proc \ {p} PROVE ProcReady(proc[q])'
    BY ZenonT(60), <1>4, <1>6, ProcReadySame DEF MountOK
  <2>2. ProcReady(proc[p])'
    BY <1>3, <1>6 DEF ProcReady, FirstStep
  <2> QED BY <2>1, <2>2
<1>16. RowsStand' /\ PathsUnique'
  BY <1>4 DEF MountOK, RowsStand, PathsUnique, Row
<1>17. \A o \in Pending : o \in Pending' /\ operations'[o] = operations[o]
  BY <1>5, <1>7 DEF Pending
<1>18. RowsMatch' /\ EntriesKnown' /\ VersionsKept'
  <2>1. RowsMatch'
    BY <1>4, <1>17 DEF MountOK, RowsMatch, Row
  <2>2. EntriesKnown'
    BY <1>4, <1>17 DEF MountOK, EntriesKnown, Row, RowAt
  <2>3. VersionsKept'
    BY <1>4, <1>17 DEF MountOK, VersionsKept
  <2> QED BY <2>1, <2>2, <2>3
<1> QED BY <1>14, <1>15, <1>16, <1>18 DEF MountOK

----------------------------------------------------------------------------
(* The final transaction.                                                  *)

(* It gives the node the row of what finish has left at the target, and    *)
(* changes no other row.                                                   *)
LEMMA CommitRows ==
    ASSUME IndInv, MountOK, NEW p \in Proc, Commit(p)
    PROVE  LET op == proc[p].op IN
           /\ \A u \in Uuid \ {op.node} : nodes'[u] = nodes[u]
           /\ nodes'[op.node] # None /\ nodes'[op.node].path = op.target
           /\ Seen(nodes'[op.node].data) = fs[op.target] /\ ~nodes'[op.node].missing
           /\ op.kind \in {"move", "trash", "restore"} => nodes'[op.node].data = nodes[op.node].data
<1> DEFINE op == proc[p].op
<1>1. Inside(proc[p]) /\ proc[p].pc = "commit" /\ CommitOK(op) /\ nodes' = NodesAfter(op)
  BY DEF Commit, Inside
<1>2. /\ op.id \in Uuid /\ op.id \in Pending /\ operations[op.id] = op /\ op.kind \in Kind
      /\ op.source \in Place /\ op.target \in Place /\ op.node \in Uuid /\ OpShape(op) /\ RowsOK(op)
      /\ op.kind \in {"move", "trash", "restore"} => fs[op.target] = Seen(nodes[op.node].data)
  BY ZenonT(60), <1>1, FinishFacts DEF ProcReady, IntentReady
<1>3. nodes \in [Uuid -> NodeRow \cup {None}] /\ None \notin NodeRow /\ fs[op.target] \in Content \cup {None}
  BY ZenonT(60), <1>2, NoneAssumption DEF IndInv, TypeOK
<1>4. op.kind = "restore" => RowAt(op.node, Trash(op.id))
  BY ZenonT(60), <1>2, IntentTrash
<1>5. \A u \in Uuid : Row(u) => nodes[u] \in NodeRow /\ ~nodes[u].missing
  BY RowData DEF MountOK, RowsStand
<1>6. PathsUnique
  BY DEF MountOK
<1>7. nodes'[op.node] # None
  <2>1. /\ \A u \in Uuid : nodes'[u] # None <=> Row(u) \/ (op.kind = "create" /\ u = op.node)
    BY ZenonT(60), CommitNodes
  <2> QED BY ZenonT(60), <1>2, <1>4, <2>1 DEF RowsOK, RowAt, Kind
<1> HIDE DEF op
<1>8. CASE op.kind = "replace"
  <2> DEFINE row == [nodes[op.node] EXCEPT !.data = fs[op.target], !.etag = nodes[op.node].etag + 1,
                                           !.missing = FALSE]
  <2>1. nodes' = [nodes EXCEPT ![op.node] = row]
    <3>1. nodes' = Replaced(op)
      BY <1>1, <1>8 DEF NodesAfter, op
    <3> QED BY <3>1 DEF Replaced
  <2>2. row.path = op.target /\ row.data = fs[op.target] /\ ~row.missing
    <3>1. \A r \in NodeRow : \A c, e :
            /\ [r EXCEPT !.data = c, !.etag = e, !.missing = FALSE].path = r.path
            /\ [r EXCEPT !.data = c, !.etag = e, !.missing = FALSE].data = c
            /\ ~[r EXCEPT !.data = c, !.etag = e, !.missing = FALSE].missing
      BY ZenonT(60) DEF NodeRow
    <3>2. nodes[op.node] \in NodeRow /\ nodes[op.node].path = op.target
      BY ZenonT(60), <1>2, <1>5, <1>8 DEF RowsOK, RowAt
    <3>3. row.path = nodes[op.node].path /\ row.data = fs[op.target] /\ ~row.missing
      BY <3>1, <3>2
    <3> QED BY <3>2, <3>3
  <2> HIDE DEF row
  <2> QED BY ZenonT(60), <1>2, <1>3, <1>7, <1>8, <2>1, <2>2, SeenContent DEF op
<1>9. CASE op.kind = "create"
  <2>1. nodes' = [nodes EXCEPT ![op.node] = [path |-> op.target, dir |-> op.digest = Dir, data |-> Stat(fs[op.target]),
                                             etag |-> 1, missing |-> FALSE]]
    BY <1>1, <1>9 DEF NodesAfter, Created, op
  <2> QED BY ZenonT(60), <1>2, <1>3, <1>7, <1>9, <2>1, SeenContent DEF op
<1>10. CASE op.kind = "restore"
  <2> DEFINE row == [nodes[op.node] EXCEPT !.path = op.target, !.etag = nodes[op.node].etag + 1,
                                           !.missing = FALSE]
  <2>1. nodes' = [nodes EXCEPT ![op.node] = row]
    <3>1. nodes' = Restored(op)
      BY <1>1, <1>10 DEF NodesAfter, op
    <3> QED BY <1>4, <1>10, <3>1 DEF Restored, RowAt, Row
  <2>2. row.path = op.target /\ row.data = nodes[op.node].data /\ ~row.missing
    <3>1. \A r \in NodeRow : \A l, e :
            /\ [r EXCEPT !.path = l, !.etag = e, !.missing = FALSE].path = l
            /\ [r EXCEPT !.path = l, !.etag = e, !.missing = FALSE].data = r.data
            /\ ~[r EXCEPT !.path = l, !.etag = e, !.missing = FALSE].missing
      BY ZenonT(60) DEF NodeRow
    <3>2. nodes[op.node] \in NodeRow /\ Seen(nodes[op.node].data) = fs[op.target]
      BY ZenonT(60), <1>2, <1>4, <1>5, <1>10 DEF RowAt
    <3>3. row.path = op.target /\ row.data = nodes[op.node].data /\ ~row.missing
      BY <3>1, <3>2
    <3> QED BY <3>3
  <2> HIDE DEF row
  <2> QED BY ZenonT(60), <1>2, <1>3, <1>7, <1>10, <2>1, <2>2 DEF op
<1>11. CASE op.kind \in {"move", "trash"}
  <2>1. /\ RowAt(op.node, op.source) /\ nodes[op.node] \in NodeRow /\ ~nodes[op.node].missing
        /\ Seen(nodes[op.node].data) = fs[op.target]
        /\ \A u \in Uuid \ {op.node} : ~RowAt(u, op.source)
    BY ZenonT(60), <1>2, <1>5, <1>6, <1>11 DEF RowsOK, RowAt, PathsUnique
  <2> DEFINE row == [nodes[op.node] EXCEPT !.path = op.target]
  <2>2. row \in NodeRow /\ row.path = op.target /\ row.data = nodes[op.node].data /\ ~row.missing
    <3>1. \A r \in NodeRow, l \in Place :
            /\ [r EXCEPT !.path = l] \in NodeRow /\ [r EXCEPT !.path = l].path = l
            /\ [r EXCEPT !.path = l].data = r.data /\ [r EXCEPT !.path = l].missing = r.missing
      BY ZenonT(60) DEF NodeRow
    <3>2. op.target \in Place
      BY <1>2
    <3> QED BY ZenonT(60), <2>1, <3>1, <3>2
  <2>3. Relocated(op)[op.node] = row /\ \A u \in Uuid \ {op.node} : Relocated(op)[u] = nodes[u]
    BY <1>2, <2>1 DEF Relocated
  <2> HIDE DEF row
  <2>4. CASE op.kind = "trash"
    <3>1. nodes' = Relocated(op)
      BY <1>1, <2>4 DEF NodesAfter, op
    <3> QED BY ZenonT(60), <1>7, <2>1, <2>2, <2>3, <3>1 DEF op
  <2>5. CASE op.kind = "move"
    <3>1. nodes' = Moved(op)
      BY <1>1, <2>5 DEF NodesAfter, op
    <3>2. nodes'[op.node] = [row EXCEPT !.etag = @ + 1] /\ \A u \in Uuid \ {op.node} : nodes'[u] = nodes[u]
      BY <1>2, <2>1, <2>3, <3>1 DEF Moved, RowAt
    <3>3. \A r \in NodeRow : /\ [r EXCEPT !.etag = @ + 1].path = r.path /\ [r EXCEPT !.etag = @ + 1].data = r.data
                             /\ [r EXCEPT !.etag = @ + 1].missing = r.missing
      BY ZenonT(60) DEF NodeRow
    <3>4. nodes'[op.node].path = row.path /\ nodes'[op.node].data = row.data /\ nodes'[op.node].missing = row.missing
      BY ZenonT(60), <2>2, <3>2, <3>3
    <3> QED BY <1>7, <2>1, <2>2, <3>2, <3>4 DEF op
  <2> QED BY ZenonT(60), <1>11, <2>4, <2>5
<1> QED BY ZenonT(60), <1>2, <1>8, <1>9, <1>10, <1>11 DEF Kind

(* What it keeps of a replaced or deleted file.                            *)
LEMMA CommitRetained ==
    ASSUME IndInv, NEW p \in Proc, Commit(p)
    PROVE  LET op == proc[p].op IN
           /\ \A r \in Uuid \ {op.id} : retained'[r] = retained[r]
           /\ op.kind \in {"create", "move", "restore"} => retained'[op.id] = None
           /\ op.kind \in {"replace", "trash"} =>
                /\ retained'[op.id] # None /\ retained'[op.id].node = op.node
                /\ retained'[op.id].kind = (IF op.kind = "replace" THEN "version" ELSE "trash")
                /\ retained'[op.id].row = op.row
<1> DEFINE op == proc[p].op
<1>1. /\ op \in Operation /\ op.id \in Uuid /\ op.node \in Uuid /\ IntentOK(op.id, op)
  BY ZenonT(60), CommitIntent
<1>2. /\ \A r \in Uuid \ {op.id} : retained'[r] = retained[r]
      /\ op.kind \in {"create", "move", "restore"} => retained'[op.id] = None
  BY ZenonT(60), CommitTables
<1>3. retained' = RetainedAfter(op) /\ retained \in [Uuid -> RetainedRow \cup {None}]
  BY DEF Commit, IndInv, TypeOK
<1>4. op.kind # "create" => op.row \in NodeRow
  BY ZenonT(60), <1>1 DEF IntentOK, RowRecorded, Operation
<1> HIDE DEF op
<1>5. ASSUME op.kind \in {"replace", "trash"}
      PROVE  /\ retained'[op.id] # None /\ retained'[op.id].node = op.node
             /\ retained'[op.id].kind = (IF op.kind = "replace" THEN "version" ELSE "trash")
             /\ retained'[op.id].row = op.row
  <2> DEFINE k == IF op.kind = "replace" THEN "version" ELSE "trash"
             item == [node |-> op.node, kind |-> k, row |-> op.row]
  <2>1. item \in RetainedRow /\ item.node = op.node /\ item.kind = k /\ item.row = op.row
    BY <1>1, <1>4, <1>5 DEF RetainedRow
  <2>2. retained' = [retained EXCEPT ![op.id] = item]
    BY ZenonT(60), <1>3, <1>5 DEF RetainedAfter
  <2> HIDE DEF item
  <2> QED BY <1>1, <1>3, <2>1, <2>2, NoneAssumption
<1> QED BY ZenonT(60), <1>2, <1>5 DEF op

(* What the transaction leaves, in one place.                              *)
LEMMA CommitFacts ==
    ASSUME IndInv, MountOK, NEW p \in Proc, Commit(p)
    PROVE  LET op == proc[p].op IN
           /\ fs' = fs /\ Pending' = Pending \ {op.id}
           /\ \A o \in Uuid \ {op.id} : operations'[o] = operations[o]
           /\ \A q \in Proc \ {p} : proc'[q] = proc[q]
           /\ proc'[p].pc \in {"idle", "prepared"}
           /\ fs[op.source] = None /\ fs[op.target] = op.digest
           /\ op.kind = "replace" => fs[Version(op.id)] = op.row.data
<1>1. Inside(proc[p]) /\ proc[p].pc = "commit"
  BY DEF Commit, Inside
<1>2. Pending' = Pending \ {proc[p].op.id} /\ \A o \in Uuid \ {proc[p].op.id} : operations'[o] = operations[o]
  BY ZenonT(60), CommitTables
<1>3. fs' = fs /\ Resume(p) /\ proc \in [Proc -> ProcState]
  BY DEF Commit, IndInv, TypeOK
<1>4. (\A q \in Proc \ {p} : proc'[q] = proc[q]) /\ proc'[p].pc \in {"idle", "prepared"}
  BY ZenonT(60), <1>3 DEF Resume, Idle
<1>5. IntentReady(proc[p].op) /\ ProcReady(proc[p])
  BY ZenonT(60), <1>1, FinishFacts
<1> QED BY ZenonT(60), <1>1, <1>2, <1>3, <1>4, <1>5 DEF ProcReady, IntentReady

LEMMA CommitKeeps == ASSUME IndInv, MountOK, NEW p \in Proc, Commit(p) PROVE MountOK'
<1> DEFINE op == proc[p].op
           o == op.id
           x == op.node
<1>1. /\ o \in Uuid /\ o \in Pending /\ operations[o] = op /\ op.kind \in Kind
      /\ op.source \in Place /\ op.target \in Place /\ x \in Uuid /\ OpShape(op) /\ RowsOK(op)
      /\ IntentReady(op)
  BY FinishFacts DEF Commit, Inside
<1>2. /\ \A u \in Uuid \ {x} : nodes'[u] = nodes[u]
      /\ nodes'[x] # None /\ nodes'[x].path = op.target
      /\ Seen(nodes'[x].data) = fs[op.target] /\ ~nodes'[x].missing
  BY ZenonT(60), CommitRows
<1>3. /\ \A r \in Uuid \ {o} : retained'[r] = retained[r]
      /\ op.kind \in {"create", "move", "restore"} => retained'[o] = None
      /\ op.kind \in {"replace", "trash"} =>
           /\ retained'[o] # None /\ retained'[o].node = x
           /\ retained'[o].kind = (IF op.kind = "replace" THEN "version" ELSE "trash")
           /\ retained'[o].row = op.row
  BY ZenonT(60), CommitRetained
<1>4. /\ fs' = fs /\ Pending' = Pending \ {o}
      /\ \A w \in Uuid \ {o} : operations'[w] = operations[w]
      /\ \A q \in Proc \ {p} : proc'[q] = proc[q]
      /\ proc'[p].pc \in {"idle", "prepared"}
      /\ fs[op.source] = None
      /\ op.kind = "replace" => fs[Version(o)] = op.row.data
  BY ZenonT(60), CommitFacts
<1>5. /\ op.kind = "restore" => RowAt(x, Trash(o))
      /\ op.kind # "restore" => retained[o] = None
  BY ZenonT(60), <1>1, IntentTrash
<1>6. \A u \in Uuid : Row(u) /\ u # x => nodes[u].path \notin {op.source, op.target, Version(o)}
  <2> SUFFICES ASSUME NEW u \in Uuid, Row(u), u # x PROVE nodes[u].path \notin Places(op)
    BY DEF Places
  <2> QED BY ZenonT(60), <1>1, RowsApart DEF MountOK
<1>7. \A w \in Pending \ {o} : w \in Uuid /\ operations[w].node # x /\ operations[w].node \in Uuid
  <2> SUFFICES ASSUME NEW w \in Pending \ {o} PROVE w \in Uuid /\ operations[w].node # x /\ operations[w].node \in Uuid
    OBVIOUS
  <2>1. NodeKey(operations[w].node) \in operations[w].locks /\ operations[w].node \in Uuid /\ w \in Uuid
    BY ZenonT(60), IntentFacts DEF ManifestOK
  <2>2. NodeKey(x) \in operations[o].locks
    BY ZenonT(60), <1>1, IntentFacts DEF ManifestOK
  <2>3. operations[w].locks \cap operations[o].locks = {}
    BY ZenonT(60), <1>1 DEF IndInv, TablesOK, IntentsIndependent
  <2> QED BY <2>1, <2>2, <2>3
<1>8. \A w \in Pending \ {o} : operations[w].target # op.target
  <2> SUFFICES ASSUME NEW w \in Pending \ {o} PROVE operations[w].target # op.target
    OBVIOUS
  <2>1. Places(operations[w]) \cap Places(operations[o]) = {}
    BY ZenonT(60), <1>1, PlacesApart
  <2> QED BY ZenonT(60), <1>1, <2>1 DEF Places
<1> HIDE DEF op, o, x
<1>9. RowsStand'
  <2> SUFFICES ASSUME NEW u \in Uuid, nodes'[u] # None
               PROVE  /\ ~nodes'[u].missing
                      /\ \/ nodes'[u].path \in Public
                         \/ \E r \in Uuid : /\ nodes'[u].path = Trash(r)
                                           /\ retained'[r] # None /\ retained'[r].kind = "trash"
    BY DEF RowsStand, Row
  <2>1. CASE u = x
    <3>1. /\ op.kind = "trash" => op.target = Trash(o)
          /\ op.kind # "trash" => op.target \in Public
      BY ZenonT(60), <1>1 DEF OpShape, Kind, o
    <3> QED BY <1>1, <1>2, <1>3, <2>1, <3>1
  <2>2. CASE u # x
    <3>1. nodes'[u] = nodes[u] /\ Row(u)
      BY <1>2, <2>2 DEF Row
    <3>2. /\ ~nodes[u].missing
          /\ \/ nodes[u].path \in Public
             \/ \E r \in Uuid : /\ nodes[u].path = Trash(r)
                               /\ retained[r] # None /\ retained[r].kind = "trash"
      BY <3>1 DEF MountOK, RowsStand
    <3>3. nodes[u].path # Trash(o) \/ retained[o] = None
      BY ZenonT(60), <1>1, <1>5, <1>6, <2>2, <3>1 DEF OpShape, o
    <3> QED BY <1>3, <3>1, <3>2, <3>3
  <2> QED BY <2>1, <2>2
<1>10. PathsUnique'
  <2> SUFFICES ASSUME NEW u \in Uuid, NEW v \in Uuid, nodes'[u] # None, nodes'[v] # None,
                      nodes'[u].path = nodes'[v].path
               PROVE  u = v
    BY DEF PathsUnique, Row
  <2> QED BY ZenonT(60), <1>2, <1>6 DEF MountOK, PathsUnique, Row
<1>11. RowsMatch'
  <2> SUFFICES ASSUME NEW u \in Uuid, nodes'[u] # None, \A w \in Pending' : operations'[w].node # u
               PROVE  fs[nodes'[u].path] = Seen(nodes'[u].data)
    BY <1>4 DEF RowsMatch, Row
  <2>1. CASE u = x
    BY <1>2, <2>1
  <2>2. CASE u # x
    <3>1. nodes'[u] = nodes[u] /\ Row(u)
      BY <1>2, <2>2 DEF Row
    <3>2. \A w \in Pending : operations[w].node # u
      BY ZenonT(60), <1>1, <1>4, <1>7, <2>2 DEF x, op
    <3> QED BY <3>1, <3>2 DEF MountOK, RowsMatch
  <2> QED BY <2>1, <2>2
<1>12. EntriesKnown'
  <2> SUFFICES ASSUME NEW n \in Name, fs[Entry(n)] # None
               PROVE  \/ \E u \in Uuid : nodes'[u] # None /\ nodes'[u].path = Entry(n)
                      \/ \E w \in Pending' : operations'[w].target = Entry(n)
    BY <1>4 DEF EntriesKnown, RowAt, Row
  <2>1. CASE \E u \in Uuid \ {x} : RowAt(u, Entry(n))
    BY <1>2, <2>1 DEF RowAt, Row
  <2>2. CASE RowAt(x, Entry(n))
    <3>1. op.kind # "create"
      BY ZenonT(60), <1>1, <2>2 DEF IntentReady, RowAt, x
    <3>2. op.kind # "restore"
      BY ZenonT(60), <1>1, <1>5, <2>2, PlaceType DEF RowAt
    <3>3. op.kind \notin {"move", "trash"}
      BY ZenonT(60), <1>1, <1>4, <2>2 DEF RowsOK, RowAt, x
    <3>4. op.target = Entry(n)
      BY <1>1, <2>2, <3>1, <3>2, <3>3 DEF RowsOK, RowAt, Kind, x
    <3> QED BY <1>1, <1>2, <3>4
  <2>3. CASE \E w \in Pending : operations[w].target = Entry(n)
    <3>1. PICK w \in Pending : operations[w].target = Entry(n)
      BY <2>3
    <3>2. CASE w = o
      BY ZenonT(60), <1>1, <1>2, <3>1, <3>2
    <3>3. CASE w # o
      BY ZenonT(60), <1>4, <1>7, <3>1, <3>3
    <3> QED BY ZenonT(60), <3>2, <3>3
  <2> QED BY ZenonT(60), <2>1, <2>2, <2>3 DEF MountOK, EntriesKnown
<1>13. VersionsKept'
  <2> SUFFICES ASSUME NEW v \in Uuid
               PROVE  /\ retained'[v] # None /\ retained'[v].kind = "version" => fs[Version(v)] = retained'[v].row.data
                      /\ fs[Version(v)] # None =>
                           \/ retained'[v] # None /\ retained'[v].kind = "version"
                           \/ v \in Pending' /\ operations'[v].kind = "replace"
    BY ZenonT(60), <1>4 DEF VersionsKept
  <2>1. /\ retained[v] # None /\ retained[v].kind = "version" => fs[Version(v)] = retained[v].row.data
        /\ fs[Version(v)] # None =>
             \/ retained[v] # None /\ retained[v].kind = "version"
             \/ v \in Pending /\ operations[v].kind = "replace"
    BY DEF MountOK, VersionsKept
  <2>2. CASE v # o
    BY <1>3, <1>4, <2>1, <2>2
  <2>3. CASE v = o /\ op.kind = "replace"
    BY <1>3, <1>4, <2>3
  <2>4. CASE v = o /\ op.kind # "replace"
    BY ZenonT(60), <1>1, <1>3, <1>5, <2>1, <2>4 DEF RowsOK, Kind, o
  <2> QED BY ZenonT(60), <2>2, <2>3, <2>4
<1>14. IntentsReady'
  <2> SUFFICES ASSUME NEW w \in Pending \ {o} PROVE \A v : v = operations[w] => IntentReady(v)'
    BY ZenonT(60), <1>4, <1>7 DEF IntentsReady
  <2> TAKE v
  <2> HAVE v = operations[w]
  <2>1. IntentReady(v) /\ v.node \in Uuid \ {x} /\ v.target # op.target
    BY <1>7, <1>8 DEF MountOK, IntentsReady
  <2>2. nodes'[v.node] = nodes[v.node]
    BY <1>2, <2>1
  <2>3. \A u \in Uuid : RowAt(u, v.target)' => RowAt(u, v.target)
    BY <1>2, <2>1 DEF RowAt, Row
  <2>4. Unambiguous(v)' = Unambiguous(v)
    BY <1>4 DEF Unambiguous, PublishOK
  <2> QED BY ZenonT(60), <2>1, <2>2, <2>3, <2>4 DEF IntentReady, Row
<1>15. \A q \in Proc : ProcReady(proc[q])'
  <2>1. ProcReady(proc[p])'
    BY ZenonT(60), <1>4 DEF ProcReady
  <2>2. ASSUME NEW q \in Proc \ {p} PROVE ProcReady(proc[q])'
    <3>1. proc'[q] = proc[q] /\ ProcReady(proc[q]) /\ LocalOK(proc[q]) /\ proc[q] \in ProcState
      BY ZenonT(60), <1>4 DEF MountOK, IndInv, TypeOK
    <3>2. CASE proc[q].pc = "journal" /\ proc[q].op.kind = "replace"
      <4>1. NodeKey(proc[q].op.node) \in proc[q].held /\ proc[q].op.node \in Uuid
        BY ZenonT(60), <3>1, <3>2 DEF LocalOK, ShapeOK, JournalOK, ProcState, Operation
      <4>2. proc[q].held \cap operations[o].locks = {}
        BY ZenonT(60), <1>1, <3>1, <3>2 DEF LocalOK, HeldOK, Inside
      <4>3. NodeKey(x) \in operations[o].locks
        BY ZenonT(60), <1>1, IntentFacts DEF ManifestOK, x
      <4>4. nodes'[proc[q].op.node] = nodes[proc[q].op.node]
        BY ZenonT(60), <1>2, <4>1, <4>2, <4>3
      <4> QED BY ZenonT(60), <3>1, <3>2, <4>4 DEF ProcReady
    <3> QED BY ZenonT(60), <1>4, <3>1, <3>2 DEF ProcReady
  <2> QED BY <2>1, <2>2
<1> QED BY <1>9, <1>10, <1>11, <1>12, <1>13, <1>14, <1>15 DEF MountOK

----------------------------------------------------------------------------
(* Steps that change neither rows nor journal.                             *)

(* A process goes to where nothing is expected of the mount yet.           *)
LEMMA QuietStep ==
    ASSUME IndInv, MountOK, NEW p \in Proc, UNCHANGED <<nodes, operations, retained>>,
           fs' = fs \/ \E o \in Uuid \ Pending : \E c : fs' = [fs EXCEPT ![Tmp(o)] = c],
           \A q \in Proc \ {p} : proc'[q] = proc[q],
           proc'[p].pc = "journal" /\ proc'[p].op.kind = "replace"
             => /\ proc'[p].op.row.data = nodes[proc'[p].op.node].data
                /\ Seen(proc'[p].op.row.data) = proc'[p].op.row.data,
           proc'[p].pc = "backup" => proc'[p].op.kind = "replace",
           proc'[p].pc = "publish" => proc'[p].op.kind # "replace",
           proc'[p].pc # "commit"
    PROVE  MountOK'
<1>1. \A l \in Place : (\A o \in Uuid \ Pending : l # Tmp(o)) => fs'[l] = fs[l]
  BY ZenonT(60) DEF IndInv, TypeOK
<1>2. ProcReady(proc[p])'
  BY ZenonT(60) DEF ProcReady
<1> QED BY ZenonT(60), <1>1, <1>2, QuietKeeps

(* A temporary file that a draft refers to belongs to no intent.           *)
LEMMA DraftTmp ==
    ASSUME IndInv, NEW p \in Proc, Draft(proc[p]) # None
    PROVE  /\ Draft(proc[p]) \in Operation /\ OpShape(Draft(proc[p]))
           /\ Draft(proc[p]).kind # "restore" => Draft(proc[p]).id \in Uuid \ Pending
<1>1. proc[p] \in ProcState /\ LocalOK(proc[p])
  BY ZenonT(60) DEF IndInv, TypeOK
<1>2. Draft(proc[p]) \in Operation
  BY ZenonT(60), <1>1 DEF Draft, ProcState
<1>3. DraftOK(Draft(proc[p]), proc[p].held)
  BY ZenonT(60), <1>1 DEF LocalOK
<1> QED BY ZenonT(60), <1>2, <1>3 DEF DraftOK, Operation, Pending

LEMMA FreshNotPending == ASSUME IndInv, NEW o \in Fresh PROVE o \in Uuid \ Pending
BY FreshUnused DEF Pending

LEMMA RequestKeeps == ASSUME IndInv, MountOK, NEW p \in Proc, Request(p) PROVE MountOK'
<1>1. proc \in [Proc -> ProcState]
  BY DEF IndInv, TypeOK
<1>2. ASSUME NEW o \in Uuid, NEW n \in Name, CreateDir(p, n, o) \/ TouchFile(p, n, o) PROVE MountOK'
  <2>1. o \in Uuid \ Pending /\ \E c : fs' = [fs EXCEPT ![Tmp(o)] = c]
    BY ZenonT(60), <1>2, FreshNotPending DEF CreateDir, TouchFile
  <2>2. /\ \A q \in Proc \ {p} : proc'[q] = proc[q]
        /\ proc'[p].pc = "journal" /\ proc'[p].op.kind = "create"
    <3>1. CASE CreateDir(p, n, o)
      BY ZenonT(60), <1>1, <3>1 DEF CreateDir, Ready, Intent
    <3>2. CASE TouchFile(p, n, o)
      BY ZenonT(60), <1>1, <3>2 DEF TouchFile, Ready, Intent
    <3> QED BY ZenonT(60), <1>2, <3>1, <3>2
  <2>3. UNCHANGED <<nodes, operations, retained>>
    BY ZenonT(60), <1>2 DEF CreateDir, TouchFile, tables
  <2> QED BY ZenonT(60), <2>1, <2>2, <2>3, QuietStep
<1>3. ASSUME NEW o \in Uuid, NEW n \in Name, RestoreRecycleItem(p, o, n) PROVE MountOK'
  <2>1. /\ \A q \in Proc \ {p} : proc'[q] = proc[q]
        /\ proc'[p].pc = "journal" /\ proc'[p].op.kind = "restore"
    BY ZenonT(60), <1>1, <1>3 DEF RestoreRecycleItem, Ready, Intent
  <2>2. UNCHANGED <<fs, nodes, operations, retained>>
    BY ZenonT(60), <1>3 DEF RestoreRecycleItem, tables
  <2> QED BY ZenonT(60), <2>1, <2>2, QuietStep
<1>4. ASSUME NEW u \in Uuid, NEW o \in Uuid, Delete(p, u, o) PROVE MountOK'
  <2>1. /\ \A q \in Proc \ {p} : proc'[q] = proc[q]
        /\ proc'[p].pc = "journal" /\ proc'[p].op.kind = "trash"
    BY ZenonT(60), <1>1, <1>4 DEF Delete, Ready, Intent
  <2>2. UNCHANGED <<fs, nodes, operations, retained>>
    BY <1>4 DEF Delete, tables
  <2> QED BY ZenonT(60), <2>1, <2>2, QuietStep
<1>5. ASSUME NEW u \in Uuid, NEW o \in Uuid, NEW n \in Name, Move(p, u, n, o) PROVE MountOK'
  <2>1. /\ \A q \in Proc \ {p} : proc'[q] = proc[q]
        /\ proc'[p].pc = "journal" /\ proc'[p].op.kind = "move"
    BY ZenonT(60), <1>1, <1>5 DEF Move, Ready, Intent
  <2>2. UNCHANGED <<fs, nodes, operations, retained>>
    BY <1>5 DEF Move, tables
  <2> QED BY ZenonT(60), <2>1, <2>2, QuietStep
<1>6. ASSUME NEW u \in Uuid, NEW v \in Uuid, NEW o \in Uuid, RestoreRevision(p, u, v, o) PROVE MountOK'
  <2>1. o \in Uuid \ Pending /\ \E c : fs' = [fs EXCEPT ![Tmp(o)] = c]
    BY ZenonT(60), <1>6, FreshNotPending DEF RestoreRevision
  <2>2. /\ \A q \in Proc \ {p} : proc'[q] = proc[q]
        /\ proc'[p].pc = "journal" /\ proc'[p].op.node = u /\ proc'[p].op.row = nodes[u]
    BY ZenonT(60), <1>1, <1>6 DEF RestoreRevision, Ready, Intent
  <2>4. Row(u) /\ fs[nodes[u].path] = nodes[u].data
    BY ZenonT(60), <1>6 DEF RestoreRevision, PublicRow
  <2>5. Seen(nodes[u].data) = nodes[u].data
    BY <2>4, ExactRow
  <2>3. UNCHANGED <<nodes, operations, retained>>
    BY ZenonT(60), <1>6 DEF RestoreRevision, tables
  <2> QED BY ZenonT(60), <2>1, <2>2, <2>3, <2>5, QuietStep
<1>7. ASSUME NEW s \in Uuid, NEW o \in Uuid, FinishUpload(p, s, o) PROVE MountOK'
  <2>1. o \in Uuid \ Pending /\ \E c : fs' = [fs EXCEPT ![Tmp(o)] = c]
    BY ZenonT(60), <1>7, FreshNotPending DEF FinishUpload
  <2>2. (\A q \in Proc \ {p} : proc'[q] = proc[q]) /\ proc'[p].pc = "prepared"
    BY ZenonT(60), <1>1, <1>7 DEF FinishUpload
  <2>3. UNCHANGED <<nodes, operations, retained>>
    BY ZenonT(60), <1>7 DEF FinishUpload, tables
  <2> QED BY ZenonT(60), <2>1, <2>2, <2>3, QuietStep
<1> QED BY <1>2, <1>3, <1>4, <1>5, <1>6, <1>7 DEF Request

LEMMA WriteKeeps == ASSUME IndInv, MountOK, NEW p \in Proc, WriteUpload(p) PROVE MountOK'
<1> DEFINE req == proc[p].request
<1>1. /\ proc \in [Proc -> ProcState] /\ req \in Operation /\ req.kind = "create"
  <2>1. proc[p] \in ProcState /\ LocalOK(proc[p]) /\ proc[p].pc = "prepared"
    BY ZenonT(60) DEF IndInv, TypeOK, WriteUpload
  <2> QED BY ZenonT(60), <2>1 DEF LocalOK, ShapeOK, ProcState, IndInv, TypeOK
<1>2. UNCHANGED <<fs, nodes, operations, retained>>
  BY ZenonT(60) DEF WriteUpload, tables
<1>3. ASSUME NEW ks, Ready(p, req, ks) PROVE MountOK'
  <2>1. /\ \A q \in Proc \ {p} : proc'[q] = proc[q]
        /\ proc'[p].pc = "journal" /\ proc'[p].op = req
    BY ZenonT(60), <1>1, <1>3 DEF Ready
  <2> QED BY ZenonT(60), <1>1, <1>2, <2>1, QuietStep
<1>4. ASSUME NEW ks, NEW u \in Uuid, Row(u), fs[nodes[u].path] = nodes[u].data,
             Ready(p, [req EXCEPT !.kind = "replace", !.node = u, !.row = nodes[u]], ks)
      PROVE  MountOK'
  <2> DEFINE op == [req EXCEPT !.kind = "replace", !.node = u, !.row = nodes[u]]
  <2>1. op.node = u /\ op.row = nodes[u]
    BY <1>1 DEF Operation
  <2> HIDE DEF op
  <2>2. Ready(p, op, ks)
    BY <1>4 DEF op
  <2>3. /\ \A q \in Proc \ {p} : proc'[q] = proc[q]
        /\ proc'[p].pc = "journal" /\ proc'[p].op = op
    BY <1>1, <2>2 DEF Ready
  <2>4. Seen(nodes[u].data) = nodes[u].data
    BY <1>4, ExactRow
  <2> QED BY ZenonT(60), <1>2, <2>1, <2>3, <2>4, QuietStep
<1> QED BY ZenonT(60), <1>3, <1>4 DEF WriteUpload, Expected, RowAt

(* A process that gives up removes at most its own temporary file.         *)
LEMMA EndTmp ==
    ASSUME IndInv, NEW p \in Proc,
           \/ AbandonUpload(p) \/ ApplyFails(p) \/ RecoveryStopped(p) \/ RecoverTimeout(p)
           \/ Crash(p) \/ IOError(p)
    PROVE  fs' = fs \/ \E o \in Uuid \ Pending : \E c : fs' = [fs EXCEPT ![Tmp(o)] = c]
<1>1. proc \in [Proc -> ProcState] /\ LocalOK(proc[p])
  BY ZenonT(60) DEF IndInv, TypeOK
<1>2. ASSUME proc[p].pc # "journal", proc[p].request # None
      PROVE  proc[p].request.source = Tmp(proc[p].request.id) /\ proc[p].request.id \in Uuid \ Pending
  <2>1. Draft(proc[p]) = proc[p].request /\ proc[p].request.kind = "create"
    BY ZenonT(60), <1>1, <1>2 DEF Draft, LocalOK, ShapeOK
  <2> QED BY ZenonT(60), <1>2, <2>1, DraftTmp DEF OpShape
<1>3. CASE AbandonUpload(p)
  <2>1. proc[p].pc = "prepared" /\ proc[p].request # None
    BY ZenonT(60), <1>1, <1>3 DEF AbandonUpload, LocalOK, ShapeOK
  <2> QED BY ZenonT(60), <1>2, <1>3, <2>1 DEF AbandonUpload
<1>4. CASE ApplyFails(p)
  <2> DEFINE d == proc[p].op
  <2>1. proc[p].pc = "journal" /\ d # None /\ Draft(proc[p]) = d
    BY ZenonT(60), <1>1, <1>4 DEF ApplyFails, LocalOK, ShapeOK, Draft
  <2>2. d \in Operation /\ OpShape(d) /\ (d.kind # "restore" => d.id \in Uuid \ Pending) /\ d.kind \in Kind
    BY ZenonT(60), <2>1, DraftTmp DEF Operation
  <2>3. d.source[1] = "tmp" => d.kind \in {"create", "replace"}
    <3>1. d.kind \in {"move", "trash"} => d.source \in Public
      BY ZenonT(60), <2>2 DEF OpShape
    <3>2. d.kind = "restore" => d.source = Trash(d.id)
      BY ZenonT(60), <2>2 DEF OpShape
    <3> QED BY <2>2, <3>1, <3>2 DEF Kind, Public, Trash
  <2> QED BY ZenonT(60), <1>4, <2>2, <2>3 DEF ApplyFails, OpShape
<1>5. CASE Fail(p) /\ proc[p].pc # "journal"
  BY ZenonT(60), <1>2, <1>5 DEF Fail
<1>6. CASE Crash(p)
  BY <1>6 DEF Crash
<1> QED BY ZenonT(60), <1>3, <1>4, <1>5, <1>6 DEF RecoveryStopped, RecoverTimeout, IOError

LEMMA EndKeeps ==
    ASSUME IndInv, MountOK, NEW p \in Proc,
           \/ AbandonUpload(p) \/ ApplyFails(p) \/ RecoveryStopped(p) \/ RecoverTimeout(p)
           \/ Crash(p) \/ IOError(p)
    PROVE  MountOK'
<1>1. proc \in [Proc -> ProcState]
  BY DEF IndInv, TypeOK
<1>2. /\ proc' = [proc EXCEPT ![p] = Idle] /\ UNCHANGED <<nodes, operations, retained>>
  BY ZenonT(60) DEF AbandonUpload, ApplyFails, RecoveryStopped, RecoverTimeout, Crash, IOError, Fail, tables
<1>3. (\A q \in Proc \ {p} : proc'[q] = proc[q]) /\ proc'[p].pc = "idle"
  BY ZenonT(60), <1>1, <1>2, IdleType
<1> QED BY <1>2, <1>3, EndTmp, QuietStep

LEMMA PickKeeps == ASSUME IndInv, MountOK, NEW p \in Proc, NEW o \in Uuid, RecoverPick(p, o) PROVE MountOK'
<1>1. UNCHANGED <<fs, nodes, operations, retained>>
  BY DEF RecoverPick, tables
<1>2. (\A q \in Proc \ {p} : proc'[q] = proc[q]) /\ proc'[p].pc = "picked"
  BY DEF RecoverPick, IndInv, TypeOK, ProcState
<1> QED BY <1>1, <1>2, QuietStep

LEMMA RecoverKeeps == ASSUME IndInv, MountOK, NEW p \in Proc, RecoverOne(p) PROVE MountOK'
<1>1. UNCHANGED <<fs, nodes, operations, retained>> /\ proc \in [Proc -> ProcState]
  BY DEF RecoverOne, tables, IndInv, TypeOK
<1>2. CASE Resume(p)
  <2>1. (\A q \in Proc \ {p} : proc'[q] = proc[q]) /\ proc'[p].pc \in {"idle", "prepared"}
    BY ZenonT(60), <1>1, <1>2 DEF Resume, Idle
  <2> QED BY ZenonT(60), <1>1, <2>1, QuietStep
<1>3. ASSUME NEW o, NEW ks, proc' = [proc EXCEPT ![p].pc = FirstStep(operations[o]), ![p].op = operations[o],
                                                 ![p].held = @ \cup ks]
      PROVE  MountOK'
  <2>1. /\ \A q \in Proc \ {p} : proc'[q] = proc[q]
        /\ proc'[p].pc = FirstStep(operations[o]) /\ proc'[p].op = operations[o]
    BY <1>1, <1>3 DEF ProcState
  <2> QED BY ZenonT(60), <1>1, <2>1, QuietStep DEF FirstStep
<1> QED BY ZenonT(60), <1>2, <1>3 DEF RecoverOne

----------------------------------------------------------------------------
(* Metadata edits, sessions and scans.                                     *)

(* A new ETag, and the fingerprint of a directory a scan has seen for the  *)
(* first time, leave what a row says about the mount.                      *)
LEMMA RowsSame ==
    ASSUME MountOK, UNCHANGED <<fs, operations, retained, proc>>,
           \A u \in Uuid : \/ nodes'[u] = nodes[u]
                           \/ /\ Row(u) /\ nodes'[u] # None
                              /\ nodes'[u].path = nodes[u].path /\ nodes'[u].missing = nodes[u].missing
                              /\ \/ nodes'[u].data = nodes[u].data
                                 \/ nodes'[u].data = Seen(nodes[u].data) /\ Pending = {},
           IndInv
    PROVE  MountOK'
<1>1. Pending' = Pending
  BY DEF Pending
<1>2. \A u \in Uuid : /\ Row(u)' <=> Row(u)
                      /\ Seen(nodes'[u].data) = Seen(nodes[u].data)
                      /\ Pending # {} \/ Seen(nodes[u].data) = nodes[u].data
                           => nodes'[u].data = nodes[u].data
                      /\ nodes'[u].path = nodes[u].path /\ nodes'[u].missing = nodes[u].missing
  BY SeenTwice DEF Row
<1>3. \A u \in Uuid : \A l : RowAt(u, l)' <=> RowAt(u, l)
  BY <1>2 DEF RowAt
<1>4. RowsStand' /\ PathsUnique' /\ RowsMatch' /\ EntriesKnown' /\ VersionsKept'
  <2>1. RowsStand' BY <1>2 DEF MountOK, RowsStand
  <2>2. PathsUnique' BY <1>2 DEF MountOK, PathsUnique
  <2>3. RowsMatch' BY ZenonT(60), <1>1, <1>2 DEF MountOK, RowsMatch
  <2>4. EntriesKnown' BY <1>1, <1>3 DEF MountOK, EntriesKnown
  <2>5. VersionsKept' BY ZenonT(60), <1>1 DEF MountOK, VersionsKept
  <2> QED BY <2>1, <2>2, <2>3, <2>4, <2>5
<1>5. IntentsReady'
  <2> SUFFICES ASSUME NEW o \in Pending PROVE \A w : w = operations[o] => IntentReady(w)'
    BY ZenonT(60), <1>1 DEF IntentsReady
  <2> TAKE w
  <2> HAVE w = operations[o]
  <2>1. IntentReady(w) /\ w.node \in Uuid
    BY IntentFacts DEF MountOK, IntentsReady
  <2>2. Unambiguous(w)' = Unambiguous(w)
    BY DEF Unambiguous, PublishOK
  <2>3. (Row(w.node)' <=> Row(w.node)) /\ nodes'[w.node].data = nodes[w.node].data
    BY <1>2, <2>1
  <2> QED BY ZenonT(60), <1>3, <2>1, <2>2, <2>3 DEF IntentReady
<1>6. \A q \in Proc : ProcReady(proc[q])'
  <2> SUFFICES ASSUME NEW q \in Proc PROVE ProcReady(proc[q])'
    OBVIOUS
  <2>1. proc'[q] = proc[q] /\ ProcReady(proc[q]) /\ LocalOK(proc[q]) /\ proc[q] \in ProcState
    BY DEF MountOK, IndInv, TypeOK
  <2>2. proc[q].pc = "journal" /\ proc[q].op.kind = "replace"
          => nodes'[proc[q].op.node].data = nodes[proc[q].op.node].data
    <3>1. proc[q].pc = "journal" => proc[q].op.node \in Uuid
      BY ZenonT(60), <2>1 DEF LocalOK, ShapeOK, ProcState, Operation
    <3> QED BY ZenonT(60), <1>2, <2>1, <3>1 DEF ProcReady
  <2> QED BY ZenonT(60), <2>1, <2>2 DEF ProcReady
<1> QED BY <1>4, <1>5, <1>6 DEF MountOK

LEMMA EditMetadataKeeps == ASSUME IndInv, MountOK, NEW u \in Uuid, EditMetadata(u) PROVE MountOK'
<1> DEFINE row == [nodes[u] EXCEPT !.etag = @ + 1]
<1>1. Row(u) /\ nodes' = [nodes EXCEPT ![u] = row] /\ UNCHANGED <<fs, operations, retained, proc>>
  BY DEF EditMetadata, PublicRow
<1>2. nodes \in [Uuid -> NodeRow \cup {None}] /\ nodes[u] \in NodeRow /\ nodes[u].etag + 1 \in Nat
  BY <1>1 DEF IndInv, TypeOK, Row, NodeRow
<1>3. /\ row \in NodeRow /\ row.path = nodes[u].path /\ row.data = nodes[u].data
      /\ row.missing = nodes[u].missing
  BY ZenonT(60), <1>2 DEF NodeRow
<1>4. row # None
  BY <1>3, NoneAssumption
<1> HIDE DEF row
<1>5. \A v \in Uuid : \/ nodes'[v] = nodes[v]
                      \/ /\ Row(v) /\ nodes'[v] # None
                         /\ nodes'[v].path = nodes[v].path /\ nodes'[v].data = nodes[v].data
                         /\ nodes'[v].missing = nodes[v].missing
  BY <1>1, <1>2, <1>3, <1>4
<1> QED BY <1>1, <1>5, RowsSame

LEMMA SessionKeeps ==
    ASSUME IndInv, MountOK, UNCHANGED <<fs, nodes, operations, retained, proc>>
    PROVE  MountOK'
BY RowsSame

(* Scanning a mount nobody has edited finds nothing to import or to mark   *)
(* missing, and updates only what Stat said of directories.                *)
LEMMA ScanKeeps ==
    ASSUME IndInv, MountOK, NEW new \in FreshIds, NEW expired, Scan(new, expired)
    PROVE  MountOK'
<1>1. /\ Pending = {} /\ nodes' = [u \in Uuid |-> Rescanned(u, new, expired)]
      /\ UNCHANGED <<fs, operations, retained, proc>>
  BY ZenonT(60) DEF Scan
<1>2. Imported = {}
  BY ZenonT(60), <1>1 DEF MountOK, EntriesKnown, RowsStand, Imported, Live, RowAt
<1>3. \A u \in Uuid : \/ nodes'[u] = nodes[u]
                      \/ /\ Row(u) /\ nodes'[u] # None
                         /\ nodes'[u].path = nodes[u].path /\ nodes'[u].missing = nodes[u].missing
                         /\ nodes'[u].data = Seen(nodes[u].data)
  <2> SUFFICES ASSUME NEW u \in Uuid, Rescanned(u, new, expired) # nodes[u]
               PROVE  LET row == Rescanned(u, new, expired) IN
                      /\ Row(u) /\ row # None
                      /\ row.path = nodes[u].path /\ row.missing = nodes[u].missing
                      /\ row.data = Seen(nodes[u].data)
    BY <1>1
  <2>1. Row(u) => /\ nodes[u] \in NodeRow /\ ~nodes[u].missing
                  /\ fs[nodes[u].path] = Seen(nodes[u].data) /\ Seen(nodes[u].data) \in Content
                  /\ Seen(nodes[u].data) # None
    BY ZenonT(60), <1>1, RowData DEF MountOK, RowsMatch, RowsStand
  <2> DEFINE row == [nodes[u] EXCEPT !.data = Seen(nodes[u].data), !.etag = @ + 1]
  <2>2. Row(u) /\ Rescanned(u, new, expired) = row
    BY ZenonT(60), <1>2, <2>1 DEF Rescanned
  <2>3. /\ row \in NodeRow /\ row.path = nodes[u].path /\ row.missing = nodes[u].missing
        /\ row.data = Seen(nodes[u].data)
    <3>1. \A r \in NodeRow, d \in Content \cup {StatDir}, e \in Nat :
            LET t == [r EXCEPT !.data = d, !.etag = e] IN
            t \in NodeRow /\ t.path = r.path /\ t.missing = r.missing /\ t.data = d
      BY ZenonT(60) DEF NodeRow
    <3>2. nodes[u].etag + 1 \in Nat
      BY <2>1, <2>2 DEF NodeRow
    <3>3. nodes[u] \in NodeRow /\ Seen(nodes[u].data) \in Content \cup {StatDir}
      BY <2>1, <2>2
    <3> QED BY ZenonT(60), <3>1, <3>2, <3>3
  <2> HIDE DEF row
  <2> QED BY ZenonT(60), <2>2, <2>3, NoneAssumption
<1> QED BY <1>1, <1>3, RowsSame

----------------------------------------------------------------------------
(* All steps.                                                              *)

LEMMA MountInit == Init => MountOK
<1> SUFFICES ASSUME Init PROVE MountOK
  OBVIOUS
<1> DEFINE c == InitData
<1>1. /\ c \in [Name -> Bytes]
      /\ fs = [l \in Place |-> IF l \in Public /\ InitNodes[l[2]] # None THEN c[l[2]] ELSE None]
      /\ nodes = [u \in Uuid |->
              IF \E n \in Name : InitNodes[n] = u
              THEN LET n == CHOOSE m \in Name : InitNodes[m] = u IN
                   [path |-> Entry(n), dir |-> FALSE, data |-> c[n], etag |-> 1,
                    missing |-> FALSE]
              ELSE None]
  BY ZenonT(60), ConstantAssumption DEF Init
<1> HIDE DEF c
<1>2. /\ Pending = {} /\ (\A r \in Uuid : retained[r] = None) /\ \A p \in Proc : proc[p].pc = "idle"
  BY IdleType DEF Init, Pending
<1>3. ASSUME NEW u \in Uuid, Row(u)
      PROVE  \E n \in Name : /\ InitNodes[n] = u /\ nodes[u].path = Entry(n) /\ nodes[u].data = c[n]
                             /\ ~nodes[u].missing
  <2>1. \E n \in Name : InitNodes[n] = u
    BY ZenonT(60), <1>1, <1>3 DEF Row
  <2> DEFINE n == CHOOSE m \in Name : InitNodes[m] = u
  <2>2. n \in Name /\ InitNodes[n] = u
    BY <2>1
  <2> DEFINE row == [path |-> Entry(n), dir |-> FALSE, data |-> c[n], etag |-> 1, missing |-> FALSE]
  <2>3. nodes[u] = row
    BY ZenonT(60), <1>1, <2>1
  <2>4. row.path = Entry(n) /\ row.data = c[n] /\ ~row.missing
    BY ZenonT(60)
  <2> HIDE DEF n, row
  <2> QED BY ZenonT(60), <2>2, <2>3, <2>4
<1>4. \A n \in Name : /\ Entry(n) \in Place /\ Entry(n) \in Public
                      /\ fs[Entry(n)] = IF InitNodes[n] # None THEN c[n] ELSE None
  BY ZenonT(60), <1>1, PlaceType DEF Entry
<1>5. None \notin Uuid /\ InitNodes \in [Name -> Uuid \cup {None}]
      /\ \A m, n \in Name : m # n /\ InitNodes[m] = InitNodes[n] => InitNodes[m] = None
  BY ConstantAssumption
<1>6. RowsStand /\ PathsUnique /\ RowsMatch
  <2>1. RowsStand
    BY ZenonT(60), <1>3, <1>4 DEF RowsStand
  <2>2. PathsUnique
    <3>1. \A m, n \in Name : Entry(m) = Entry(n) => m = n
      BY DEF Entry
    <3> SUFFICES ASSUME NEW u \in Uuid, NEW v \in Uuid, Row(u), Row(v), nodes[u].path = nodes[v].path PROVE u = v
      BY DEF PathsUnique
    <3>2. PICK m \in Name : InitNodes[m] = u /\ nodes[u].path = Entry(m)
      BY ZenonT(60), <1>3
    <3>3. PICK n \in Name : InitNodes[n] = v /\ nodes[v].path = Entry(n)
      BY ZenonT(60), <1>3
    <3> QED BY ZenonT(60), <3>1, <3>2, <3>3
  <2>3. RowsMatch
    <3> SUFFICES ASSUME NEW u \in Uuid, Row(u) PROVE fs[nodes[u].path] = Seen(nodes[u].data)
      BY DEF RowsMatch
    <3>1. PICK n \in Name : InitNodes[n] = u /\ nodes[u].path = Entry(n) /\ nodes[u].data = c[n]
      BY <1>3
    <3>2. Seen(c[n]) = c[n]
      BY <1>1, SeenContent DEF Content
    <3> QED BY <1>4, <1>5, <3>1, <3>2
  <2> QED BY <2>1, <2>2, <2>3
<1>7. EntriesKnown
  <2> SUFFICES ASSUME NEW n \in Name, fs[Entry(n)] # None PROVE \E u \in Uuid : RowAt(u, Entry(n))
    BY DEF EntriesKnown
  <2>1. InitNodes[n] # None /\ InitNodes[n] \in Uuid
    BY <1>4, <1>5
  <2>2. Row(InitNodes[n])
    <3> DEFINE u == InitNodes[n]
               m == CHOOSE k \in Name : InitNodes[k] = u
    <3>1. m \in Name /\ Entry(m) \in Place
      BY <1>4, <2>1
    <3>2. nodes[u] = [path |-> Entry(m), dir |-> FALSE, data |-> c[m], etag |-> 1, missing |-> FALSE]
      BY ZenonT(60), <1>1, <2>1
    <3> HIDE DEF m, u
    <3>3. c[m] \in Content \cup {StatDir} /\ 1 \in Nat
      BY <1>1, <3>1 DEF Content
    <3>4. nodes[u] \in NodeRow
      <4>1. \A l \in Place, d \in Content \cup {StatDir} :
              [path |-> l, dir |-> FALSE, data |-> d, etag |-> 1, missing |-> FALSE] \in NodeRow
        BY DEF NodeRow
      <4> QED BY ZenonT(60), <3>1, <3>2, <3>3, <4>1
    <3> QED BY <3>4, NoneAssumption DEF Row, u
  <2>3. PICK m \in Name : InitNodes[m] = InitNodes[n] /\ nodes[InitNodes[n]].path = Entry(m)
    BY ZenonT(60), <1>3, <2>1, <2>2
  <2>4. m = n
    BY <1>5, <2>1, <2>3
  <2> QED BY <2>1, <2>2, <2>3, <2>4 DEF RowAt
<1>8. VersionsKept
  BY <1>1, <1>2, PlaceType DEF VersionsKept
<1>9. IntentsReady /\ \A p \in Proc : ProcReady(proc[p])
  BY <1>2 DEF IntentsReady, ProcReady
<1> QED BY <1>6, <1>7, <1>8, <1>9 DEF MountOK

LEMMA MountStep == ASSUME IndInv, MountOK, [Next]_vars, edits' = edits PROVE MountOK'
<1>1. ASSUME NEW p \in Proc, Step(p) PROVE MountOK'
  <2>1. CASE WriteUpload(p)
    BY <2>1, WriteKeeps
  <2>2. CASE AbandonUpload(p) \/ ApplyFails(p) \/ RecoveryStopped(p) \/ RecoverTimeout(p)
    BY <2>2, EndKeeps
  <2>3. CASE Apply(p)
    BY <2>3, ApplyKeeps
  <2>4. CASE Backup(p)
    BY <2>4, BackupKeeps
  <2>5. CASE Publish(p)
    BY <2>5, PublishKeeps
  <2>6. CASE Commit(p)
    BY <2>6, CommitKeeps
  <2>7. CASE RecoverOne(p)
    BY <2>7, RecoverKeeps
  <2> QED BY <1>1, <2>1, <2>2, <2>3, <2>4, <2>5, <2>6, <2>7 DEF Step
<1>2. ASSUME NEW p \in Proc, Request(p) \/ Crash(p) \/ IOError(p) PROVE MountOK'
  BY <1>2, RequestKeeps, EndKeeps
<1>3. ASSUME NEW p \in Proc, NEW o \in Uuid, RecoverPick(p, o) PROVE MountOK'
  BY <1>3, PickKeeps
<1>4. ASSUME NEW s \in Uuid, NEW n \in Name, NEW b \in Bytes, StartUpload(s, n, b) PROVE MountOK'
  BY ZenonT(60), <1>4, SessionKeeps DEF StartUpload
<1>5. ASSUME NEW u \in Uuid, EditMetadata(u) \/ DropUpload(u) PROVE MountOK'
  BY <1>5, EditMetadataKeeps, SessionKeeps DEF DropUpload
<1>6. ASSUME NEW n \in Name, NEW c, ExternalEdit(n, c) PROVE FALSE
  BY <1>6 DEF ExternalEdit, IndInv, TypeOK
<1>7. CASE UNCHANGED vars
  BY <1>7, SessionKeeps DEF vars, tables
<1>8. ASSUME NEW new \in FreshIds, NEW expired, Scan(new, expired) PROVE MountOK'
  BY <1>8, ScanKeeps
<1> QED BY <1>1, <1>2, <1>3, <1>4, <1>5, <1>6, <1>7, <1>8 DEF Next

LEMMA EditsGrow == ASSUME IndInv, [Next]_vars PROVE edits' = edits \/ edits' # 0
<1>1. edits \in Nat
  BY DEF IndInv, TypeOK
<1>2. ASSUME NEW n \in Name, NEW c, ExternalEdit(n, c) PROVE edits' # 0
  BY <1>1, <1>2 DEF ExternalEdit
<1>3. ASSUME NEW p \in Proc, Request(p) \/ Step(p) \/ Crash(p) \/ IOError(p) PROVE edits' = edits
  BY ZenonT(60), <1>3 DEF Request, CreateDir, TouchFile, RestoreRecycleItem, Delete, FinishUpload, RestoreRevision, Move,
              Step, WriteUpload, AbandonUpload, Apply, ApplyFails, Backup, Publish, Commit, RecoveryStopped,
              RecoverOne, RecoverTimeout, Fail, Crash, IOError
<1>4. ASSUME NEW p \in Proc, NEW o \in Uuid, RecoverPick(p, o) PROVE edits' = edits
  BY <1>4 DEF RecoverPick
<1>5. ASSUME NEW s, NEW n, NEW b, StartUpload(s, n, b) \/ EditMetadata(s) \/ DropUpload(s) PROVE edits' = edits
  BY <1>5 DEF StartUpload, EditMetadata, DropUpload
<1>6. ASSUME NEW new, NEW expired, Scan(new, expired) PROVE edits' = edits
  BY ZenonT(60), <1>6 DEF Scan
<1>7. UNCHANGED vars => edits' = edits
  BY DEF vars
<1> QED BY ZenonT(60), <1>2, <1>3, <1>4, <1>5, <1>6, <1>7 DEF Next

----------------------------------------------------------------------------
(* What follows for recovery, readers and versions.                        *)

(* What finish checks holds where MountOK does.                             *)
LEMMA ReadyGoesOn == ASSUME IndInv, MountOK PROVE RecoveryNeverStops
<1> SUFFICES ASSUME NEW p \in Proc, Inside(proc[p])
             PROVE  /\ proc[p].pc = "backup" => BackupOK(proc[p].op)
                    /\ proc[p].pc = "publish" => PublishOK(proc[p].op)
                    /\ proc[p].pc = "commit" => CommitOK(proc[p].op)
  BY DEF RecoveryNeverStops, Inside
<1> DEFINE op == proc[p].op
<1>1. /\ op.kind \in Kind /\ op.id \in Uuid /\ op.id \in Pending /\ operations[op.id] = op
      /\ RowsOK(op) /\ IntentOK(op.id, op) /\ IntentReady(op) /\ ProcReady(proc[p])
      /\ op.kind = "replace" => op.previous # None
  BY ZenonT(60), FinishFacts
<1>2. Unambiguous(op)
  BY ZenonT(60), <1>1 DEF IntentReady
<1>3. proc[p].pc = "backup" => BackupOK(op)
  BY ZenonT(60), <1>1, <1>2 DEF ProcReady, Unambiguous, BackupOK
<1>4. proc[p].pc = "publish" => PublishOK(op)
  BY ZenonT(60), <1>1, <1>2 DEF ProcReady, Unambiguous
<1>5. ASSUME proc[p].pc = "commit" PROVE CommitOK(op)
  <2>1. fs[op.target] # None
    BY ZenonT(60), <1>1, <1>5 DEF ProcReady, IntentReady
  <2>2. op.kind = "replace" => Row(op.node) /\ nodes[op.node].etag = op.row.etag
    BY ZenonT(60), <1>1 DEF RowsOK, RowAt
  <2>3. /\ op.kind = "create" => ~Row(op.node)
        /\ op.kind \in {"create", "move", "restore"} => PathFree(op)
    BY ZenonT(60), <1>1 DEF IntentReady, PathFree
  <2>4. op.kind \in {"replace", "trash"} => retained[op.id] = None
    BY ZenonT(60), <1>1, IntentTrash
  <2>5. op.session # None => uploads[op.session] # None
    BY ZenonT(60), <1>1 DEF IntentOK
  <2> QED BY ZenonT(60), <2>1, <2>2, <2>3, <2>4, <2>5 DEF CommitOK
<1> QED BY <1>3, <1>4, <1>5

LEMMA RowsDescribe == ASSUME IndInv, MountOK PROVE MetadataMatchesMount
<1>1. ASSUME NEW u \in Uuid, Row(u), ~Overlaps({nodes[u].path, NodeKey(u)})
      PROVE  nodes[u].data \in {fs[nodes[u].path], Stat(fs[nodes[u].path])}
  <2>1. \A o \in Pending : NodeKey(operations[o].node) \in operations[o].locks
    BY IntentFacts DEF ManifestOK
  <2>2. \A o \in Pending : operations[o].node # u
    BY <1>1, <2>1 DEF Overlaps
  <2>3. fs[nodes[u].path] = Seen(nodes[u].data)
    BY <1>1, <2>2 DEF MountOK, RowsMatch
  <2> QED BY <2>3 DEF Seen, Stat
<1>2. \A v \in Uuid : retained[v] # None /\ retained[v].kind = "version" =>
        fs[Version(v)] = retained[v].row.data
  BY DEF MountOK, VersionsKept
<1> QED BY <1>1, <1>2 DEF MetadataMatchesMount

(* No step other than a commit resolves or adds intents and changes rows.  *)
LEMMA RowsChangeAtCommit ==
    ASSUME IndInv, MountOK, [Next]_vars, edits' = edits, operations' # operations, nodes' # nodes
    PROVE  \E p \in Proc : Commit(p)
<1>1. ASSUME NEW p \in Proc, Request(p) \/ Crash(p) \/ IOError(p) PROVE FALSE
  BY ZenonT(60), <1>1 DEF Request, CreateDir, TouchFile, RestoreRecycleItem, Delete, FinishUpload, RestoreRevision, Move,
              Fail, Crash, IOError, tables
<1>2. ASSUME NEW p \in Proc, Step(p), ~Commit(p) PROVE FALSE
  BY ZenonT(60), <1>2 DEF Step, WriteUpload, AbandonUpload, Apply, ApplyFails, Backup, Publish, RecoveryStopped,
              RecoverOne, RecoverTimeout, Fail, tables
<1>3. ASSUME NEW p \in Proc, NEW o \in Uuid, RecoverPick(p, o) PROVE FALSE
  BY <1>3 DEF RecoverPick, tables
<1>4. ASSUME NEW s, NEW n, NEW b, StartUpload(s, n, b) \/ EditMetadata(s) \/ DropUpload(s) \/ ExternalEdit(n, b)
      PROVE  FALSE
  BY <1>4 DEF StartUpload, EditMetadata, DropUpload, ExternalEdit, tables
<1>5. ASSUME NEW new, NEW expired, Scan(new, expired) PROVE FALSE
  BY ZenonT(60), <1>5 DEF Scan
<1>6. UNCHANGED vars => FALSE
  BY DEF vars, tables
<1> QED BY ZenonT(60), <1>1, <1>2, <1>3, <1>4, <1>5, <1>6 DEF Next

(* A commit that changes the content of a row keeps the old one.           *)
LEMMA OverwriteKept ==
    ASSUME IndInv, MountOK, [Next]_vars, edits' = edits, NEW u \in Uuid, Row(u), nodes'[u] # None,
           operations' # operations, nodes'[u].data # nodes[u].data
    PROVE  \E v \in Uuid : /\ retained[v] = None /\ retained'[v] # None
                           /\ retained'[v].node = u /\ retained'[v].row.data = nodes[u].data
                           /\ fs'[Version(v)] = nodes[u].data
<1>1. PICK p \in Proc : Commit(p)
  BY RowsChangeAtCommit
<1> DEFINE op == proc[p].op
<1>2. /\ op.id \in Uuid /\ op.id \in Pending /\ op.kind \in Kind /\ operations[op.id] = op
      /\ IntentReady(op) /\ op.node \in Uuid
  BY <1>1, FinishFacts DEF Commit, Inside
<1>3. /\ u # op.node => nodes'[u] = nodes[u]
      /\ op.kind \in {"move", "trash", "restore"} => nodes'[op.node].data = nodes[op.node].data
  BY ZenonT(60), <1>1, CommitRows
<1>4. u = op.node
  BY <1>3
<1>5. /\ fs' = fs /\ fs[op.target] = op.digest
      /\ op.kind = "replace" => fs[Version(op.id)] = op.row.data
  BY ZenonT(60), <1>1, CommitFacts
<1>6. op.kind = "replace" /\ op.row.data = nodes[u].data
  BY ZenonT(60), <1>2, <1>3, <1>4, <1>5 DEF IntentReady, Kind
<1>7. retained'[op.id] # None /\ retained'[op.id].node = op.node /\ retained'[op.id].row = op.row
  BY ZenonT(60), <1>1, <1>6, CommitRetained
<1>8. retained[op.id] = None
  BY ZenonT(60), <1>2, <1>6, IntentTrash
<1> QED BY ZenonT(60), <1>2, <1>4, <1>5, <1>6, <1>7, <1>8

(* A finished operation is new to completed_operations.                    *)
LEMMA CommitCompletes ==
    ASSUME IndInv, NEW p \in Proc, Commit(p)
    PROVE  LET op == proc[p].op IN
           /\ op.node \in Uuid /\ <<op.id, op.kind, op.node>> \notin completed
           /\ completed' = completed \cup {<<op.id, op.kind, op.node>>}
           /\ EventKind(op) \in {"file", "directory", "deleted"}
           /\ outbox' = [outbox EXCEPT ![<<op.node, EventKind(op), "finish">>] = @ + 1]
<1>1. IntentOK(proc[p].op.id, proc[p].op) /\ proc[p].op.node \in Uuid
  BY ZenonT(60), CommitIntent
<1>2. \A c \in completed : c[1] = proc[p].op.id
        => proc[p].op.kind = "restore" /\ c = <<proc[p].op.id, "trash", proc[p].op.node>>
  BY ZenonT(60), <1>1 DEF IntentOK
<1>3. <<proc[p].op.id, proc[p].op.kind, proc[p].op.node>> \notin completed
  BY <1>2
<1>4. /\ completed' = completed \cup {<<proc[p].op.id, proc[p].op.kind, proc[p].op.node>>}
      /\ outbox' = [outbox EXCEPT ![<<proc[p].op.node, EventKind(proc[p].op), "finish">>] = @ + 1]
  BY DEF Commit
<1>5. EventKind(proc[p].op) \in {"file", "directory", "deleted"}
  BY DEF EventKind
<1> QED BY <1>1, <1>3, <1>4, <1>5

(* Nothing but a commit completes an operation or writes its event: what a *)
(* scan sends is marked as its own.                                        *)
LEMMA EventsAtCommit ==
    ASSUME IndInv, [Next]_vars
    PROVE  \/ /\ completed' = completed
              /\ \A u \in Uuid : \A k \in {"file", "directory", "deleted"} :
                   outbox'[<<u, k, "finish">>] = outbox[<<u, k, "finish">>]
           \/ \E p \in Proc : Commit(p)
<1>1. ASSUME NEW p \in Proc, Request(p) \/ Crash(p) \/ IOError(p) PROVE UNCHANGED <<completed, outbox>>
  BY ZenonT(60), <1>1 DEF Request, CreateDir, TouchFile, RestoreRecycleItem, Delete, FinishUpload, RestoreRevision, Move,
              Fail, Crash, IOError, tables
<1>2. ASSUME NEW p \in Proc, Step(p), ~Commit(p) PROVE UNCHANGED <<completed, outbox>>
  BY ZenonT(60), <1>2 DEF Step, WriteUpload, AbandonUpload, Apply, ApplyFails, Backup, Publish, RecoveryStopped,
              RecoverOne, RecoverTimeout, Fail, tables
<1>3. ASSUME NEW p \in Proc, NEW o \in Uuid, RecoverPick(p, o) PROVE UNCHANGED <<completed, outbox>>
  BY <1>3 DEF RecoverPick, tables
<1>4. ASSUME NEW s, NEW n, NEW b, StartUpload(s, n, b) \/ EditMetadata(s) \/ DropUpload(s) \/ ExternalEdit(n, b)
      PROVE  UNCHANGED <<completed, outbox>>
  BY <1>4 DEF StartUpload, EditMetadata, DropUpload, ExternalEdit, tables
<1>5. ASSUME NEW new, NEW expired, Scan(new, expired)
      PROVE  /\ completed' = completed
             /\ \A u \in Uuid : \A k \in {"file", "directory", "deleted"} :
                  outbox'[<<u, k, "finish">>] = outbox[<<u, k, "finish">>]
  <2> DEFINE sent == UNION {ScanEvent(u, Rescanned(u, new, expired)) : u \in Uuid}
  <2>1. completed' = completed /\ outbox' = [e \in Event |-> IF e \in sent THEN outbox[e] + 1 ELSE outbox[e]]
    BY ZenonT(60), <1>5 DEF Scan
  <2>2. \A e \in sent : e[3] = "scan"
    <3>1. \A u, row : \A e \in ScanEvent(u, row) : e[3] = "scan"
      BY DEF ScanEvent
    <3> QED BY ZenonT(60), <3>1
  <2> HIDE DEF sent
  <2>3. \A u \in Uuid : \A k \in {"file", "directory", "deleted"} :
          <<u, k, "finish">> \in Event /\ <<u, k, "finish">>[3] = "finish"
    BY DEF Event
  <2> QED BY <2>1, <2>2, <2>3
<1>6. UNCHANGED vars => UNCHANGED <<completed, outbox>>
  BY DEF vars, tables
<1> QED BY ZenonT(60), <1>1, <1>2, <1>3, <1>4, <1>5, <1>6 DEF Next

----------------------------------------------------------------------------
(* Nothing is destroyed, with edits on the mount or without.               *)

(* What becomes of the file at l in a step that is not an edit.            *)
Preserved(l) ==
    l[1] # "tmp" /\ fs[l] # None /\ fs'[l] # fs[l] =>
        \E k \in Place : fs[k] = None /\ fs'[k] = fs[l] /\ fs'[l] = None

(* A rename to a free place loses nothing.                                 *)
LEMMA RenamePreserves ==
    ASSUME TypeOK, NEW from \in Place, NEW to \in Place, fs[to] = None, fs' = Move1(from, to), NEW l \in Place
    PROVE  Preserved(l)
<1>1. CASE from = to
  BY <1>1 DEF TypeOK, Move1, Preserved
<1>2. CASE from # to
  <2>1. fs'[from] = None /\ fs'[to] = fs[from] /\ \A k \in Place \ {from, to} : fs'[k] = fs[k]
    BY <1>2 DEF TypeOK, Move1
  <2> QED BY <2>1 DEF Preserved
<1> QED BY <1>1, <1>2

LEMMA TmpPreserves ==
    ASSUME TypeOK, fs' = fs \/ \E o \in Uuid : \E c : fs' = [fs EXCEPT ![Tmp(o)] = c], NEW l \in Place
    PROVE  Preserved(l)
<1>1. \A o \in Uuid : Tmp(o)[1] = "tmp"
  BY DEF Tmp
<1> QED BY <1>1 DEF TypeOK, Preserved

LEMMA FinishPreserves ==
    ASSUME IndInv, NEW p \in Proc, Backup(p) \/ Publish(p), NEW l \in Place
    PROVE  Preserved(l)
<1>1. Inside(proc[p]) /\ TypeOK
  BY DEF Backup, Publish, Inside, IndInv
<1>2. proc[p].op.id \in Pending /\ operations[proc[p].op.id] = proc[p].op
  BY <1>1, InsideFacts
<1>3. proc[p].op.id \in Uuid /\ proc[p].op.source \in Place /\ proc[p].op.target \in Place
  BY <1>2, IntentFacts
<1>4. fs' # fs => \/ fs[Version(proc[p].op.id)] = None /\ fs' = Move1(proc[p].op.target, Version(proc[p].op.id))
                  \/ fs[proc[p].op.target] = None /\ fs' = Move1(proc[p].op.source, proc[p].op.target)
  BY DEF Backup, Publish
<1>5. CASE fs' = fs
  BY <1>5 DEF Preserved
<1> QED BY ZenonT(60), <1>1, <1>3, <1>4, <1>5, PlaceType, RenamePreserves

LEMMA StepPreserves ==
    ASSUME IndInv, [Next]_vars, edits' = edits, NEW l \in Place
    PROVE  Preserved(l)
<1>1. TypeOK
  BY DEF IndInv
<1>2. ASSUME NEW p \in Proc, Request(p) PROVE fs' = fs \/ \E o \in Uuid : \E c : fs' = [fs EXCEPT ![Tmp(o)] = c]
  BY ZenonT(60), <1>2 DEF Request, CreateDir, TouchFile, RestoreRecycleItem, Delete, FinishUpload,
                          RestoreRevision, Move
<1>3. ASSUME NEW p \in Proc, Step(p), ~Backup(p), ~Publish(p)
      PROVE  fs' = fs \/ \E o \in Uuid : \E c : fs' = [fs EXCEPT ![Tmp(o)] = c]
  <2>1. CASE WriteUpload(p) \/ Apply(p) \/ Commit(p) \/ RecoverOne(p)
    BY ZenonT(60), <2>1 DEF WriteUpload, Apply, Commit, RecoverOne
  <2> QED BY <1>3, <2>1, EndTmp DEF Step
<1>4. ASSUME NEW p \in Proc, Crash(p) \/ IOError(p)
      PROVE  fs' = fs \/ \E o \in Uuid : \E c : fs' = [fs EXCEPT ![Tmp(o)] = c]
  BY <1>4, EndTmp
<1>5. ASSUME NEW s, NEW n, NEW b, \/ StartUpload(s, n, b) \/ EditMetadata(s) \/ DropUpload(s)
                                  \/ Scan(s, n) \/ RecoverPick(s, n)
      PROVE  fs' = fs
  BY <1>5 DEF StartUpload, EditMetadata, DropUpload, Scan, RecoverPick
<1>6. ASSUME NEW n, NEW c, ExternalEdit(n, c) PROVE FALSE
  BY <1>1, <1>6 DEF ExternalEdit, TypeOK
<1>7. UNCHANGED vars => fs' = fs
  BY DEF vars
<1>8. CASE \E p \in Proc : Backup(p) \/ Publish(p)
  BY <1>8, FinishPreserves
<1>9. CASE ~\E p \in Proc : Backup(p) \/ Publish(p)
  <2>1. fs' = fs \/ \E o \in Uuid : \E c : fs' = [fs EXCEPT ![Tmp(o)] = c]
    BY ZenonT(60), <1>2, <1>3, <1>4, <1>5, <1>6, <1>7, <1>9 DEF Next
  <2> QED BY <1>1, <2>1, TmpPreserves
<1> QED BY <1>8, <1>9
=============================================================================
