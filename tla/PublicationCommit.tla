------------------------- MODULE PublicationCommit -------------------------
(***************************************************************************)
(* Facts about Publication that its proofs share, and the final            *)
(* transaction of finish: it keeps the inductive invariant of              *)
(* PublicationInv.                                                         *)
(***************************************************************************)
EXTENDS PublicationInv, TLAPS

USE SMTT(20), ZenonT(60)

LEMMA PlanType ==
    ASSUME TypeOK, NEW ls \in SUBSET Place
    PROVE  Plan(ls) \in SUBSET Key
BY DEF Plan, Key, NodeKey, Public

LEMMA IntentType ==
    ASSUME NEW o \in Uuid, NEW kind \in Kind, NEW source \in Place, NEW target \in Place,
           NEW session \in Uuid \cup {None}, NEW node \in Uuid, NEW row \in NodeRow \cup {None}
    PROVE  Intent(o, kind, source, target, session, node, row) \in Operation
BY DEF Intent, Operation

LEMMA PlaceType ==
    /\ \A n \in Name : Entry(n) \in Public
    /\ \A o \in Uuid : Tmp(o) \in Place /\ Version(o) \in Place /\ Trash(o) \in Place
    /\ \A o \in Uuid : Tmp(o) \notin Public /\ Version(o) \notin Public /\ Trash(o) \notin Public
    /\ Public \subseteq Place
BY DEF Entry, Tmp, Version, Trash, Place, Public, Control

LEMMA KeyType ==
    /\ \A u \in Uuid : NodeKey(u) \in Key /\ SessionKey(u) \in Key /\ OperationKey(u) \in Key
    /\ Public \subseteq Key
BY DEF NodeKey, SessionKey, OperationKey, Key, Public

LEMMA IdleType ==
    /\ Idle \in ProcState /\ Idle.pc = "idle" /\ Idle.op = None /\ Idle.request = None
    /\ Idle.held = {}
BY DEF Idle, ProcState, Pc

(* A uuid not drawn yet occurs nowhere.                                    *)
LEMMA FreshUnused ==
    ASSUME IndInv, NEW o \in Fresh
    PROVE  /\ o \in Uuid /\ operations[o] = None /\ retained[o] = None /\ uploads[o] = None /\ ~Row(o)
           /\ \A c \in completed : c[1] # o
           /\ \A q \in Proc : Draft(proc[q]) # None => Draft(proc[q]).id # o
BY ZenonT(180) DEF IndInv, Fresh, TablesOK, PendingOK, IntentOK, Pending, TrashOK, SessionsOK, UsedIsIssued,
       LocalOK, DraftOK

(* What a scan does to the rows: new ones have ids never used before, and  *)
(* the rows of retained entries stay as they are.                          *)
LEMMA RescannedRows ==
    ASSUME IndInv, NEW new \in FreshIds, NEW expired, NEW u \in Uuid
    PROVE  LET row == Rescanned(u, new, expired) IN
           /\ row \in NodeRow \cup {None}
           /\ row # None => Row(u) \/ \E n \in Imported : new[n] = u
           /\ u \in issued /\ ~Row(u) => row = None
           /\ Row(u) /\ nodes[u].path \notin Public => row = nodes[u]
<1>1. \A n \in Imported : new[n] \in Uuid \ issued
  BY DEF FreshIds, Fresh
<1>2. Row(u) => u \in issued
  BY DEF IndInv, TablesOK, UsedIsIssued
<1>3. CASE \E n \in Imported : new[n] = u
  <2> DEFINE n == CHOOSE m \in Imported : new[m] = u
  <2>1. n \in Imported
    BY <1>3
  <2>2. Rescanned(u, new, expired) = [path |-> Entry(n), dir |-> fs[Entry(n)] = Dir,
           data |-> fs[Entry(n)], etag |-> 1, missing |-> FALSE]
    BY <1>3 DEF Rescanned
  <2> HIDE DEF n
  <2>3. n \in Name /\ Entry(n) \in Place /\ fs[Entry(n)] \in Content
    BY <2>1, PlaceType DEF Imported, IndInv, TypeOK
  <2>4. Rescanned(u, new, expired) \in NodeRow
    BY <2>2, <2>3 DEF NodeRow
  <2> QED BY <1>1, <1>2, <1>3, <2>4
<1>4. CASE ~\E n \in Imported : new[n] = u
  <2>1. CASE ~Row(u) \/ nodes[u].path \notin Public
    <3>1. Rescanned(u, new, expired) = nodes[u]
      BY <1>4, <2>1 DEF Rescanned
    <3> QED BY <3>1 DEF Row, IndInv, TypeOK
  <2>2. CASE Row(u) /\ nodes[u].path \in Public
    <3>1. nodes[u] \in NodeRow /\ fs[nodes[u].path] \in Content \cup {None}
      BY <2>2 DEF Row, IndInv, TypeOK, NodeRow
    <3>2. [nodes[u] EXCEPT !.missing = TRUE] \in NodeRow
      BY ZenonT(60), <3>1 DEF NodeRow
    <3>3. fs[nodes[u].path] # None =>
            [nodes[u] EXCEPT !.data = fs[nodes[u].path], !.etag = @ + 1] \in NodeRow
      <4>1. nodes[u].etag + 1 \in Nat
        BY <3>1 DEF NodeRow
      <4>2. \A row \in NodeRow, c \in Content, e \in Nat :
              [row EXCEPT !.data = c, !.etag = e] \in NodeRow
        BY ZenonT(60) DEF NodeRow
      <4>3. [nodes[u] EXCEPT !.data = fs[nodes[u].path], !.etag = @ + 1]
              = [nodes[u] EXCEPT !.data = fs[nodes[u].path], !.etag = nodes[u].etag + 1]
        OBVIOUS
      <4> QED BY ZenonT(60), <3>1, <4>1, <4>2, <4>3
    <3>4. Rescanned(u, new, expired) \in NodeRow \cup {None}
      BY <1>4, <2>2, <3>1, <3>2, <3>3 DEF Rescanned
    <3> QED BY <2>2, <3>4
  <2> QED BY <2>1, <2>2
<1> QED BY <1>3, <1>4

----------------------------------------------------------------------------
(* Steps that change the tables while a process q keeps its state.         *)

(* What a draft needs from the tables, in the next state.                  *)
DraftKept(d) ==
    /\ d.id \in issued' /\ uploads'[d.id] = None
    /\ d.kind # "restore" =>
         /\ operations'[d.id] = None /\ retained'[d.id] = None /\ nodes'[d.id] = None
         /\ \A c \in completed' : c[1] # d.id
    /\ d.session # None =>
         /\ uploads'[d.session] # None /\ uploads'[d.session].result = None
         /\ \A o \in Pending' : operations'[o].session # d.session

LEMMA LocalKept ==
    ASSUME NEW q \in Proc, LocalOK(proc[q]), proc'[q] = proc[q],
           JournalOK(proc[q])', HeldOK(proc[q])',
           Inside(proc[q]) => operations'[proc[q].op.id] = proc[q].op,
           proc[q].pc = "picked" =>
               \/ operations'[proc[q].op.id] = proc[q].op
               \/ <<proc[q].op.id, proc[q].op.kind, proc[q].op.node>> \in completed',
           Draft(proc[q]) # None => DraftKept(Draft(proc[q]))
    PROVE  LocalOK(proc[q])'
<1>1. ShapeOK(proc[q])' /\ (proc[q].op # None => RowRecorded(proc[q].op))'
  BY DEF LocalOK, ShapeOK, RowRecorded
<1>2. InsideOK(proc[q])'
  BY DEF LocalOK, InsideOK, Inside, Anchor
<1>3. PickedOK(proc[q])'
  <2>1. OpShape(proc[q].op)' = OpShape(proc[q].op) /\ ManifestOK(proc[q].op)' = ManifestOK(proc[q].op)
    BY DEF OpShape, ManifestOK
  <2> QED BY <2>1 DEF LocalOK, PickedOK
<1>4. (Draft(proc[q]) # None => DraftOK(Draft(proc[q]), proc[q].held))'
  <2>1. OpShape(Draft(proc[q]))' = OpShape(Draft(proc[q])) /\ Draft(proc[q])' = Draft(proc[q])
    BY DEF OpShape, Draft
  <2> QED BY <2>1 DEF LocalOK, DraftOK, DraftKept, Row
<1> QED BY <1>1, <1>2, <1>3, <1>4 DEF LocalOK

(* The same for all processes.                                             *)
LEMMA ProcsSame ==
    ASSUME IndInv, TypeOK', TablesOK', \A q \in Proc : LocalOK(proc[q])', proc' = proc
    PROVE  IndInv'
<1>1. HeldDisjoint' /\ DraftsDistinct'
  BY DEF IndInv, HeldDisjoint, Held, DraftsDistinct, Draft
<1> QED BY <1>1 DEF IndInv

----------------------------------------------------------------------------
(* The final transaction.  Its tables, seen by everybody else.             *)

LEMMA CommitIntent ==
    ASSUME IndInv, NEW p \in Proc, Commit(p)
    PROVE  /\ proc[p] \in ProcState /\ Inside(proc[p]) /\ LocalOK(proc[p])
           /\ proc[p].op \in Operation /\ proc[p].op.id \in Uuid /\ proc[p].op.kind \in Kind
           /\ proc[p].op.node \in Uuid /\ proc[p].op.session \in Uuid \cup {None}
           /\ proc[p].op.source \in Place /\ proc[p].op.target \in Place
           /\ proc[p].op.id \in Pending /\ operations[proc[p].op.id] = proc[p].op
           /\ IntentOK(proc[p].op.id, proc[p].op)
           /\ Anchor(proc[p].op) \in proc[p].held
<1>1. proc[p] \in ProcState /\ Inside(proc[p]) /\ LocalOK(proc[p]) /\ proc[p].op # None
  BY DEF Commit, IndInv, TypeOK, Inside, LocalOK, ShapeOK
<1>2. proc[p].op \in Operation
  BY <1>1 DEF ProcState
<1>3. operations[proc[p].op.id] = proc[p].op /\ Anchor(proc[p].op) \in proc[p].held
  BY <1>1 DEF LocalOK, InsideOK
<1>4. proc[p].op.id \in Pending
  BY <1>1, <1>2, <1>3 DEF Pending, Operation
<1>5. IntentOK(proc[p].op.id, proc[p].op)
  BY ZenonT(60), <1>3, <1>4 DEF IndInv, TablesOK, PendingOK
<1> QED BY <1>1, <1>2, <1>3, <1>4, <1>5 DEF Operation

(* The rows after the transaction: only the node of the operation and rows *)
(* at a public source change, and only at places of the manifest.          *)
LEMMA CommitNodes ==
    ASSUME IndInv, NEW p \in Proc, Commit(p)
    PROVE  LET op == proc[p].op IN
           /\ nodes' \in [Uuid -> NodeRow \cup {None}]
           /\ \A u \in Uuid : nodes'[u] # None <=> Row(u) \/ (op.kind = "create" /\ u = op.node)
           /\ \A u \in Uuid : u # op.node /\ (Row(u) => nodes[u].path \notin Public \cap op.locks)
                => nodes'[u] = nodes[u]
           /\ op.kind = "trash" => nodes'[op.node].path = Trash(op.id)
           /\ \A u \in Uuid, l \in Public : l \notin op.locks =>
                (nodes'[u] # None /\ nodes'[u].path = l <=> RowAt(u, l))
<1> DEFINE op == proc[p].op
<1>1. /\ op.id \in Uuid /\ op.kind \in Kind /\ op.node \in Uuid
      /\ op.source \in Place /\ op.target \in Place
      /\ IntentOK(op.id, op) /\ CommitOK(op) /\ nodes' = NodesAfter(op)
      /\ fs[op.target] \in Content \cup {None}
  BY ZenonT(60), CommitIntent DEF Commit, IndInv, TypeOK
<1>2. /\ OpShape(op) /\ RowsOK(op) /\ {op.source, op.target} \cap Public \subseteq op.locks
  BY <1>1 DEF IntentOK, ManifestOK
<1>3. nodes \in [Uuid -> NodeRow \cup {None}] /\ None \notin NodeRow
  BY NoneAssumption DEF IndInv, TypeOK
<1> HIDE DEF op
<1>4. CASE op.kind = "replace"
  <2> DEFINE row == [nodes[op.node] EXCEPT !.data = fs[op.target], !.etag = nodes[op.node].etag + 1,
                                           !.missing = FALSE]
  <2>1. nodes' = [nodes EXCEPT ![op.node] = row]
    <3>1. nodes' = Replaced(op)
      BY <1>1, <1>4 DEF NodesAfter
    <3> QED BY <3>1 DEF Replaced
  <2>2. /\ RowAt(op.node, op.target) /\ op.target \in Public /\ op.target \in op.locks
        /\ fs[op.target] \in Content /\ nodes[op.node] \in NodeRow
    BY <1>1, <1>2, <1>3, <1>4 DEF RowsOK, OpShape, CommitOK, RowAt, Row
  <2>3. row \in NodeRow /\ row.path = op.target
    <3>1. \A r \in NodeRow, c \in Content, e \in Nat :
            /\ [r EXCEPT !.data = c, !.etag = e, !.missing = FALSE] \in NodeRow
            /\ [r EXCEPT !.data = c, !.etag = e, !.missing = FALSE].path = r.path
      BY ZenonT(60) DEF NodeRow
    <3>2. nodes[op.node].etag + 1 \in Nat
      BY <2>2 DEF NodeRow
    <3> QED BY ZenonT(60), <2>2, <3>1, <3>2 DEF RowAt
  <2> HIDE DEF row
  <2> QED BY <1>1, <1>3, <1>4, <2>1, <2>2, <2>3 DEF op, Row, RowAt
<1>5. CASE op.kind = "create"
  <2> DEFINE row == [path |-> op.target, dir |-> op.digest = Dir, data |-> Stat(fs[op.target]),
                     etag |-> 1, missing |-> FALSE]
  <2>1. nodes' = [nodes EXCEPT ![op.node] = row]
    BY <1>1, <1>5 DEF NodesAfter, Created
  <2>2. /\ ~Row(op.node) /\ op.target \in Public /\ op.target \in op.locks
        /\ fs[op.target] \in Content
    BY <1>1, <1>2, <1>5 DEF OpShape, CommitOK
  <2>3. row \in NodeRow /\ row.path = op.target
    <3>1. op.target \in Place /\ Stat(fs[op.target]) \in Content \cup {StatDir} /\ (op.digest = Dir) \in BOOLEAN
      BY <1>1, <2>2 DEF Stat
    <3>2. \A l \in Place, b \in BOOLEAN, d \in Content \cup {StatDir} :
            LET r == [path |-> l, dir |-> b, data |-> d, etag |-> 1, missing |-> FALSE] IN
            r \in NodeRow /\ r.path = l
      BY DEF NodeRow
    <3> QED BY ZenonT(60), <3>1, <3>2
  <2> HIDE DEF row
  <2> QED BY <1>1, <1>3, <1>5, <2>1, <2>2, <2>3 DEF op, Row, RowAt
<1>6. CASE op.kind = "restore"
  <2> DEFINE row == [nodes[op.node] EXCEPT !.path = op.target, !.etag = nodes[op.node].etag + 1,
                                           !.missing = FALSE]
  <2>1. /\ RowAt(op.node, Trash(op.id)) /\ Trash(op.id) \notin Public /\ op.target \in Public
        /\ op.target \in op.locks /\ nodes[op.node] \in NodeRow
    BY <1>1, <1>2, <1>3, <1>6, PlaceType DEF RowsOK, OpShape, IndInv, TablesOK, TrashOK, RowAt, Row
  <2>2. nodes' = [nodes EXCEPT ![op.node] = row]
    <3>1. nodes' = Restored(op)
      BY <1>1, <1>6 DEF NodesAfter
    <3> QED BY <2>1, <3>1 DEF Restored, RowAt, Row
  <2>3. row \in NodeRow /\ row.path = op.target
    <3>1. \A r \in NodeRow, l \in Place, e \in Nat :
            /\ [r EXCEPT !.path = l, !.etag = e, !.missing = FALSE] \in NodeRow
            /\ [r EXCEPT !.path = l, !.etag = e, !.missing = FALSE].path = l
      BY ZenonT(60) DEF NodeRow
    <3>2. nodes[op.node].etag + 1 \in Nat
      BY <2>1 DEF NodeRow
    <3>3. op.target \in Place /\ nodes[op.node] \in NodeRow
      BY <1>1, <2>1
    <3> QED BY ZenonT(60), <3>1, <3>2, <3>3
  <2> HIDE DEF row
  <2> QED BY <1>1, <1>3, <1>6, <2>1, <2>2, <2>3 DEF op, Row, RowAt
<1>7. CASE op.kind \in {"move", "trash"}
  <2>1. /\ RowAt(op.node, op.source) /\ op.source \in Public /\ op.source \in op.locks
        /\ op.target \in Public => op.target \in op.locks
        /\ op.kind = "trash" => op.target = Trash(op.id)
    BY <1>1, <1>2, <1>7 DEF RowsOK, OpShape
  <2>2. \A u \in Uuid : RowAt(u, op.source) =>
          /\ Relocated(op)[u] \in NodeRow /\ Relocated(op)[u].path = op.target
    <3>1. \A r \in NodeRow, l \in Place : [r EXCEPT !.path = l] \in NodeRow /\ [r EXCEPT !.path = l].path = l
      BY DEF NodeRow
    <3> QED BY ZenonT(60), <1>1, <1>3, <3>1 DEF Relocated, RowAt, Row
  <2>3. \A u \in Uuid : ~RowAt(u, op.source) => Relocated(op)[u] = nodes[u]
    BY DEF Relocated
  <2>4. \A r \in NodeRow : [r EXCEPT !.etag = @ + 1] \in NodeRow /\ [r EXCEPT !.etag = @ + 1].path = r.path
    BY DEF NodeRow
  <2>5. /\ nodes' \in [Uuid -> NodeRow \cup {None}]
        /\ \A u \in Uuid : RowAt(u, op.source) => nodes'[u] \in NodeRow /\ nodes'[u].path = op.target
        /\ \A u \in Uuid : ~RowAt(u, op.source) => nodes'[u] = nodes[u]
    <3>1. CASE op.kind = "trash"
      <4>1. nodes' = Relocated(op)
        BY <1>1, <3>1 DEF NodesAfter
      <4>2. Relocated(op) = [u \in Uuid |-> Relocated(op)[u]]
        BY DEF Relocated
      <4> QED BY <1>3, <2>2, <2>3, <4>1, <4>2
    <3>2. CASE op.kind = "move"
      <4>1. nodes' = Moved(op)
        BY <1>1, <3>2 DEF NodesAfter
      <4>2. nodes' = [u \in Uuid |-> IF u = op.node /\ Row(u) THEN [Relocated(op)[u] EXCEPT !.etag = @ + 1]
                                                              ELSE Relocated(op)[u]]
        BY <4>1 DEF Moved
      <4> QED BY <1>3, <2>1, <2>2, <2>3, <2>4, <4>2
    <3> QED BY <1>7, <3>1, <3>2
  <2> QED BY ZenonT(60), <1>1, <1>3, <1>7, <2>1, <2>5 DEF op, Row, RowAt
<1> QED BY ZenonT(60), <1>1, <1>4, <1>5, <1>6, <1>7 DEF Kind

(* The other tables after the transaction.                                 *)
LEMMA CommitTables ==
    ASSUME IndInv, NEW p \in Proc, Commit(p)
    PROVE  LET op == proc[p].op IN
           /\ operations' \in [Uuid -> Operation \cup {None}]
           /\ Pending' = Pending \ {op.id}
           /\ operations'[op.id] = None
           /\ \A o \in Uuid \ {op.id} : operations'[o] = operations[o]
           /\ retained' \in [Uuid -> RetainedRow \cup {None}]
           /\ \A r \in Uuid \ {op.id} : retained'[r] = retained[r]
           /\ op.kind \in {"create", "move", "restore"} => retained'[op.id] = None
           /\ op.kind = "replace" => retained'[op.id].kind = "version"
           /\ op.kind = "trash" => retained'[op.id].kind = "trash" /\ retained'[op.id].node = op.node
           /\ uploads' \in [Uuid -> Upload \cup {None}]
           /\ \A s \in Uuid : uploads'[s] = None <=> uploads[s] = None
           /\ \A s \in Uuid : s # op.session => uploads'[s] = uploads[s]
           /\ op.session # None => uploads'[op.session].result # None
           /\ completed' = completed \cup {<<op.id, op.kind, op.node>>}
           /\ outbox' \in [Event -> Nat]
           /\ UNCHANGED <<fs, issued, crashes, edits>>
<1> DEFINE op == proc[p].op
<1>1. /\ op \in Operation /\ op.id \in Uuid /\ op.kind \in Kind /\ op.node \in Uuid
      /\ op.session \in Uuid \cup {None} /\ IntentOK(op.id, op)
      /\ operations' = [operations EXCEPT ![op.id] = None] /\ retained' = RetainedAfter(op)
      /\ uploads' = IF op.session = None THEN uploads
                    ELSE [uploads EXCEPT ![op.session].result = op.node]
      /\ completed' = completed \cup {<<op.id, op.kind, op.node>>}
      /\ outbox' = [outbox EXCEPT ![<<op.node, EventKind(op), "finish">>] = @ + 1]
      /\ UNCHANGED <<fs, issued, crashes, edits>>
  BY ZenonT(60), CommitIntent DEF Commit
<1>2. op.kind # "create" => op.row \in NodeRow
  BY <1>1 DEF IntentOK, RowRecorded, Operation
<1> HIDE DEF op
<1>3. /\ operations' \in [Uuid -> Operation \cup {None}] /\ Pending' = Pending \ {op.id}
      /\ operations'[op.id] = None /\ \A o \in Uuid \ {op.id} : operations'[o] = operations[o]
  BY <1>1 DEF IndInv, TypeOK, Pending
<1>4. /\ retained' \in [Uuid -> RetainedRow \cup {None}]
      /\ \A r \in Uuid \ {op.id} : retained'[r] = retained[r]
      /\ op.kind \in {"create", "move", "restore"} => retained'[op.id] = None
      /\ op.kind = "replace" => retained'[op.id].kind = "version"
      /\ op.kind = "trash" => retained'[op.id].kind = "trash" /\ retained'[op.id].node = op.node
  <2>1. CASE op.kind \in {"replace", "trash"}
    <3> DEFINE k == IF op.kind = "replace" THEN "version" ELSE "trash"
               item == [node |-> op.node, kind |-> k, row |-> op.row]
    <3>1. item \in RetainedRow /\ item.kind = k /\ item.node = op.node
      BY <1>1, <1>2, <2>1 DEF RetainedRow
    <3>2. retained' = [retained EXCEPT ![op.id] = item]
      BY ZenonT(60), <1>1, <2>1 DEF RetainedAfter
    <3> HIDE DEF item
    <3> QED BY <1>1, <2>1, <3>1, <3>2 DEF IndInv, TypeOK
  <2>2. CASE op.kind = "restore"
    <3>1. retained' = [retained EXCEPT ![op.id] = None]
      BY <1>1, <2>2 DEF RetainedAfter
    <3> QED BY <1>1, <2>2, <3>1 DEF IndInv, TypeOK
  <2>3. CASE op.kind \in {"create", "move"}
    <3>1. retained' = retained
      BY <1>1, <2>3 DEF RetainedAfter
    <3> QED BY <1>1, <2>3, <3>1 DEF IndInv, TypeOK, IntentOK
  <2> QED BY <1>1, <2>1, <2>2, <2>3 DEF Kind
<1>5. /\ uploads' \in [Uuid -> Upload \cup {None}]
      /\ \A s \in Uuid : uploads'[s] = None <=> uploads[s] = None
      /\ \A s \in Uuid : s # op.session => uploads'[s] = uploads[s]
      /\ op.session # None => uploads'[op.session].result # None
  <2>1. CASE op.session = None
    BY <1>1, <2>1 DEF IndInv, TypeOK
  <2>2. CASE op.session # None
    <3> DEFINE up == [uploads[op.session] EXCEPT !.result = op.node]
    <3>1. uploads[op.session] \in Upload /\ op.session \in Uuid
      BY <1>1, <2>2 DEF IntentOK, IndInv, TypeOK
    <3>2. up \in Upload /\ up.result = op.node
      BY <1>1, <3>1 DEF Upload
    <3>3. uploads' = [uploads EXCEPT ![op.session] = up]
      BY <1>1, <2>2
    <3> HIDE DEF up
    <3>4. op.node # None /\ up # None
      BY <1>1, <3>2, ConstantAssumption, NoneAssumption
    <3> QED BY <1>1, <2>2, <3>1, <3>2, <3>3, <3>4, NoneAssumption DEF IndInv, TypeOK
  <2> QED BY <2>1, <2>2
<1>6. outbox' \in [Event -> Nat]
  <2>1. <<op.node, EventKind(op), "finish">> \in Event
    BY <1>1 DEF Event, EventKind
  <2> QED BY <1>1, <2>1 DEF IndInv, TypeOK
<1> QED BY ZenonT(60), <1>1, <1>3, <1>4, <1>5, <1>6 DEF op

(* Drafts are not affected by the transaction of another operation.        *)
LEMMA CommitDrafts ==
    ASSUME IndInv, NEW p \in Proc, Commit(p), NEW q \in Proc, Draft(proc[q]) # None
    PROVE  DraftKept(Draft(proc[q]))
<1> DEFINE op == proc[p].op
           d == Draft(proc[q])
<1>1. DraftOK(d, proc[q].held) /\ d.id \in Uuid /\ d.session \in Uuid \cup {None}
  BY DEF IndInv, TypeOK, LocalOK, Draft, ProcState, Operation
<1>2. /\ op.id \in Pending /\ operations[op.id] = op /\ IntentOK(op.id, op)
      /\ op.id \in Uuid /\ op.session \in Uuid \cup {None}
  BY CommitIntent
<1>3. \A u \in Uuid : nodes'[u] # None <=> Row(u) \/ (op.kind = "create" /\ u = op.node)
  BY ZenonT(60), CommitNodes
<1>4. /\ Pending' = Pending \ {op.id} /\ operations'[op.id] = None
      /\ \A o \in Uuid \ {op.id} : operations'[o] = operations[o]
      /\ \A r \in Uuid \ {op.id} : retained'[r] = retained[r]
      /\ \A s \in Uuid : uploads'[s] = None <=> uploads[s] = None
      /\ \A s \in Uuid : s # op.session => uploads'[s] = uploads[s]
      /\ completed' = completed \cup {<<op.id, op.kind, op.node>>}
      /\ issued' = issued
  BY ZenonT(60), CommitTables
<1> HIDE DEF op, d
<1>5. d.kind # "restore" => d.id # op.id
  BY <1>1, <1>2 DEF DraftOK, Pending
<1>6. d.session # None => d.session # op.session
  BY <1>1, <1>2 DEF DraftOK
<1>7. d.kind # "restore" => nodes'[d.id] = None
  <2>1. op.kind = "create" => op.node # d.id \/ d.kind = "restore"
    BY ZenonT(60), <1>1, <1>2, <1>5 DEF IntentOK, OpShape, DraftOK
  <2> QED BY ZenonT(60), <1>1, <1>3, <2>1 DEF DraftOK
<1>8. \A o \in Pending' : operations'[o] = operations[o] /\ o \in Pending
  BY ZenonT(60), <1>4 DEF Pending
<1>9. DraftKept(d)
  <2>1. d.id \in issued' /\ uploads'[d.id] = None
    BY ZenonT(60), <1>1, <1>4 DEF DraftOK
  <2>2. d.kind # "restore" =>
          /\ operations'[d.id] = None /\ retained'[d.id] = None /\ nodes'[d.id] = None
          /\ \A c \in completed' : c[1] # d.id
    <3>1. <<op.id, op.kind, op.node>>[1] = op.id
      OBVIOUS
    <3> QED BY ZenonT(60), <1>1, <1>4, <1>5, <1>7, <3>1 DEF DraftOK
  <2>3. d.session # None =>
          /\ uploads'[d.session] # None /\ uploads'[d.session].result = None
          /\ \A o \in Pending' : operations'[o].session # d.session
    BY ZenonT(60), <1>1, <1>4, <1>6, <1>8 DEF DraftOK
  <2> QED BY ZenonT(60), <2>1, <2>2, <2>3 DEF DraftKept
<1> QED BY <1>9 DEF d

(* The tables stay consistent.                                             *)
LEMMA CommitTablesOK == ASSUME IndInv, NEW p \in Proc, Commit(p) PROVE TablesOK'
<1> DEFINE op == proc[p].op
<1>1. /\ op.id \in Uuid /\ op.kind \in Kind /\ op.node \in Uuid /\ op.session \in Uuid \cup {None}
      /\ op.id \in Pending /\ operations[op.id] = op /\ IntentOK(op.id, op)
  BY ZenonT(60), CommitIntent
<1>2. /\ \A u \in Uuid : nodes'[u] # None <=> Row(u) \/ (op.kind = "create" /\ u = op.node)
      /\ \A u \in Uuid : u # op.node /\ (Row(u) => nodes[u].path \notin Public \cap op.locks)
           => nodes'[u] = nodes[u]
      /\ op.kind = "trash" => nodes'[op.node].path = Trash(op.id)
  BY ZenonT(60), CommitNodes
<1>3. /\ Pending' = Pending \ {op.id} /\ \A o \in Uuid \ {op.id} : operations'[o] = operations[o]
      /\ \A r \in Uuid \ {op.id} : retained'[r] = retained[r]
      /\ op.kind \in {"create", "move", "restore"} => retained'[op.id] = None
      /\ op.kind = "replace" => retained'[op.id].kind = "version"
      /\ op.kind = "trash" => retained'[op.id].kind = "trash" /\ retained'[op.id].node = op.node
      /\ \A s \in Uuid : uploads'[s] = None <=> uploads[s] = None
      /\ \A s \in Uuid : s # op.session => uploads'[s] = uploads[s]
      /\ op.session # None => uploads'[op.session].result # None
      /\ completed' = completed \cup {<<op.id, op.kind, op.node>>}
      /\ issued' = issued
  BY ZenonT(60), CommitTables
<1>4. /\ OpShape(op) /\ RowsOK(op) /\ NodeKey(op.node) \in op.locks /\ op.id \in issued
      /\ uploads[op.id] = None
  BY ZenonT(60), <1>1 DEF IntentOK, ManifestOK
<1>5. TablesOK /\ nodes \in [Uuid -> NodeRow \cup {None}] /\ retained \in [Uuid -> RetainedRow \cup {None}]
  BY DEF IndInv, TypeOK
<1>6. \A o \in Pending' : o \in Pending /\ o \in Uuid \ {op.id} /\ operations'[o] = operations[o]
  BY ZenonT(60), <1>3 DEF Pending
<1>7. ASSUME NEW o \in Pending' PROVE IntentOK(o, operations[o])'
  <2> DEFINE w == operations[o]
  <2>1. /\ o \in Uuid \ {op.id} /\ w \in Operation /\ IntentOK(o, w) /\ operations'[o] = w
        /\ w.node \in Uuid /\ w.session \in Uuid \cup {None} /\ w.id = o
    <3>1. o \in Pending /\ o \in Uuid \ {op.id} /\ operations'[o] = w
      BY <1>6
    <3>2. w \in Operation
      BY <3>1 DEF IndInv, TypeOK, Pending
    <3>3. IntentOK(o, w)
      BY ZenonT(60), <3>1, <1>5 DEF TablesOK, PendingOK
    <3>4. w.node \in Uuid /\ w.session \in Uuid \cup {None}
      BY <3>2 DEF Operation
    <3>5. w.id = o
      BY ZenonT(60), <3>3 DEF IntentOK
    <3> QED BY <3>1, <3>2, <3>3, <3>4, <3>5
  <2>2. w.locks \cap op.locks = {}
    BY <1>1, <1>6, <2>1 DEF IndInv, TablesOK, IntentsIndependent
  <2>3. w.node # op.node
    BY ZenonT(60), <1>4, <2>1, <2>2 DEF IntentOK, ManifestOK
  <2>4. w.session # None => w.session # op.session
    BY <1>1, <1>6, <2>1 DEF IndInv, TablesOK, SessionsDistinct
  <2> HIDE DEF op, w
  <2>5. ASSUME NEW l \in Public, l \in {w.source, w.target}, RowAt(w.node, l)
        PROVE  nodes'[w.node] = nodes[w.node]
    <3>1. l \in w.locks
      BY <2>1, <2>5 DEF IntentOK, ManifestOK
    <3> QED BY <1>2, <2>1, <2>2, <2>3, <2>5, <3>1 DEF RowAt
  <2>6. RowsOK(operations[o])'
    <3>1. retained'[o] = retained[o]
      BY <1>3, <2>1
    <3>2. OpShape(w) /\ RowsOK(w)
      BY <2>1 DEF IntentOK
    <3>3. w.kind = "replace" => nodes'[w.node] = nodes[w.node]
      BY ZenonT(60), <2>5, <3>2 DEF OpShape, RowsOK
    <3>4. w.kind \in {"move", "trash"} => nodes'[w.node] = nodes[w.node]
      BY ZenonT(60), <2>5, <3>2 DEF OpShape, RowsOK
    <3> QED BY ZenonT(60), <2>1, <3>1, <3>2, <3>3, <3>4 DEF RowsOK, RowAt, Row
  <2>7. OpShape(operations[o])' /\ ManifestOK(operations[o])' /\ RowRecorded(operations[o])'
    BY ZenonT(60), <2>1 DEF IntentOK, OpShape, ManifestOK, RowRecorded
  <2>8. \A c \in completed' : c[1] = o => w.kind = "restore" /\ c = <<o, "trash", w.node>>
    <3>1. <<op.id, op.kind, op.node>>[1] = op.id
      OBVIOUS
    <3>2. \A c \in completed : c[1] = o => w.kind = "restore" /\ c = <<o, "trash", w.node>>
      BY ZenonT(60), <2>1 DEF IntentOK
    <3> QED BY ZenonT(60), <1>3, <2>1, <3>1, <3>2
  <2>9. /\ uploads'[o] = None
        /\ w.kind # "restore" => retained'[o] = None
        /\ w.session # None => uploads'[w.session] # None /\ uploads'[w.session].result = None
        /\ \A u \in Uuid : NodeKey(u) \in w.locks => nodes'[u] # None \/ u = w.node
    BY ZenonT(60), <1>2, <1>3, <2>1, <2>4 DEF IntentOK
  <2> QED BY ZenonT(60), <1>3, <2>1, <2>6, <2>7, <2>8, <2>9 DEF IntentOK, Row
<1>8. SessionsDistinct' /\ IntentsIndependent'
  BY ZenonT(60), <1>5, <1>6 DEF TablesOK, SessionsDistinct, IntentsIndependent
<1>9. UsedIsIssued'
  <2>1. op.kind = "create" => op.node \in issued
    <3>1. op.session # None => op.session \in Uuid /\ uploads[op.session] # None
      BY ZenonT(60), <1>1 DEF IntentOK
    <3>2. op.session # None => op.session \in issued
      BY ZenonT(60), <1>5, <3>1 DEF TablesOK, SessionsOK
    <3> QED BY ZenonT(60), <1>4, <3>2 DEF OpShape
  <2>2. \A c \in completed' : c[1] \in issued
    <3>1. \A c \in completed : c[1] \in issued
      BY <1>5 DEF TablesOK, UsedIsIssued
    <3>2. <<op.id, op.kind, op.node>>[1] \in issued
      BY <1>4
    <3> QED BY ZenonT(60), <1>3, <3>1, <3>2
  <2> QED BY ZenonT(60), <1>2, <1>3, <1>5, <2>1, <2>2 DEF TablesOK, UsedIsIssued, Row
<1>10. SessionsOK'
  <2>1. ASSUME NEW s \in Uuid, uploads'[s] # None
        PROVE  s \in issued /\ (uploads'[s].result = None => nodes'[s] = None)
    <3>1. uploads[s] # None /\ s \in issued
      BY ZenonT(60), <1>3, <1>5, <2>1 DEF TablesOK, SessionsOK
    <3>2. ASSUME uploads'[s].result = None PROVE nodes'[s] = None
      <4>1. s # op.session /\ uploads[s].result = None /\ ~Row(s)
        <5>1. s # op.session
          <6>1. s # None
            BY ConstantAssumption
          <6> QED BY ZenonT(60), <1>3, <3>2, <6>1
        <5>2. uploads'[s] = uploads[s]
          BY ZenonT(60), <1>3, <5>1
        <5> QED BY ZenonT(60), <1>5, <3>1, <3>2, <5>1, <5>2 DEF TablesOK, SessionsOK
      <4>2. op.kind = "create" => s # op.node
        BY ZenonT(60), <1>4, <3>1, <4>1 DEF OpShape
      <4> QED BY ZenonT(60), <1>2, <4>1, <4>2
    <3> QED BY ZenonT(60), <3>1, <3>2
  <2> QED BY ZenonT(60), <1>3, <2>1 DEF SessionsOK, Row
<1>11. ASSUME NEW r \in Uuid, retained'[r] # None
       PROVE  /\ uploads'[r] = None /\ r \in issued'
              /\ retained'[r].kind = "trash" =>
                   /\ nodes'[retained'[r].node] # None /\ nodes'[retained'[r].node].path = Trash(r)
                   /\ \A c \in completed' : c[1] = r => c = <<r, "trash", retained'[r].node>>
  <2>1. CASE r = op.id
    <3>1. uploads'[r] = None /\ r \in issued'
      BY ZenonT(60), <1>3, <1>4, <2>1
    <3>2. ASSUME retained'[r].kind = "trash"
          PROVE  /\ nodes'[retained'[r].node] # None /\ nodes'[retained'[r].node].path = Trash(r)
                 /\ \A c \in completed' : c[1] = r => c = <<r, "trash", retained'[r].node>>
      <4>1. op.kind = "trash"
        BY ZenonT(60), <1>1, <1>3, <1>11, <2>1, <3>2 DEF Kind
      <4>2. retained'[r].node = op.node /\ Row(op.node)
        BY ZenonT(60), <1>3, <1>4, <2>1, <4>1 DEF RowsOK, RowAt
      <4>3. \A c \in completed : c[1] # op.id
        BY ZenonT(60), <1>1, <4>1 DEF IntentOK
      <4> QED BY ZenonT(60), <1>1, <1>2, <1>3, <2>1, <4>1, <4>2, <4>3
    <3> QED BY <3>1, <3>2
  <2>2. CASE r # op.id
    <3>1. retained'[r] = retained[r] /\ retained[r] # None
      BY ZenonT(60), <1>3, <1>11, <2>2
    <3>2. uploads[r] = None /\ r \in issued
      BY <1>5, <3>1 DEF TablesOK, TrashOK
    <3>3. ASSUME retained[r].kind = "trash"
          PROVE  /\ nodes'[retained[r].node] # None /\ nodes'[retained[r].node].path = Trash(r)
                 /\ \A c \in completed' : c[1] = r => c = <<r, "trash", retained[r].node>>
      <4> DEFINE v == retained[r].node
      <4>1. /\ v \in Uuid /\ RowAt(v, Trash(r)) /\ Trash(r) \notin Public
            /\ \A c \in completed : c[1] = r => c = <<r, "trash", v>>
        BY <1>5, <3>1, <3>3, PlaceType DEF TablesOK, TrashOK, RetainedRow
      <4>2. v # op.node
        <5>1. Trash(op.id) # Trash(r)
          BY <2>2 DEF Trash
        <5>2. op.kind = "restore" => RowAt(op.node, Trash(op.id))
          BY ZenonT(60), <1>1, <1>4, <1>5 DEF RowsOK, TablesOK, TrashOK
        <5>3. op.kind = "create" => ~Row(op.node)
          BY DEF Commit, CommitOK
        <5>4. op.kind \in {"replace", "move", "trash"} => nodes[op.node].path \in Public
          BY ZenonT(60), <1>4 DEF RowsOK, OpShape, RowAt
        <5> HIDE DEF op, v
        <5> QED BY <1>1, <4>1, <5>1, <5>2, <5>3, <5>4 DEF Kind, RowAt
      <4>3. nodes'[v] = nodes[v]
        BY ZenonT(60), <1>2, <4>1, <4>2 DEF RowAt
      <4> HIDE DEF v
      <4>4. \A c \in completed' : c[1] = r => c = <<r, "trash", v>>
        <5>1. <<op.id, op.kind, op.node>>[1] = op.id
          OBVIOUS
        <5> QED BY ZenonT(60), <1>3, <2>2, <4>1, <5>1
      <4> QED BY <4>1, <4>3, <4>4 DEF v, RowAt, Row
    <3> QED BY ZenonT(60), <1>3, <3>1, <3>2, <3>3
  <2> QED BY ZenonT(60), <2>1, <2>2
<1>12. TrashOK'
  BY <1>11 DEF TrashOK, RowAt, Row
<1>13. PendingOK'
  BY ZenonT(60), <1>7 DEF PendingOK
<1> QED BY <1>8, <1>9, <1>10, <1>12, <1>13 DEF TablesOK

(* The processes that do not take part.                                    *)
LEMMA CommitOthers ==
    ASSUME IndInv, NEW p \in Proc, Commit(p), NEW q \in Proc, q # p
    PROVE  LocalOK(proc[q])'
<1> DEFINE op == proc[p].op
<1>1. /\ op.id \in Uuid /\ op.kind \in Kind /\ op.node \in Uuid /\ op.id \in Pending
      /\ operations[op.id] = op /\ IntentOK(op.id, op) /\ Anchor(op) \in proc[p].held
  BY ZenonT(60), CommitIntent
<1>2. /\ \A u \in Uuid : nodes'[u] # None <=> Row(u) \/ (op.kind = "create" /\ u = op.node)
      /\ \A u \in Uuid : u # op.node /\ (Row(u) => nodes[u].path \notin Public \cap op.locks)
           => nodes'[u] = nodes[u]
      /\ \A u \in Uuid, l \in Public : l \notin op.locks =>
           (nodes'[u] # None /\ nodes'[u].path = l <=> RowAt(u, l))
  BY ZenonT(60), CommitNodes
<1>3. /\ Pending' = Pending \ {op.id} /\ \A o \in Uuid \ {op.id} : operations'[o] = operations[o]
      /\ \A r \in Uuid \ {op.id} : retained'[r] = retained[r]
      /\ completed' = completed \cup {<<op.id, op.kind, op.node>>}
  BY ZenonT(60), CommitTables
<1>4. proc'[q] = proc[q] /\ LocalOK(proc[q]) /\ proc[q] \in ProcState
  BY ZenonT(60) DEF Commit, Resume, IndInv, TypeOK
<1>5. proc[q].op # None => proc[q].op \in Operation /\ proc[q].op.id \in Uuid
  BY ZenonT(60), <1>4 DEF ProcState, Operation
<1>6. NodeKey(op.node) \in op.locks
  BY ZenonT(60), <1>1 DEF IntentOK, ManifestOK
<1>7. Inside(proc[q]) => operations'[proc[q].op.id] = proc[q].op
  <2> SUFFICES ASSUME Inside(proc[q]) PROVE operations'[proc[q].op.id] = proc[q].op
    OBVIOUS
  <2>1. /\ proc[q].op # None /\ operations[proc[q].op.id] = proc[q].op
        /\ Anchor(proc[q].op) \in proc[q].held
    BY ZenonT(60), <1>4 DEF LocalOK, ShapeOK, InsideOK, Inside
  <2>2. proc[q].op.id # op.id
    BY <1>1, <2>1 DEF IndInv, HeldDisjoint, Held
  <2> QED BY <1>3, <1>5, <2>1, <2>2
<1>8. proc[q].pc = "picked" =>
        \/ operations'[proc[q].op.id] = proc[q].op
        \/ <<proc[q].op.id, proc[q].op.kind, proc[q].op.node>> \in completed'
  <2> SUFFICES ASSUME proc[q].pc = "picked"
               PROVE  \/ operations'[proc[q].op.id] = proc[q].op
                      \/ <<proc[q].op.id, proc[q].op.kind, proc[q].op.node>> \in completed'
    OBVIOUS
  <2>1. /\ proc[q].op # None
        /\ \/ operations[proc[q].op.id] = proc[q].op
           \/ <<proc[q].op.id, proc[q].op.kind, proc[q].op.node>> \in completed
    BY ZenonT(60), <1>4 DEF LocalOK, ShapeOK, PickedOK
  <2>2. CASE proc[q].op.id = op.id
    BY ZenonT(60), <1>1, <1>3, <2>1, <2>2
  <2>3. CASE proc[q].op.id # op.id
    BY ZenonT(60), <1>3, <1>5, <2>1, <2>3
  <2> QED BY <2>2, <2>3
<1>9. HeldOK(proc[q])'
  <2>1. \A o \in Pending' : o \in Pending /\ operations'[o] = operations[o]
    BY ZenonT(60), <1>3 DEF Pending
  <2> QED BY ZenonT(60), <1>2, <1>4, <2>1 DEF LocalOK, HeldOK, Inside, Row
<1>10. JournalOK(proc[q])'
  <2> SUFFICES ASSUME proc[q].pc = "journal" PROVE JournalOK(proc[q])'
    BY <1>4 DEF JournalOK
  <2> DEFINE d == proc[q].op
             P == {d.source, d.target} \cap Public
  <2>1. /\ d # None /\ d \in Operation /\ d.node \in Uuid /\ d.id \in Uuid
        /\ OpShape(d) /\ RowsOK(d) /\ Plan({d.source, d.target}) \subseteq proc[q].held
        /\ d.kind # "create" => NodeKey(d.node) \in proc[q].held
    BY ZenonT(60), <1>4 DEF LocalOK, ShapeOK, Draft, DraftOK, JournalOK, ProcState, Operation
  <2>2. proc[q].held \cap op.locks = {}
    BY ZenonT(60), <1>1, <1>4 DEF LocalOK, HeldOK, Inside
  <2>3. P \cap op.locks = {} /\ P \subseteq Public
    BY ZenonT(60), <2>1, <2>2 DEF Plan
  <2>4. d.kind # "create" => d.node # op.node
    BY <1>6, <2>1, <2>2
  <2>5. proc'[q].op = d
    BY <1>4
  <2> HIDE DEF op, d, P
  <2>6. \A u \in Uuid : nodes'[u] # None /\ nodes'[u].path \in P <=> Row(u) /\ nodes[u].path \in P
    BY <1>2, <2>3 DEF RowAt
  <2>7. Plan({proc[q].op.source, proc[q].op.target})' = Plan({d.source, d.target})
    BY ZenonT(60), <2>5, <2>6 DEF Plan, Row, P
  <2>8. ASSUME NEW l \in P, RowAt(d.node, l), d.kind # "create" PROVE nodes'[d.node] = nodes[d.node]
    BY <1>2, <2>1, <2>3, <2>4, <2>8 DEF RowAt
  <2>9. d.kind = "restore" => retained'[d.id] = retained[d.id]
    <3> SUFFICES ASSUME d.kind = "restore" PROVE d.id # op.id
      BY ZenonT(60), <1>3, <2>1
    <3>1. retained[d.id] # None /\ retained[d.id].node = d.node
      BY ZenonT(60), <2>1 DEF RowsOK
    <3>2. d.id = op.id => op.kind = "restore" /\ retained[op.id].node = op.node
      BY ZenonT(60), <1>1, <3>1 DEF IntentOK, RowsOK
    <3> QED BY ZenonT(60), <2>4, <3>1, <3>2
  <2>10. d.kind = "replace" => nodes'[d.node] = nodes[d.node]
    BY ZenonT(60), <2>1, <2>8 DEF RowsOK, OpShape, P
  <2>11. d.kind \in {"move", "trash"} => nodes'[d.node] = nodes[d.node]
    BY ZenonT(60), <2>1, <2>8 DEF RowsOK, OpShape, P
  <2>12. RowsOK(proc[q].op)'
    BY ZenonT(60), <2>1, <2>5, <2>9, <2>10, <2>11 DEF RowsOK, RowAt, Row
  <2> QED BY ZenonT(60), <1>4, <2>1, <2>5, <2>7, <2>12 DEF JournalOK
<1> QED BY ZenonT(60), <1>4, <1>7, <1>8, <1>9, <1>10, CommitDrafts, LocalKept

(* The process itself goes back to idle, or to the upload it was about to  *)
(* publish.                                                                *)
LEMMA CommitSelf ==
    ASSUME IndInv, NEW p \in Proc, Commit(p)
    PROVE  /\ proc' \in [Proc -> ProcState] /\ LocalOK(proc[p])'
           /\ proc'[p].held \subseteq proc[p].held
           /\ Draft(proc[p])' \in {Draft(proc[p]), None}
           /\ \A q \in Proc \ {p} : proc'[q] = proc[q]
<1> DEFINE s == proc[p]
           r == [pc |-> "prepared", op |-> None, request |-> s.request,
                 held |-> {SessionKey(s.request.session)}]
<1>1. s \in ProcState /\ LocalOK(s) /\ Draft(s) = s.request /\ Resume(p)
  BY ZenonT(60), CommitIntent DEF Commit, Draft
<1>2. CASE s.request = None
  <2>1. proc' = [proc EXCEPT ![p] = Idle]
    BY ZenonT(60), <1>1, <1>2 DEF Resume
  <2>2. /\ proc' \in [Proc -> ProcState] /\ proc'[p] = Idle
        /\ \A q \in Proc \ {p} : proc'[q] = proc[q]
    BY <2>1, IdleType DEF IndInv, TypeOK
  <2>3. LocalOK(proc[p])'
    BY ZenonT(60), <2>2, IdleType DEF LocalOK, ShapeOK, Draft, JournalOK, HeldOK, Inside, InsideOK, PickedOK
  <2> QED BY ZenonT(60), <2>2, <2>3, IdleType DEF Draft
<1>3. CASE s.request # None
  <2>1. /\ s.request \in Operation /\ s.request.kind = "create" /\ s.request.session \in Uuid
        /\ DraftOK(s.request, s.held) /\ s.request.session # None
    BY ZenonT(60), <1>1, <1>3 DEF ProcState, LocalOK, ShapeOK, Operation
  <2>2. r \in ProcState
    BY ZenonT(60), <1>1, <2>1, KeyType DEF ProcState, Pc
  <2>3. proc' = [proc EXCEPT ![p] = r]
    BY ZenonT(60), <1>1, <1>3 DEF Resume
  <2>4. r.pc = "prepared" /\ r.op = None /\ r.request = s.request
        /\ r.held = {SessionKey(s.request.session)}
    OBVIOUS
  <2> HIDE DEF r
  <2>5. /\ proc' \in [Proc -> ProcState] /\ proc'[p] = r
        /\ \A q \in Proc \ {p} : proc'[q] = proc[q]
    BY ZenonT(60), <2>2, <2>3 DEF IndInv, TypeOK
  <2>6. Draft(proc[p])' = s.request /\ r.held \subseteq s.held
    BY ZenonT(60), <2>1, <2>4, <2>5 DEF Draft, DraftOK
  <2>7. DraftKept(s.request)
    BY <1>1, <1>3, CommitDrafts
  <2>8. (Draft(proc[p]) # None => DraftOK(Draft(proc[p]), proc[p].held))'
    <3>1. OpShape(Draft(proc[p]))'
      BY ZenonT(60), <2>1, <2>4, <2>5 DEF DraftOK, OpShape, Draft
    <3> QED BY ZenonT(60), <2>1, <2>4, <2>5, <2>6, <2>7, <3>1 DEF DraftOK, DraftKept, Row
  <2>9. ShapeOK(proc[p])' /\ (proc[p].op # None => RowRecorded(proc[p].op))'
    BY ZenonT(60), <1>3, <2>1, <2>4, <2>5 DEF ShapeOK
  <2>10. HeldOK(proc[p])'
    <3>1. \A v \in Uuid : NodeKey(v) # SessionKey(s.request.session)
      BY ZenonT(60) DEF NodeKey, SessionKey
    <3>2. \A o \in Pending : SessionKey(s.request.session) \notin operations[o].locks
      BY DEF IndInv, TablesOK, PendingOK, IntentOK, ManifestOK, SessionKey
    <3>3. \A o \in Pending' : o \in Pending /\ operations'[o] = operations[o]
      BY ZenonT(60), CommitTables DEF Pending
    <3> QED BY <2>4, <2>5, <3>1, <3>2, <3>3 DEF HeldOK
  <2>11. JournalOK(proc[p])' /\ InsideOK(proc[p])' /\ PickedOK(proc[p])'
    BY ZenonT(60), <2>4, <2>5 DEF JournalOK, InsideOK, Inside, PickedOK
  <2>12. LocalOK(proc[p])'
    BY <2>8, <2>9, <2>10, <2>11 DEF LocalOK
  <2> QED BY ZenonT(60), <1>1, <2>5, <2>6, <2>12
<1> QED BY <1>2, <1>3

LEMMA CommitStep == ASSUME IndInv, NEW p \in Proc, Commit(p) PROVE IndInv'
<1>1. /\ proc' \in [Proc -> ProcState] /\ LocalOK(proc[p])' /\ proc'[p].held \subseteq proc[p].held
      /\ Draft(proc[p])' \in {Draft(proc[p]), None}
      /\ \A q \in Proc \ {p} : proc'[q] = proc[q]
  BY CommitSelf
<1>2. TypeOK'
  <2>1. nodes' \in [Uuid -> NodeRow \cup {None}]
    BY ZenonT(60), CommitNodes
  <2>2. completed' \in SUBSET (Uuid \X Kind \X Uuid)
    <3>1. <<proc[p].op.id, proc[p].op.kind, proc[p].op.node>> \in Uuid \X Kind \X Uuid
      BY ZenonT(60), CommitIntent
    <3>2. completed' = completed \cup {<<proc[p].op.id, proc[p].op.kind, proc[p].op.node>>}
      BY ZenonT(60), CommitTables
    <3> QED BY ZenonT(60), <3>1, <3>2 DEF IndInv, TypeOK
  <2> QED BY ZenonT(60), <1>1, <2>1, <2>2, CommitTables DEF IndInv, TypeOK
<1>3. TablesOK'
  BY CommitTablesOK
<1>4. \A q \in Proc : LocalOK(proc[q])'
  BY ZenonT(60), <1>1, CommitOthers
<1>5. HeldDisjoint'
  BY ZenonT(60), <1>1 DEF IndInv, HeldDisjoint, Held
<1>6. DraftsDistinct'
  <2>1. \A q \in Proc \ {p} : Draft(proc[q])' = Draft(proc[q])
    BY <1>1 DEF Draft
  <2>2. \A q \in Proc : Draft(proc[q])' \in {Draft(proc[q]), None}
    BY ZenonT(60), <1>1, <2>1
  <2>3. \A q \in Proc : Draft(proc[q])' # None => Draft(proc[q])' = Draft(proc[q])
    BY ZenonT(60), <2>2
  <2> QED BY ZenonT(60), <2>3 DEF IndInv, DraftsDistinct
<1> QED BY ZenonT(60), <1>2, <1>3, <1>4, <1>5, <1>6 DEF IndInv
=============================================================================
