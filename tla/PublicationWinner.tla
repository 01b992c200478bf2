------------------------- MODULE PublicationWinner -------------------------
(***************************************************************************)
(* Every step keeps WinnerOK: of the uploads that expect the same revision *)
(* of a file one at most gets a receipt.                                   *)
(***************************************************************************)
EXTENDS PublicationCommit

USE SMTT(20), ZenonT(60)

----------------------------------------------------------------------------
(* Competing uploads.                                                      *)

(* An intent and what IndInv says of it and of its session.                *)
LEMMA IntentSession ==
    ASSUME IndInv, NEW o \in Pending
    PROVE  /\ o \in Uuid /\ operations[o] \in Operation /\ operations[o].id = o
           /\ operations[o].kind \in Kind /\ operations[o].node \in Uuid
           /\ operations[o].session \in Uuid \cup {None} /\ OpShape(operations[o])
           /\ operations[o].session # None => uploads[operations[o].session] # None
           /\ operations[o].kind = "create" => operations[o].node \in issued
           /\ NodeKey(operations[o].node) \in operations[o].locks
<1>1. o \in Uuid /\ operations[o] \in Operation
  BY DEF Pending, IndInv, TypeOK
<1>2. IntentOK(o, operations[o]) /\ SessionsOK
  BY ZenonT(60) DEF IndInv, TablesOK, PendingOK
<1>3. /\ operations[o].id = o /\ o \in issued /\ OpShape(operations[o])
      /\ operations[o].session # None => uploads[operations[o].session] # None
      /\ NodeKey(operations[o].node) \in operations[o].locks
      /\ operations[o].session \in Uuid \cup {None}
  BY ZenonT(60), <1>1, <1>2 DEF IntentOK, ManifestOK, Operation
<1>4. operations[o].kind = "create" => operations[o].node \in issued
  BY <1>2, <1>3 DEF OpShape, SessionsOK
<1> QED BY <1>1, <1>3, <1>4 DEF Operation

(* A draft, its session, and the id it is going to give to a new node.     *)
LEMMA DraftSession ==
    ASSUME IndInv, NEW q \in Proc, Draft(proc[q]) # None
    PROVE  LET d == Draft(proc[q]) IN
           /\ d \in Operation /\ d.id \in Uuid /\ d.node \in Uuid /\ d.session \in Uuid \cup {None}
           /\ d.session # None => uploads[d.session] # None
           /\ d.kind = "create" => ~Row(d.node)
<1> DEFINE d == Draft(proc[q])
<1>1. proc[q] \in ProcState /\ LocalOK(proc[q])
  BY ZenonT(60) DEF IndInv, TypeOK
<1>2. d \in Operation
  BY <1>1 DEF Draft, ProcState
<1>3. DraftOK(d, proc[q].held)
  BY ZenonT(60), <1>1 DEF LocalOK
<1>4. SessionsOK
  BY ZenonT(60) DEF IndInv, TablesOK
<1> HIDE DEF d
<1>5. /\ d.id \in Uuid /\ d.node \in Uuid /\ d.session \in Uuid \cup {None}
      /\ d.session # None => uploads[d.session] # None /\ uploads[d.session].result = None
      /\ d.kind = "create" => d.node = (IF d.session = None THEN d.id ELSE d.session) /\ ~Row(d.id)
  BY <1>2, <1>3 DEF DraftOK, OpShape, Operation
<1>6. d.kind = "create" => ~Row(d.node)
  BY <1>4, <1>5 DEF SessionsOK
<1> QED BY <1>2, <1>5, <1>6 DEF d

LEMMA JournalDraft ==
    ASSUME IndInv, NEW q \in Proc, proc[q].pc = "journal"
    PROVE  Draft(proc[q]) = proc[q].op /\ proc[q].op # None
<1>1. LocalOK(proc[q])
  BY DEF IndInv
<1> QED BY <1>1 DEF LocalOK, ShapeOK, Draft

(* Steps of one process that leave the tables alone: a new draft creates   *)
(* no node that some session expects.                                      *)
LEMMA ProcWinner ==
    ASSUME IndInv, WinnerOK, UNCHANGED tables, issued \subseteq issued', NEW p \in Proc,
           \A q \in Proc \ {p} : proc'[q] = proc[q],
           proc'[p].pc = "journal" => AsExpected(proc'[p].op),
           LET d == Draft(proc'[p]) IN
             \/ d = None \/ d = Draft(proc[p]) \/ d.kind # "create" \/ d.node \notin issued
             \/ uploads[d.node] # None /\ uploads[d.node].result = None
    PROVE  WinnerOK'
<1>1. Pending' = Pending /\ UNCHANGED <<nodes, operations, uploads>>
  BY DEF Pending, tables
<1>2. \A op : AsExpected(op)' <=> AsExpected(op)
  BY ZenonT(60), <1>1 DEF AsExpected
<1>3. \A o \in Pending' : /\ AsExpected(operations[o])'
                          /\ (operations[o].kind = "create" => ~Row(operations[o].node))'
  <2> SUFFICES ASSUME NEW o \in Pending
               PROVE  \A w : w = operations[o] => AsExpected(w)' /\ (w.kind = "create" => ~Row(w.node)')
    BY <1>1
  <2>1. AsExpected(operations[o]) /\ (operations[o].kind = "create" => nodes[operations[o].node] = None)
    BY ZenonT(60) DEF WinnerOK, Row
  <2> QED BY <1>1, <1>2, <2>1 DEF Row
<1>4. \A q \in Proc : (proc[q].pc = "journal" => AsExpected(proc[q].op))'
  <2> SUFFICES ASSUME NEW q \in Proc, proc'[q].pc = "journal" PROVE AsExpected(proc[q].op)'
    OBVIOUS
  <2>1. AsExpected(proc'[q].op)
    BY DEF WinnerOK
  <2> QED BY <1>1, <2>1 DEF AsExpected
<1>5. \A x \in Uuid : NeverAgain(x) => NeverAgain(x)'
  <2> SUFFICES ASSUME NEW x \in Uuid, NeverAgain(x) PROVE NeverAgain(x)'
    OBVIOUS
  <2>1. ASSUME NEW q \in Proc
        PROVE  (Draft(proc[q]) # None /\ Draft(proc[q]).kind = "create" => Draft(proc[q]).node # x)'
    <3>1. Draft(proc[q])' = Draft(proc'[q])
      BY DEF Draft
    <3>2. CASE q # p
      <4>1. Draft(proc[q])' = Draft(proc[q])
        BY <3>2 DEF Draft
      <4> QED BY <4>1 DEF NeverAgain
    <3>3. CASE q = p
      BY <3>1, <3>3 DEF NeverAgain
    <3> QED BY <3>2, <3>3
  <2> QED BY <1>1, <2>1 DEF NeverAgain
<1>6. \A up : Newer(up)' <=> Newer(up)
  BY <1>1 DEF Newer, Row
<1>7. \A s \in Uuid : (uploads[s] # None /\ uploads[s].expectedID # None =>
                         NeverAgain(uploads[s].expectedID) /\ Newer(uploads[s]))'
  <2> SUFFICES ASSUME NEW s \in Uuid, uploads[s] # None, uploads[s].expectedID # None
               PROVE  \A up : up = uploads[s] => NeverAgain(up.expectedID)' /\ Newer(up)'
    BY <1>1
  <2>1. uploads[s].expectedID \in Uuid
    BY DEF IndInv, TypeOK, Upload
  <2> QED BY <1>5, <1>6, <2>1 DEF WinnerOK
<1>8. OneWinner'
  BY <1>1 DEF WinnerOK, OneWinner
<1> QED BY <1>3, <1>4, <1>7, <1>8 DEF WinnerOK

LEMMA NeverAgainKept ==
    ASSUME NEW x, NeverAgain(x), issued \subseteq issued',
           uploads'[x] = None \/ uploads'[x].result # None,
           \A o \in Pending' : \/ o \in Pending /\ operations'[o] = operations[o]
                               \/ operations'[o].kind # "create" \/ operations'[o].node # x,
           \A q \in Proc : Draft(proc'[q]) = None \/ Draft(proc'[q]) = Draft(proc[q])
    PROVE  NeverAgain(x)'
<1>1. \A o \in Pending' : operations'[o].kind = "create" => operations'[o].node # x
  BY DEF NeverAgain
<1>2. ASSUME NEW q \in Proc
      PROVE  (Draft(proc[q]) # None /\ Draft(proc[q]).kind = "create" => Draft(proc[q]).node # x)'
  <2>1. Draft(proc[q])' = Draft(proc'[q])
    BY DEF Draft
  <2> QED BY <2>1 DEF NeverAgain
<1> QED BY <1>1, <1>2 DEF NeverAgain

(* Steps that leave processes and journal alone: rows only become newer,   *)
(* and new ones have ids never used before.                                *)
LEMMA WinnerFrame ==
    ASSUME IndInv, WinnerOK, UNCHANGED <<proc, operations>>, issued \subseteq issued',
           \A s \in Uuid : uploads'[s] = uploads[s] \/ uploads'[s] = None,
           \A o \in Pending : operations[o].session # None =>
               uploads'[operations[o].session] = uploads[operations[o].session],
           \A q \in Proc : proc[q].pc = "journal" /\ proc[q].op.session # None =>
               uploads'[proc[q].op.session] = uploads[proc[q].op.session],
           \A u \in Uuid : nodes'[u] # None =>
               (Row(u) /\ nodes'[u].etag >= nodes[u].etag) \/ u \notin issued,
           nodes' \in [Uuid -> NodeRow \cup {None}]
    PROVE  WinnerOK'
<1>1. Pending' = Pending
  BY DEF Pending
<1>2. \A o \in Pending' : /\ AsExpected(operations[o])'
                          /\ (operations[o].kind = "create" => ~Row(operations[o].node))'
  <2> SUFFICES ASSUME NEW o \in Pending
               PROVE  \A w : w = operations[o] => AsExpected(w)' /\ (w.kind = "create" => ~Row(w.node)')
    BY <1>1
  <2>1. AsExpected(operations[o]) /\ (operations[o].kind = "create" => ~Row(operations[o].node))
    BY ZenonT(60) DEF WinnerOK
  <2>2. operations[o].node \in Uuid /\ (operations[o].kind = "create" => operations[o].node \in issued)
    BY IntentSession
  <2>3. AsExpected(operations[o])'
    BY <2>1 DEF AsExpected
  <2> QED BY <2>1, <2>2, <2>3 DEF Row, AsExpected
<1>3. \A q \in Proc : (proc[q].pc = "journal" => AsExpected(proc[q].op))'
  <2> SUFFICES ASSUME NEW q \in Proc, proc[q].pc = "journal" PROVE AsExpected(proc[q].op)'
    OBVIOUS
  <2>1. AsExpected(proc[q].op)
    BY ZenonT(60) DEF WinnerOK
  <2> QED BY <2>1 DEF AsExpected
<1>4. ASSUME NEW s \in Uuid, uploads'[s] # None, uploads'[s].expectedID # None
      PROVE  NeverAgain(uploads[s].expectedID)' /\ Newer(uploads[s])'
  <2> DEFINE up == uploads[s]
  <2>1. /\ uploads'[s] = up /\ up \in Upload /\ NeverAgain(up.expectedID) /\ Newer(up)
        /\ up.expectedID \in Uuid /\ up.expectedETag \in Nat
    BY ZenonT(60), <1>4 DEF WinnerOK, IndInv, TypeOK, Upload
  <2>2. up.expectedID \in issued
    BY ZenonT(60), <2>1 DEF NeverAgain
  <2> HIDE DEF up
  <2>3. uploads'[up.expectedID] = None \/ uploads'[up.expectedID].result # None
    BY <2>1 DEF NeverAgain
  <2>4. NeverAgain(up.expectedID)'
    <3>1. \A x : x = up.expectedID => NeverAgain(x)'
      BY <1>1, <2>1, <2>3, NeverAgainKept
    <3> QED BY <2>1, <3>1 DEF up
  <2>5. nodes \in [Uuid -> NodeRow \cup {None}]
    BY ZenonT(60) DEF IndInv, TypeOK
  <2>6. \A w : w = up => Newer(w)'
    <3> SUFFICES ASSUME nodes'[up.expectedID] # None
                 PROVE  /\ nodes'[up.expectedID].etag >= up.expectedETag
                        /\ up.result # None => nodes'[up.expectedID].etag > up.expectedETag
      BY DEF Newer, Row
    <3>1. /\ Row(up.expectedID) /\ nodes'[up.expectedID].etag >= nodes[up.expectedID].etag
          /\ nodes'[up.expectedID].etag \in Nat /\ nodes[up.expectedID].etag \in Nat
      BY <2>1, <2>2, <2>5 DEF Row, NodeRow
    <3>2. /\ nodes[up.expectedID].etag >= up.expectedETag
          /\ up.result # None => nodes[up.expectedID].etag > up.expectedETag
      BY <2>1, <3>1 DEF Newer
    <3> QED BY <2>1, <3>1, <3>2
  <2> QED BY <2>1, <2>4, <2>6 DEF up
<1>5. OneWinner'
  <2>1. \A s \in Uuid : uploads'[s] # None => uploads'[s] = uploads[s]
    OBVIOUS
  <2> SUFFICES ASSUME NEW s \in Uuid, NEW t \in Uuid, uploads'[s] # None, uploads'[t] # None, s # t,
                      uploads'[s].expectedID # None, uploads'[s].expectedID = uploads'[t].expectedID,
                      uploads'[s].expectedETag = uploads'[t].expectedETag
               PROVE  uploads'[s].result = None \/ uploads'[t].result = None
    BY ZenonT(60) DEF OneWinner
  <2>2. uploads'[s] = uploads[s] /\ uploads'[t] = uploads[t]
    BY <2>1
  <2>3. OneWinner
    BY ZenonT(60) DEF WinnerOK
  <2> QED BY <2>2, <2>3 DEF OneWinner
<1> QED BY <1>2, <1>3, <1>4, <1>5 DEF WinnerOK

LEMMA DropWinner == ASSUME IndInv, WinnerOK, NEW s \in Uuid, DropUpload(s) PROVE WinnerOK'
<1>1. /\ UNCHANGED <<nodes, operations, proc, issued>> /\ \A o \in Pending : operations[o].session # s
      /\ Free({SessionKey(s)}) /\ uploads' = [uploads EXCEPT ![s] = None]
  BY DEF DropUpload
<1>2. uploads \in [Uuid -> Upload \cup {None}] /\ nodes \in [Uuid -> NodeRow \cup {None}]
  BY DEF IndInv, TypeOK
<1>3. ASSUME NEW q \in Proc, proc[q].pc = "journal", proc[q].op.session # None
      PROVE  uploads'[proc[q].op.session] = uploads[proc[q].op.session]
  <2>1. proc[q].op \in Operation /\ DraftOK(proc[q].op, proc[q].held)
    <3>1. Draft(proc[q]) = proc[q].op /\ proc[q].op # None
      BY <1>3, JournalDraft
    <3>2. LocalOK(proc[q]) /\ proc[q] \in ProcState
      BY ZenonT(60) DEF IndInv, TypeOK
    <3> QED BY <3>1, <3>2 DEF LocalOK, ProcState
  <2>2. proc[q].op.session \in Uuid /\ SessionKey(proc[q].op.session) \in proc[q].held
    BY <1>3, <2>1 DEF DraftOK, Operation
  <2>3. proc[q].op.session # s
    BY <1>1, <2>2 DEF Free, Held
  <2> QED BY <1>1, <1>2, <2>2, <2>3
<1>4. ASSUME NEW o \in Pending, operations[o].session # None
      PROVE  uploads'[operations[o].session] = uploads[operations[o].session]
  <2>1. operations[o].session \in Uuid \ {s}
    BY <1>1, <1>4, IntentSession
  <2> QED BY <1>1, <1>2, <2>1
<1>5. \A u \in Uuid : nodes'[u] # None => Row(u) /\ nodes'[u].etag >= nodes[u].etag
  BY <1>1, <1>2 DEF Row, NodeRow
<1>6. \A t \in Uuid : uploads'[t] = uploads[t] \/ uploads'[t] = None
  BY <1>1, <1>2
<1> QED BY <1>1, <1>2, <1>3, <1>4, <1>5, <1>6, WinnerFrame

LEMMA RowsWinner ==
    ASSUME IndInv, WinnerOK, UNCHANGED <<proc, operations, uploads>>, issued \subseteq issued',
           \A u \in Uuid : nodes'[u] # None =>
               (Row(u) /\ nodes'[u].etag >= nodes[u].etag) \/ u \notin issued,
           nodes' \in [Uuid -> NodeRow \cup {None}]
    PROVE  WinnerOK'
BY ZenonT(60), WinnerFrame

LEMMA EditWinner ==
    ASSUME IndInv, WinnerOK,
           (\E u \in Uuid : EditMetadata(u)) \/ (\E n \in Name, c \in Bytes \cup {None} : ExternalEdit(n, c))
           \/ UNCHANGED vars
    PROVE  WinnerOK'
<1>1. nodes \in [Uuid -> NodeRow \cup {None}] /\ \A u \in Uuid : Row(u) => nodes[u].etag \in Nat
  BY DEF IndInv, TypeOK, Row, NodeRow
<1>2. UNCHANGED <<proc, operations, uploads>> /\ issued \subseteq issued'
  BY ZenonT(60) DEF EditMetadata, ExternalEdit, vars, tables
<1>3. CASE nodes' = nodes
  <2>1. \A u \in Uuid : nodes'[u] # None => Row(u) /\ nodes'[u].etag >= nodes[u].etag
    BY <1>1, <1>3 DEF Row
  <2> QED BY ZenonT(60), <1>1, <1>2, <1>3, <2>1, RowsWinner
<1>4. CASE \E u \in Uuid : EditMetadata(u)
  <2> PICK u \in Uuid : EditMetadata(u)
    BY <1>4
  <2> DEFINE row == [nodes[u] EXCEPT !.etag = nodes[u].etag + 1]
  <2>1. nodes' = [nodes EXCEPT ![u] = row] /\ nodes[u] \in NodeRow /\ Row(u)
    BY <1>1 DEF EditMetadata, PublicRow, Row
  <2>2. row \in NodeRow /\ row.etag >= nodes[u].etag
    BY <2>1 DEF NodeRow
  <2> HIDE DEF row
  <2>3. /\ nodes' \in [Uuid -> NodeRow \cup {None}]
        /\ \A v \in Uuid : nodes'[v] # None => Row(v) /\ nodes'[v].etag >= nodes[v].etag
    BY <1>1, <2>1, <2>2 DEF Row
  <2> QED BY ZenonT(60), <1>2, <2>3, RowsWinner
<1> QED BY <1>3, <1>4 DEF ExternalEdit, vars, tables

(* A scan never lowers the ETag of a row it keeps.                         *)
LEMMA RescannedNewer ==
    ASSUME IndInv, NEW new \in FreshIds, NEW expired, NEW u \in Uuid,
           Rescanned(u, new, expired) # None
    PROVE  (Row(u) /\ Rescanned(u, new, expired).etag >= nodes[u].etag) \/ u \notin issued
<1>1. CASE \E n \in Imported : new[n] = u
  BY <1>1 DEF FreshIds, Fresh
<1>2. CASE ~\E n \in Imported : new[n] = u
  <2>1. Row(u) => nodes[u] \in NodeRow /\ nodes[u].etag \in Nat
    BY DEF IndInv, TypeOK, Row, NodeRow
  <2>2. CASE Rescanned(u, new, expired) = nodes[u]
    BY <2>1, <2>2 DEF Row
  <2>3. CASE Row(u) /\ Rescanned(u, new, expired) = [nodes[u] EXCEPT !.missing = TRUE]
    <3>1. [nodes[u] EXCEPT !.missing = TRUE].etag = nodes[u].etag
      BY <2>1, <2>3 DEF NodeRow
    <3> QED BY <2>1, <2>3, <3>1
  <2>4. CASE Row(u) /\ Rescanned(u, new, expired)
                = [nodes[u] EXCEPT !.data = fs[nodes[u].path], !.etag = @ + 1]
    <3>1. [nodes[u] EXCEPT !.data = fs[nodes[u].path], !.etag = @ + 1].etag = nodes[u].etag + 1
      BY <2>1, <2>4 DEF NodeRow
    <3> QED BY <2>1, <2>4, <3>1
  <2> QED BY <1>2, <2>2, <2>3, <2>4 DEF Rescanned
<1> QED BY <1>1, <1>2

LEMMA ScanWinner ==
    ASSUME IndInv, WinnerOK, NEW new \in FreshIds, NEW expired, Scan(new, expired)
    PROVE  WinnerOK'
<1>1. /\ UNCHANGED <<proc, operations, uploads>> /\ issued \subseteq issued'
      /\ nodes' = [u \in Uuid |-> Rescanned(u, new, expired)]
  BY DEF Scan
<1>2. \A u \in Uuid : Rescanned(u, new, expired) \in NodeRow \cup {None}
  BY RescannedRows
<1>3. \A u \in Uuid : nodes'[u] = Rescanned(u, new, expired)
  BY <1>1
<1>4. nodes' \in [Uuid -> NodeRow \cup {None}]
  BY <1>1, <1>2
<1>5. \A u \in Uuid : nodes'[u] # None =>
        (Row(u) /\ nodes'[u].etag >= nodes[u].etag) \/ u \notin issued
  BY <1>3, RescannedNewer
<1> QED BY ZenonT(60), <1>1, <1>4, <1>5, RowsWinner

(* A session starts: it expects a row that is there, so its id is no       *)
(* longer free for a new node.                                             *)
LEMMA StartWinner ==
    ASSUME IndInv, WinnerOK, NEW s \in Uuid, NEW n \in Name, NEW b \in Bytes, StartUpload(s, n, b)
    PROVE  WinnerOK'
<1>1. /\ s \in Fresh /\ issued' = issued \cup {s} /\ UNCHANGED <<nodes, operations, proc>>
  BY ZenonT(60) DEF StartUpload
<1>2. PICK x \in Uuid \cup {None} :
        /\ x # None => Row(x)
        /\ uploads' = [uploads EXCEPT ![s] =
             [name |-> n, expectedID |-> x, expectedETag |-> IF x = None THEN 0 ELSE nodes[x].etag,
              staged |-> b, result |-> None]]
  BY ZenonT(60) DEF StartUpload, RowAt
<1>3. /\ uploads \in [Uuid -> Upload \cup {None}] /\ nodes \in [Uuid -> NodeRow \cup {None}]
      /\ \A u \in Uuid : Row(u) => u \in issued /\ nodes[u].etag \in Nat
      /\ SessionsOK
  BY ZenonT(60) DEF IndInv, TypeOK, TablesOK, UsedIsIssued, Row, NodeRow
<1>4. uploads[s] = None /\ s \notin issued /\ Pending' = Pending
  BY ZenonT(60), <1>1, FreshUnused DEF Fresh, Pending
<1>5. /\ \A t \in Uuid \ {s} : uploads'[t] = uploads[t]
      /\ uploads'[s].expectedID = x /\ uploads'[s].result = None
      /\ x # None => uploads'[s].expectedETag = nodes[x].etag
  BY ZenonT(60), <1>2, <1>3
<1>6. \A op : AsExpected(op) /\ op.session \in Uuid \cup {None}
              /\ (op.session # None => uploads[op.session] # None) => AsExpected(op)'
  BY <1>4, <1>5 DEF AsExpected
<1>7. \A o \in Pending' : /\ AsExpected(operations[o])'
                          /\ (operations[o].kind = "create" => ~Row(operations[o].node))'
  <2> SUFFICES ASSUME NEW o \in Pending
               PROVE  \A w : w = operations[o] => AsExpected(w)' /\ (w.kind = "create" => ~Row(w.node)')
    BY <1>1, <1>4
  <2>1. AsExpected(operations[o]) /\ (operations[o].kind = "create" => nodes[operations[o].node] = None)
    BY ZenonT(60) DEF WinnerOK, Row
  <2>2. operations[o].session \in Uuid \cup {None}
        /\ (operations[o].session # None => uploads[operations[o].session] # None)
    BY IntentSession
  <2> QED BY <1>1, <1>6, <2>1, <2>2 DEF Row
<1>8. \A q \in Proc : (proc[q].pc = "journal" => AsExpected(proc[q].op))'
  <2> SUFFICES ASSUME NEW q \in Proc, proc[q].pc = "journal"
               PROVE  \A w : w = proc[q].op => AsExpected(w)'
    BY <1>1
  <2>1. AsExpected(proc[q].op)
    BY ZenonT(60) DEF WinnerOK
  <2>2. Draft(proc[q]) = proc[q].op /\ proc[q].op # None
    BY JournalDraft
  <2>3. proc[q].op.session \in Uuid \cup {None}
        /\ (proc[q].op.session # None => uploads[proc[q].op.session] # None)
    BY ZenonT(60), <2>2, DraftSession
  <2> QED BY <1>6, <2>1, <2>3
<1>9. ASSUME NEW y \in issued, NeverAgain(y) PROVE NeverAgain(y)'
  <2>1. y \in Uuid \ {s}
    BY <1>4 DEF IndInv, TypeOK
  <2>2. uploads'[y] = None \/ uploads'[y].result # None
    BY <1>5, <1>9, <2>1 DEF NeverAgain
  <2>3. \A q \in Proc : Draft(proc'[q]) = Draft(proc[q])
    BY <1>1
  <2> QED BY <1>1, <1>4, <1>9, <2>2, <2>3, NeverAgainKept
<1>10. ASSUME x # None PROVE NeverAgain(x)
  <2>1. x \in Uuid /\ Row(x) /\ x \in issued
    BY <1>2, <1>3, <1>10
  <2>2. uploads[x] = None \/ uploads[x].result # None
    BY <1>3, <2>1 DEF SessionsOK
  <2>3. \A o \in Pending : operations[o].kind = "create" => operations[o].node # x
    BY ZenonT(60), <2>1 DEF WinnerOK
  <2>4. \A q \in Proc : Draft(proc[q]) # None /\ Draft(proc[q]).kind = "create" => Draft(proc[q]).node # x
    BY ZenonT(60), <2>1, DraftSession
  <2> QED BY <2>1, <2>2, <2>3, <2>4 DEF NeverAgain
<1>11. ASSUME NEW t \in Uuid, uploads'[t] # None, uploads'[t].expectedID # None
       PROVE  \A up : up = uploads'[t] => NeverAgain(up.expectedID)' /\ Newer(up)'
  <2>1. CASE t = s
    <3>1. NeverAgain(x)' /\ nodes[x].etag \in Nat
      BY ZenonT(60), <1>2, <1>3, <1>5, <1>9, <1>10, <1>11, <2>1 DEF NeverAgain
    <3> QED BY <1>1, <1>5, <1>11, <2>1, <3>1 DEF Newer
  <2>2. CASE t # s
    <3>1. uploads'[t] = uploads[t] /\ NeverAgain(uploads[t].expectedID) /\ Newer(uploads[t])
      BY <1>5, <1>11, <2>2 DEF WinnerOK
    <3>2. uploads[t].expectedID \in issued
      BY <3>1 DEF NeverAgain
    <3> QED BY <1>1, <1>9, <3>1, <3>2 DEF Newer, Row
  <2> QED BY <2>1, <2>2
<1>12. OneWinner'
  BY ZenonT(180), <1>5 DEF WinnerOK, OneWinner
<1> QED BY <1>7, <1>8, <1>11, <1>12 DEF WinnerOK

(* A draft becomes an intent.                                              *)
LEMMA ApplyWinner == ASSUME IndInv, WinnerOK, NEW p \in Proc, Apply(p) PROVE WinnerOK'
<1> DEFINE d == proc[p].op
           op == Recorded(d)
<1>1. /\ proc[p].pc = "journal" /\ operations' = [operations EXCEPT ![op.id] = op]
      /\ proc' = [proc EXCEPT ![p].pc = FirstStep(op), ![p].op = op]
      /\ UNCHANGED <<nodes, uploads, issued>>
  BY DEF Apply
<1>2. proc[p] \in ProcState /\ LocalOK(proc[p]) /\ proc \in [Proc -> ProcState]
  BY ZenonT(60) DEF IndInv, TypeOK
<1>3. Draft(proc[p]) = d /\ d # None /\ proc[p].request = None
  BY <1>1, <1>2, JournalDraft DEF LocalOK, ShapeOK
<1>4. d \in Operation /\ d.id \in Uuid /\ d.node \in Uuid /\ (d.kind = "create" => ~Row(d.node))
  BY ZenonT(60), <1>3, DraftSession
<1>5. /\ op.id = d.id /\ op.kind = d.kind /\ op.node = d.node /\ op.session = d.session /\ op.row = d.row
      /\ op # None
  <2>1. OperationLocks(d) \in SUBSET Key /\ d.source \in Place /\ d.target \in Place
    BY <1>4, PlanType, KeyType DEF OperationLocks, IndInv, Operation
  <2>2. op.id = d.id /\ op.kind = d.kind /\ op.node = d.node /\ op.session = d.session /\ op.row = d.row
    BY <1>4 DEF Recorded, Operation
  <2>3. op \in Operation
    BY ZenonT(60), <1>4, <2>1 DEF Recorded, Operation, IndInv, TypeOK
  <2>4. op # None
    BY <2>3, NoneAssumption
  <2> QED BY <2>2, <2>4
<1> HIDE DEF op
<1>6. /\ operations \in [Uuid -> Operation \cup {None}] /\ operations'[d.id] = op
      /\ \A o \in Uuid \ {d.id} : operations'[o] = operations[o]
      /\ Pending' = Pending \cup {d.id}
  BY <1>1, <1>4, <1>5 DEF IndInv, TypeOK, Pending
<1>7. /\ \A q \in Proc \ {p} : proc'[q] = proc[q]
      /\ proc'[p].pc \in {"backup", "publish"} /\ proc'[p].request = None
  BY <1>1, <1>2, <1>3 DEF FirstStep, ProcState
<1>8. /\ \A w : AsExpected(w)' <=> AsExpected(w)
      /\ \A w : Newer(w)' <=> Newer(w)
  BY <1>1 DEF AsExpected, Newer, Row
<1>9. AsExpected(op)
  <2>1. AsExpected(d)
    BY <1>1 DEF WinnerOK
  <2> QED BY <1>5, <2>1 DEF AsExpected
<1>10. \A o \in Pending' : /\ AsExpected(operations[o])'
                           /\ (operations[o].kind = "create" => ~Row(operations[o].node))'
  <2> SUFFICES ASSUME NEW o \in Pending'
               PROVE  \A w : w = operations'[o] => AsExpected(w) /\ (w.kind = "create" => nodes[w.node] = None)
    BY <1>1, <1>8 DEF Row
  <2>1. CASE o = d.id
    BY <1>4, <1>5, <1>6, <1>9, <2>1 DEF Row
  <2>2. CASE o # d.id
    <3>1. o \in Pending /\ operations'[o] = operations[o]
      BY <1>6, <2>2 DEF Pending
    <3> QED BY <3>1 DEF WinnerOK, Row
  <2> QED BY <2>1, <2>2
<1>11. \A q \in Proc : (proc[q].pc = "journal" => AsExpected(proc[q].op))'
  <2> SUFFICES ASSUME NEW q \in Proc, proc'[q].pc = "journal"
               PROVE  \A w : w = proc'[q].op => AsExpected(w)
    BY <1>8
  <2> QED BY <1>7 DEF WinnerOK
<1>12. ASSUME NEW x \in Uuid, NeverAgain(x) PROVE NeverAgain(x)'
  <2>1. \A q \in Proc : Draft(proc'[q]) = None \/ Draft(proc'[q]) = Draft(proc[q])
    BY <1>7 DEF Draft
  <2>2. d.kind = "create" => d.node # x
    BY <1>3, <1>12 DEF NeverAgain
  <2>3. \A o \in Pending' : \/ o \in Pending /\ operations'[o] = operations[o]
                            \/ operations'[o].kind # "create" \/ operations'[o].node # x
    BY <1>5, <1>6, <2>2 DEF Pending
  <2>4. uploads'[x] = None \/ uploads'[x].result # None
    BY <1>1, <1>12 DEF NeverAgain
  <2> QED BY ZenonT(60), <1>1, <1>12, <2>1, <2>3, <2>4, NeverAgainKept
<1>13. \A s \in Uuid : (uploads[s] # None /\ uploads[s].expectedID # None =>
                          NeverAgain(uploads[s].expectedID) /\ Newer(uploads[s]))'
  <2> SUFFICES ASSUME NEW s \in Uuid, uploads[s] # None, uploads[s].expectedID # None
               PROVE  \A up : up = uploads[s] => NeverAgain(up.expectedID)' /\ Newer(up)'
    BY <1>1
  <2>1. uploads[s].expectedID \in Uuid
    BY DEF IndInv, TypeOK, Upload
  <2> QED BY <1>8, <1>12, <2>1 DEF WinnerOK
<1>14. OneWinner'
  BY <1>1 DEF WinnerOK, OneWinner
<1> QED BY <1>10, <1>11, <1>13, <1>14 DEF WinnerOK

(* The final transaction gives no row an older ETag, and a replaced row a  *)
(* newer one.                                                              *)
LEMMA CommitNewer ==
    ASSUME IndInv, NEW p \in Proc, Commit(p)
    PROVE  LET op == proc[p].op IN
           /\ \A u \in Uuid : Row(u) => nodes'[u] # None /\ nodes'[u].etag >= nodes[u].etag
           /\ op.kind = "replace" => Row(op.node) /\ nodes'[op.node].etag = op.row.etag + 1
                                     /\ op.row.etag \in Nat
<1> DEFINE op == proc[p].op
<1>1. /\ op \in Operation /\ op.id \in Uuid /\ op.kind \in Kind /\ op.node \in Uuid
      /\ IntentOK(op.id, op) /\ CommitOK(op) /\ nodes' = NodesAfter(op)
  BY ZenonT(60), CommitIntent DEF Commit
<1>2. /\ nodes \in [Uuid -> NodeRow \cup {None}] /\ None \notin NodeRow
      /\ \A u \in Uuid : Row(u) => nodes[u] \in NodeRow /\ nodes[u].etag \in Nat
  BY NoneAssumption DEF IndInv, TypeOK, Row, NodeRow
<1>3. \A u \in Uuid : Row(u) => nodes'[u] # None
  BY CommitNodes
<1> HIDE DEF op
<1>4. CASE op.kind = "replace"
  <2> DEFINE upd(r, c, e) == [r EXCEPT !.data = c, !.etag = e, !.missing = FALSE]
             row == upd(nodes[op.node], fs[op.target], nodes[op.node].etag + 1)
  <2>1. nodes' = [nodes EXCEPT ![op.node] = row]
    <3>1. nodes' = Replaced(op)
      BY <1>1, <1>4 DEF NodesAfter
    <3> QED BY <3>1 DEF Replaced
  <2>2. Row(op.node) /\ nodes[op.node].etag = op.row.etag /\ nodes[op.node] \in NodeRow
    BY <1>1, <1>2, <1>4 DEF CommitOK
  <2>3. \A r \in NodeRow : \A c, e : upd(r, c, e).etag = e
    BY ZenonT(60) DEF NodeRow
  <2> HIDE DEF upd
  <2>4. row.etag = nodes[op.node].etag + 1
    BY <2>2, <2>3
  <2> HIDE DEF row
  <2>5. nodes'[op.node] = row /\ \A u \in Uuid \ {op.node} : nodes'[u] = nodes[u]
    BY <1>1, <1>2, <2>1
  <2> QED BY <1>1, <1>2, <1>3, <2>2, <2>4, <2>5 DEF op
<1>5. CASE op.kind = "create"
  <2>1. ~Row(op.node)
    BY <1>1, <1>5 DEF CommitOK
  <2>2. nodes' = Created(op)
    BY <1>1, <1>5 DEF NodesAfter
  <2>3. \A u \in Uuid \ {op.node} : nodes'[u] = nodes[u]
    BY <1>2, <2>2 DEF Created
  <2> QED BY <1>1, <1>2, <1>3, <1>5, <2>1, <2>3 DEF op
<1>6. CASE op.kind = "restore"
  <2> DEFINE upd(r, c, e) == [r EXCEPT !.path = c, !.etag = e, !.missing = FALSE]
             row == upd(nodes[op.node], op.target, nodes[op.node].etag + 1)
  <2>1. CASE Row(op.node)
    <3>1. nodes' = [nodes EXCEPT ![op.node] = row]
      <4>1. nodes' = Restored(op)
        BY <1>1, <1>6 DEF NodesAfter
      <4> QED BY <2>1, <4>1 DEF Restored, Row
    <3>2. \A r \in NodeRow : \A c, e : upd(r, c, e).etag = e
      BY ZenonT(60) DEF NodeRow
    <3> HIDE DEF upd
    <3>3. row.etag = nodes[op.node].etag + 1
      BY <1>1, <1>2, <2>1, <3>2
    <3> HIDE DEF row
    <3>4. nodes'[op.node] = row /\ \A u \in Uuid \ {op.node} : nodes'[u] = nodes[u]
      BY <1>1, <1>2, <3>1
    <3> QED BY SMTT(60), <1>1, <1>2, <1>3, <1>6, <2>1, <3>3, <3>4 DEF op
  <2>2. CASE ~Row(op.node)
    <3>1. nodes' = nodes
      BY <1>1, <1>6, <2>2 DEF NodesAfter, Restored, Row
    <3> QED BY <1>2, <1>3, <1>6, <3>1 DEF op
  <2> QED BY <2>1, <2>2
<1>7. CASE op.kind \in {"move", "trash"}
  <2>1. ASSUME NEW u \in Uuid, Row(u)
        PROVE  Relocated(op)[u] \in NodeRow /\ Relocated(op)[u].etag = nodes[u].etag
    <3>1. nodes[u] \in NodeRow /\ op.target \in Place
      BY <1>1, <1>2, <2>1 DEF Operation
    <3>2. \A r \in NodeRow, l \in Place : [r EXCEPT !.path = l] \in NodeRow /\ [r EXCEPT !.path = l].etag = r.etag
      BY ZenonT(60) DEF NodeRow
    <3>3. Relocated(op)[u] = IF RowAt(u, op.source) THEN [nodes[u] EXCEPT !.path = op.target] ELSE nodes[u]
      BY DEF Relocated
    <3> QED BY ZenonT(60), <3>1, <3>2, <3>3
  <2>2. ASSUME NEW u \in Uuid, Row(u) PROVE nodes'[u].etag >= nodes[u].etag
    <3>1. CASE op.kind = "trash"
      <4>1. nodes'[u] = Relocated(op)[u]
        BY <1>1, <3>1 DEF NodesAfter
      <4> QED BY <1>2, <2>1, <2>2, <4>1
    <3>2. CASE op.kind = "move"
      <4>1. nodes'[u] = IF u = op.node THEN [Relocated(op)[u] EXCEPT !.etag = @ + 1] ELSE Relocated(op)[u]
        BY <1>1, <2>2, <3>2 DEF NodesAfter, Moved
      <4>2. [Relocated(op)[u] EXCEPT !.etag = @ + 1].etag = nodes[u].etag + 1
        BY <2>1, <2>2 DEF NodeRow
      <4> QED BY <1>2, <2>1, <2>2, <4>1, <4>2
    <3> QED BY <1>7, <3>1, <3>2
  <2> QED BY <1>3, <1>7, <2>2 DEF op
<1> QED BY ZenonT(60), <1>1, <1>4, <1>5, <1>6, <1>7 DEF Kind

(* What the final transaction does to the sessions.                        *)
LEMMA CommitSessions ==
    ASSUME IndInv, NEW p \in Proc, Commit(p)
    PROVE  LET op == proc[p].op IN
           \A t \in Uuid : /\ uploads'[t] = None <=> uploads[t] = None
                           /\ t # op.session => uploads'[t] = uploads[t]
                           /\ uploads[t] # None =>
                                /\ uploads'[t].expectedID = uploads[t].expectedID
                                /\ uploads'[t].expectedETag = uploads[t].expectedETag
                                /\ uploads[t].result # None => uploads'[t].result # None
                           /\ t = op.session => uploads[t] # None /\ uploads'[t].result # None
<1> DEFINE op == proc[p].op
<1>1. /\ op.session \in Uuid \cup {None} /\ CommitOK(op)
      /\ uploads' = IF op.session = None THEN uploads
                    ELSE [uploads EXCEPT ![op.session].result = op.node]
  BY ZenonT(60), CommitIntent DEF Commit
<1>2. /\ \A t \in Uuid : uploads'[t] = None <=> uploads[t] = None
      /\ \A t \in Uuid : t # op.session => uploads'[t] = uploads[t]
      /\ op.session # None => uploads'[op.session].result # None
  BY ZenonT(60), CommitTables
<1>3. uploads \in [Uuid -> Upload \cup {None}] /\ None \notin Uuid
  BY ConstantAssumption DEF IndInv, TypeOK
<1> HIDE DEF op
<1>4. ASSUME op.session # None
      PROVE  /\ uploads[op.session] # None
             /\ uploads'[op.session].expectedID = uploads[op.session].expectedID
             /\ uploads'[op.session].expectedETag = uploads[op.session].expectedETag
  <2>1. op.session \in Uuid /\ uploads[op.session] \in Upload /\ uploads[op.session] # None
    BY <1>1, <1>3, <1>4 DEF CommitOK
  <2>2. uploads'[op.session] = [uploads[op.session] EXCEPT !.result = op.node]
    BY <1>1, <1>3, <1>4, <2>1
  <2>3. \A r \in Upload : \A c : /\ [r EXCEPT !.result = c].expectedID = r.expectedID
                                 /\ [r EXCEPT !.result = c].expectedETag = r.expectedETag
    BY ZenonT(60) DEF Upload
  <2> QED BY ZenonT(180), <2>1, <2>2, <2>3
<1>5. ASSUME NEW t \in Uuid
      PROVE  /\ uploads'[t] = None <=> uploads[t] = None
             /\ t # op.session => uploads'[t] = uploads[t]
             /\ uploads[t] # None =>
                  /\ uploads'[t].expectedID = uploads[t].expectedID
                  /\ uploads'[t].expectedETag = uploads[t].expectedETag
                  /\ uploads[t].result # None => uploads'[t].result # None
             /\ t = op.session => uploads[t] # None /\ uploads'[t].result # None
  <2>1. CASE t = op.session
    BY <1>2, <1>3, <1>4, <2>1
  <2>2. CASE t # op.session
    BY <1>2, <2>2
  <2> QED BY <2>1, <2>2
<1> QED BY <1>5 DEF op

(* A session that is published has replaced the revision it expected, so   *)
(* none that expects the same revision was or will be.                     *)
LEMMA CommitWinner == ASSUME IndInv, WinnerOK, NEW p \in Proc, Commit(p) PROVE WinnerOK'
<1> DEFINE op == proc[p].op
<1>1. /\ op.id \in Pending /\ operations[op.id] = op /\ op.node \in Uuid /\ op.kind \in Kind
      /\ op.session \in Uuid \cup {None} /\ CommitOK(op) /\ OpShape(op)
  <2>1. IntentOK(op.id, op)
    BY ZenonT(60), CommitIntent
  <2> QED BY ZenonT(60), <2>1, CommitIntent DEF Commit, IntentOK
<1>2. /\ \A u \in Uuid : nodes'[u] # None <=> Row(u) \/ (op.kind = "create" /\ u = op.node)
      /\ nodes' \in [Uuid -> NodeRow \cup {None}]
  BY ZenonT(60), CommitNodes
<1>3. /\ \A u \in Uuid : Row(u) => nodes'[u].etag >= nodes[u].etag
      /\ op.kind = "replace" => Row(op.node) /\ nodes'[op.node].etag = op.row.etag + 1
                                /\ op.row.etag \in Nat
  BY ZenonT(60), CommitNewer
<1>4. /\ Pending' = Pending \ {op.id} /\ \A o \in Pending' : operations'[o] = operations[o]
      /\ issued' = issued
  BY CommitTables DEF Pending
<1>5. \A t \in Uuid : /\ uploads'[t] = None <=> uploads[t] = None
                      /\ t # op.session => uploads'[t] = uploads[t]
                      /\ uploads[t] # None =>
                           /\ uploads'[t].expectedID = uploads[t].expectedID
                           /\ uploads'[t].expectedETag = uploads[t].expectedETag
                           /\ uploads[t].result # None => uploads'[t].result # None
                      /\ t = op.session => uploads[t] # None /\ uploads'[t].result # None
  BY ZenonT(60), CommitSessions
<1>6. /\ \A q \in Proc \ {p} : proc'[q] = proc[q]
      /\ proc'[p].pc # "journal" /\ Draft(proc'[p]) = Draft(proc[p])
  <2>1. proc[p] \in ProcState /\ proc \in [Proc -> ProcState] /\ proc[p].pc = "commit" /\ Resume(p)
    BY DEF Commit, IndInv, TypeOK
  <2>2. CASE proc[p].request = None
    <3>1. proc' = [proc EXCEPT ![p] = Idle]
      BY <2>1, <2>2 DEF Resume
    <3> QED BY <2>1, <2>2, <3>1, IdleType DEF Draft
  <2>3. CASE proc[p].request # None
    <3>1. proc' = [proc EXCEPT ![p] = [pc |-> "prepared", op |-> None, request |-> proc[p].request,
                                       held |-> {SessionKey(proc[p].request.session)}]]
      BY <2>1, <2>3 DEF Resume
    <3> QED BY <2>1, <3>1 DEF Draft
  <2> QED BY <2>2, <2>3
<1>7. AsExpected(op)
  BY ZenonT(60), <1>1 DEF WinnerOK
<1>8. nodes \in [Uuid -> NodeRow \cup {None}] /\ uploads \in [Uuid -> Upload \cup {None}] /\ None \notin Uuid
  BY ConstantAssumption DEF IndInv, TypeOK
<1> HIDE DEF op
<1>9. \A w : AsExpected(w) /\ w.session \in Uuid \cup {None}
             /\ (w.session # None => uploads[w.session] # None) => AsExpected(w)'
  BY <1>5 DEF AsExpected
<1>10. \A o \in Pending' : /\ AsExpected(operations[o])'
                           /\ (operations[o].kind = "create" => ~Row(operations[o].node))'
  <2> SUFFICES ASSUME NEW o \in Pending \ {op.id}
               PROVE  \A w : w = operations[o] => AsExpected(w)' /\ (w.kind = "create" => nodes'[w.node] = None)
    BY <1>4 DEF Row
  <2>1. AsExpected(operations[o]) /\ (operations[o].kind = "create" => ~Row(operations[o].node))
    BY ZenonT(60) DEF WinnerOK
  <2>2. /\ operations[o].session \in Uuid \cup {None} /\ operations[o].node \in Uuid
        /\ operations[o].session # None => uploads[operations[o].session] # None
        /\ NodeKey(operations[o].node) \in operations[o].locks
    BY IntentSession
  <2>3. operations[o].node # op.node
    <3>1. NodeKey(op.node) \in op.locks
      BY <1>1, IntentSession
    <3>2. operations[o].locks \cap op.locks = {}
      BY ZenonT(60), <1>1 DEF IndInv, TablesOK, IntentsIndependent
    <3> QED BY <2>2, <3>1, <3>2
  <2> QED BY <1>2, <1>9, <2>1, <2>2, <2>3
<1>11. \A q \in Proc : (proc[q].pc = "journal" => AsExpected(proc[q].op))'
  <2> SUFFICES ASSUME NEW q \in Proc, proc'[q].pc = "journal"
               PROVE  \A w : w = proc[q].op => AsExpected(w)'
    BY <1>6
  <2>1. proc[q].pc = "journal"
    BY <1>6
  <2>2. AsExpected(proc[q].op) /\ Draft(proc[q]) = proc[q].op /\ proc[q].op # None
    BY <2>1, JournalDraft DEF WinnerOK
  <2>3. proc[q].op.session \in Uuid \cup {None}
        /\ (proc[q].op.session # None => uploads[proc[q].op.session] # None)
    BY ZenonT(60), <2>2, DraftSession
  <2> QED BY <1>9, <2>2, <2>3
<1>12. \A t \in Uuid : uploads[t] # None /\ uploads[t].expectedID # None =>
         /\ NeverAgain(uploads[t].expectedID) /\ Newer(uploads[t])
         /\ uploads[t].expectedID \in Uuid /\ uploads[t].expectedETag \in Nat
  BY <1>8 DEF WinnerOK, Upload
<1>13. ASSUME NEW x \in Uuid, NeverAgain(x) PROVE NeverAgain(x)'
  <2>1. uploads'[x] = None \/ uploads'[x].result # None
    BY <1>5, <1>13 DEF NeverAgain
  <2>2. \A q \in Proc : Draft(proc'[q]) = None \/ Draft(proc'[q]) = Draft(proc[q])
    BY ZenonT(60), <1>6
  <2>3. \A o \in Pending' : o \in Pending /\ operations'[o] = operations[o]
    BY <1>4
  <2> QED BY <1>4, <1>13, <2>1, <2>2, <2>3, NeverAgainKept
<1>14. op.session # None /\ uploads[op.session].expectedID # None =>
         /\ op.kind = "replace" /\ uploads[op.session].expectedID = op.node
         /\ uploads[op.session].expectedETag = op.row.etag /\ nodes[op.node].etag = op.row.etag
  BY ZenonT(60), <1>1, <1>7 DEF AsExpected, OpShape, CommitOK
<1>15. ASSUME NEW t \in Uuid, uploads[t] # None, uploads[t].expectedID # None
       PROVE  LET x == uploads[t].expectedID IN
              nodes'[x] # None => /\ nodes'[x].etag >= uploads[t].expectedETag
                                  /\ uploads'[t].result # None => nodes'[x].etag > uploads[t].expectedETag
  <2> DEFINE x == uploads[t].expectedID
             e == uploads[t].expectedETag
  <2>1. x \in Uuid /\ e \in Nat /\ NeverAgain(x) /\ Newer(uploads[t])
    BY <1>12, <1>15
  <2> SUFFICES ASSUME nodes'[x] # None
               PROVE  nodes'[x].etag >= e /\ (uploads'[t].result # None => nodes'[x].etag > e)
    OBVIOUS
  <2>2. op.kind = "create" => op.node # x
    BY <1>1, <2>1 DEF NeverAgain
  <2>3. /\ Row(x) /\ nodes'[x].etag >= nodes[x].etag /\ nodes[x].etag \in Nat /\ nodes'[x].etag \in Nat
    BY <1>2, <1>3, <1>8, <2>1, <2>2 DEF Row, NodeRow
  <2>4. nodes[x].etag >= e /\ (uploads[t].result # None => nodes[x].etag > e)
    BY <2>1, <2>3 DEF Newer
  <2>5. CASE t = op.session
    <3>1. x = op.node /\ e = op.row.etag /\ nodes'[op.node].etag = op.row.etag + 1
      BY <1>3, <1>8, <1>14, <1>15, <2>5
    <3> HIDE DEF x, e
    <3> QED BY <2>1, <3>1
  <2>6. CASE t # op.session
    <3>1. uploads'[t] = uploads[t]
      BY <1>5, <2>6
    <3> HIDE DEF x, e
    <3> QED BY <2>1, <2>3, <2>4, <3>1
  <2> QED BY <2>5, <2>6
<1>16. ASSUME NEW t \in Uuid, uploads'[t] # None, uploads'[t].expectedID # None
       PROVE  \A up : up = uploads'[t] => NeverAgain(up.expectedID)' /\ Newer(up)'
  <2>1. /\ uploads[t] # None /\ uploads'[t].expectedID = uploads[t].expectedID
        /\ uploads'[t].expectedETag = uploads[t].expectedETag
    BY <1>5, <1>16
  <2>2. uploads[t].expectedID \in Uuid /\ NeverAgain(uploads[t].expectedID)
    BY <1>12, <1>16, <2>1
  <2> QED BY <1>13, <1>15, <1>16, <2>1, <2>2 DEF Newer, Row
<1>17. ASSUME NEW t \in Uuid, t # op.session, op.session # None, uploads[t] # None,
              uploads[op.session].expectedID # None,
              uploads[t].expectedID = uploads[op.session].expectedID,
              uploads[t].expectedETag = uploads[op.session].expectedETag
       PROVE  uploads[t].result = None
  <2>1. /\ uploads[t].expectedID = op.node /\ uploads[t].expectedETag = nodes[op.node].etag /\ Row(op.node)
        /\ nodes[op.node].etag \in Nat
    BY ZenonT(60), <1>1, <1>3, <1>8, <1>14, <1>17 DEF Row, NodeRow
  <2>2. Newer(uploads[t])
    BY <1>12, <1>17
  <2> QED BY <2>1, <2>2 DEF Newer
<1>18. OneWinner'
  <2> SUFFICES ASSUME NEW s \in Uuid, NEW t \in Uuid, uploads'[s] # None, uploads'[t] # None, s # t,
                      uploads'[s].expectedID # None, uploads'[s].expectedID = uploads'[t].expectedID,
                      uploads'[s].expectedETag = uploads'[t].expectedETag
               PROVE  uploads'[s].result = None \/ uploads'[t].result = None
    BY ZenonT(60) DEF OneWinner
  <2>1. /\ uploads[s] # None /\ uploads[t] # None /\ uploads[s].expectedID # None
        /\ uploads[s].expectedID = uploads[t].expectedID
        /\ uploads[s].expectedETag = uploads[t].expectedETag
    BY <1>5
  <2>2. CASE s = op.session
    BY <1>5, <1>8, <1>17, <2>1, <2>2
  <2>3. CASE t = op.session
    BY <1>5, <1>8, <1>17, <2>1, <2>3
  <2>4. CASE s # op.session /\ t # op.session
    <3>1. uploads'[s] = uploads[s] /\ uploads'[t] = uploads[t]
      BY <1>5, <2>4
    <3>2. OneWinner
      BY DEF WinnerOK
    <3> QED BY <2>1, <3>1, <3>2 DEF OneWinner
  <2> QED BY <2>2, <2>3, <2>4
<1> QED BY ZenonT(60), <1>10, <1>11, <1>16, <1>18 DEF WinnerOK

(* A request drafts an operation.                                          *)
LEMMA ReadyWinner ==
    ASSUME IndInv, WinnerOK, NEW p \in Proc, NEW op, NEW ks, Ready(p, op, ks),
           UNCHANGED tables, issued \subseteq issued', AsExpected(op),
           op.kind # "create" \/ op.node \notin issued \/ op = Draft(proc[p])
    PROVE  WinnerOK'
<1>1. proc \in [Proc -> ProcState]
  BY DEF IndInv, TypeOK
<1>2. /\ \A q \in Proc \ {p} : proc'[q] = proc[q]
      /\ proc'[p].pc = "journal" /\ proc'[p].op = op /\ Draft(proc'[p]) = op
  BY <1>1 DEF Ready, Draft
<1> QED BY ZenonT(60), <1>2, ProcWinner

(* A process takes a step outside the journal, or is done.                 *)
LEMMA KeepsWinner ==
    ASSUME IndInv, WinnerOK, NEW p \in Proc, UNCHANGED tables, issued \subseteq issued',
           \A q \in Proc \ {p} : proc'[q] = proc[q], proc'[p].pc # "journal",
           proc'[p].request = None \/ (proc'[p].request = proc[p].request /\ proc[p].pc # "journal")
    PROVE  WinnerOK'
<1>1. Draft(proc'[p]) = None \/ Draft(proc'[p]) = Draft(proc[p])
  BY DEF Draft
<1> QED BY ZenonT(60), <1>1, ProcWinner

LEMMA RequestWinner == ASSUME IndInv, WinnerOK, NEW p \in Proc, Request(p) PROVE WinnerOK'
<1>1. ASSUME NEW o \in Uuid, NEW n \in Name, CreateDir(p, n, o) \/ TouchFile(p, n, o) PROVE WinnerOK'
  <2> DEFINE op == Intent(o, "create", Tmp(o), Entry(n), None, o, None)
  <2>1. /\ Ready(p, op, Plan({Entry(n)})) /\ UNCHANGED tables /\ issued \subseteq issued' /\ o \notin issued
    BY <1>1 DEF CreateDir, TouchFile, Fresh
  <2>2. op.node \notin issued /\ AsExpected(op)
    BY ZenonT(60), <2>1 DEF AsExpected, Intent
  <2> HIDE DEF op
  <2> QED BY ZenonT(60), <2>1, <2>2, ReadyWinner
<1>2. ASSUME NEW o, NEW kind, NEW source, NEW target, NEW node, NEW row, NEW ks,
             Ready(p, Intent(o, kind, source, target, None, node, row), ks), kind # "create",
             UNCHANGED tables, issued \subseteq issued'
      PROVE  WinnerOK'
  <2> DEFINE op == Intent(o, kind, source, target, None, node, row)
  <2>1. op.kind # "create" /\ AsExpected(op)
    BY ZenonT(60), <1>2 DEF AsExpected, Intent
  <2>2. Ready(p, op, ks)
    BY <1>2
  <2> HIDE DEF op
  <2> QED BY ZenonT(60), <1>2, <2>1, <2>2, ReadyWinner
<1>3. ASSUME NEW o \in Uuid, NEW n \in Name, RestoreRecycleItem(p, o, n) PROVE WinnerOK'
  <2>1. /\ \E ks : Ready(p, Intent(o, "restore", Trash(o), Entry(n), None, retained[o].node, retained[o].row), ks)
        /\ UNCHANGED tables /\ issued \subseteq issued'
    BY ZenonT(60), <1>3 DEF RestoreRecycleItem
  <2> QED BY <1>2, <2>1
<1>4. ASSUME NEW u \in Uuid, NEW o \in Uuid, Delete(p, u, o) PROVE WinnerOK'
  <2>1. /\ Ready(p, Intent(o, "trash", nodes[u].path, Trash(o), None, u, nodes[u]), Plan({nodes[u].path}))
        /\ UNCHANGED tables /\ issued \subseteq issued'
    BY <1>4 DEF Delete
  <2> QED BY <1>2, <2>1
<1>5. ASSUME NEW u \in Uuid, NEW v \in Uuid, NEW o \in Uuid, RestoreRevision(p, u, v, o) PROVE WinnerOK'
  <2>1. /\ Ready(p, Intent(o, "replace", Tmp(o), nodes[u].path, None, u, nodes[u]), Plan({nodes[u].path}))
        /\ UNCHANGED tables /\ issued \subseteq issued'
    BY <1>5 DEF RestoreRevision
  <2> QED BY <1>2, <2>1
<1>6. ASSUME NEW u \in Uuid, NEW o \in Uuid, NEW n \in Name, Move(p, u, n, o) PROVE WinnerOK'
  <2>1. /\ Ready(p, Intent(o, "move", nodes[u].path, Entry(n), None, u, nodes[u]),
                 Plan({nodes[u].path, Entry(n)}))
        /\ UNCHANGED tables /\ issued \subseteq issued'
    BY <1>6 DEF Move
  <2> QED BY <1>2, <2>1
<1>7. ASSUME NEW s \in Uuid, NEW o \in Uuid, FinishUpload(p, s, o) PROVE WinnerOK'
  <2> DEFINE op == Intent(o, "create", Tmp(o), Entry(uploads[s].name), s, s, None)
  <2>1. /\ proc' = [proc EXCEPT ![p] = [pc |-> "prepared", op |-> None, request |-> op,
                                        held |-> {SessionKey(s)}]]
        /\ UNCHANGED tables /\ issued \subseteq issued' /\ uploads[s] # None /\ uploads[s].result = None
    BY ZenonT(60), <1>7 DEF FinishUpload
  <2>2. op.node = s
    BY ZenonT(60) DEF Intent
  <2> HIDE DEF op
  <2>3. proc \in [Proc -> ProcState]
    BY DEF IndInv, TypeOK
  <2>4. /\ \A q \in Proc \ {p} : proc'[q] = proc[q]
        /\ proc'[p].pc # "journal" /\ Draft(proc'[p]) = op
    BY ZenonT(60), <2>1, <2>3 DEF Draft
  <2> QED BY ZenonT(60), <2>1, <2>2, <2>4, ProcWinner
<1> QED BY <1>1, <1>3, <1>4, <1>5, <1>6, <1>7 DEF Request

(* The destination is what the session expects, under the locks.           *)
LEMMA WriteWinner == ASSUME IndInv, WinnerOK, NEW p \in Proc, WriteUpload(p) PROVE WinnerOK'
<1> DEFINE req == proc[p].request
           ks == Plan({req.target})
<1>1. proc[p].pc = "prepared" /\ UNCHANGED tables /\ issued \subseteq issued'
  BY ZenonT(60) DEF WriteUpload
<1>2. req \in Operation /\ req.kind = "create" /\ req.session # None /\ Draft(proc[p]) = req
  <2>1. proc[p] \in ProcState /\ LocalOK(proc[p])
    BY ZenonT(60) DEF IndInv, TypeOK
  <2> QED BY ZenonT(60), <1>1, <2>1 DEF LocalOK, ShapeOK, ProcState, Draft
<1>3. CASE uploads[req.session].expectedID = None /\ Ready(p, req, ks)
  <2>1. AsExpected(req)
    BY ZenonT(60), <1>2, <1>3 DEF AsExpected
  <2> QED BY ZenonT(60), <1>1, <1>2, <1>3, <2>1, ReadyWinner
<1>4. ASSUME NEW u \in Uuid, Expected(req.session, u),
             Ready(p, [req EXCEPT !.kind = "replace", !.node = u, !.row = nodes[u]], ks)
      PROVE  WinnerOK'
  <2> DEFINE op == [req EXCEPT !.kind = "replace", !.node = u, !.row = nodes[u]]
  <2>1. op.kind = "replace" /\ op.node = u /\ op.row = nodes[u] /\ op.session = req.session
    BY <1>2 DEF Operation
  <2>2. Ready(p, op, ks)
    BY <1>4
  <2> HIDE DEF op
  <2>3. AsExpected(op)
    BY <1>4, <2>1 DEF AsExpected, Expected
  <2>4. op.kind # "create"
    BY <2>1
  <2> QED BY ZenonT(60), <1>1, <2>2, <2>3, <2>4, ReadyWinner
<1> QED BY ZenonT(60), <1>3, <1>4 DEF WriteUpload

LEMMA StepWinner ==
    ASSUME IndInv, WinnerOK, NEW p \in Proc, Step(p) \/ Crash(p) \/ IOError(p) \/ \E o \in Uuid : RecoverPick(p, o)
    PROVE  WinnerOK'
<1>a. proc \in [Proc -> ProcState] /\ proc[p] \in ProcState
  BY DEF IndInv, TypeOK
<1>1. CASE AbandonUpload(p) \/ ApplyFails(p) \/ RecoveryStopped(p) \/ RecoverTimeout(p) \/ Crash(p) \/ IOError(p)
  <2>1. UNCHANGED tables /\ issued \subseteq issued' /\ proc' = [proc EXCEPT ![p] = Idle]
    BY ZenonT(60), <1>1 DEF AbandonUpload, ApplyFails, RecoveryStopped, RecoverTimeout, Crash, IOError, Fail
  <2>2. /\ \A q \in Proc \ {p} : proc'[q] = proc[q]
        /\ proc'[p].pc # "journal" /\ proc'[p].request = None
    BY ZenonT(60), <1>a, <2>1, IdleType
  <2> QED BY ZenonT(60), <2>1, <2>2, KeepsWinner
<1>2. CASE Backup(p) \/ Publish(p) \/ \E o \in Uuid : RecoverPick(p, o)
  <2>1. /\ UNCHANGED tables /\ issued \subseteq issued' /\ proc[p].pc # "journal"
        /\ \E pc \in {"publish", "commit", "picked"} : \E op : proc' = [proc EXCEPT ![p].pc = pc, ![p].op = op]
    <3>1. CASE Backup(p) \/ Publish(p)
      <4>1. \E pc \in {"publish", "commit"} : proc' = [proc EXCEPT ![p].pc = pc]
        BY <3>1 DEF Backup, Publish
      <4>2. \A pc : [proc EXCEPT ![p].pc = pc] = [proc EXCEPT ![p].pc = pc, ![p].op = proc[p].op]
        BY ZenonT(60), <1>a DEF ProcState
      <4> QED BY ZenonT(60), <3>1, <4>1, <4>2 DEF Backup, Publish
    <3>2. CASE \E o \in Uuid : RecoverPick(p, o)
      BY ZenonT(60), <3>2, IdleType DEF RecoverPick
    <3> QED BY <1>2, <3>1, <3>2
  <2>2. PICK pc \in {"publish", "commit", "picked"} : \E op : proc' = [proc EXCEPT ![p].pc = pc, ![p].op = op]
    BY ZenonT(60), <2>1
  <2>3. /\ \A q \in Proc \ {p} : proc'[q] = proc[q]
        /\ proc'[p].pc # "journal" /\ proc'[p].request = proc[p].request
    BY <1>a, <2>2 DEF ProcState
  <2> QED BY ZenonT(60), <2>1, <2>3, KeepsWinner
<1>3. CASE RecoverOne(p)
  <2>1. UNCHANGED tables /\ issued \subseteq issued' /\ proc[p].pc # "journal"
    BY <1>3 DEF RecoverOne
  <2>2. /\ \A q \in Proc \ {p} : proc'[q] = proc[q]
        /\ proc'[p].pc # "journal" /\ proc'[p].request = proc[p].request
    <3>1. CASE Resume(p)
      BY <1>a, <3>1, IdleType DEF Resume
    <3>2. CASE \E op, ks : proc' = [proc EXCEPT ![p].pc = FirstStep(op), ![p].op = op, ![p].held = @ \cup ks]
      BY <1>a, <3>2 DEF FirstStep, ProcState
    <3> QED BY ZenonT(60), <1>3, <3>1, <3>2 DEF RecoverOne
  <2> QED BY ZenonT(60), <2>1, <2>2, KeepsWinner
<1> QED BY <1>1, <1>2, <1>3, WriteWinner, ApplyWinner, CommitWinner DEF Step

LEMMA WinnerInit == Init => WinnerOK
<1> SUFFICES ASSUME Init PROVE WinnerOK
  OBVIOUS
<1>1. Pending = {} /\ (\A s \in Uuid : uploads[s] = None) /\ \A q \in Proc : proc[q].pc = "idle"
  BY ZenonT(60), IdleType DEF Init, Pending
<1> QED BY ZenonT(60), <1>1 DEF WinnerOK, OneWinner

LEMMA WinnerNext == ASSUME IndInv, WinnerOK, [Next]_vars PROVE WinnerOK'
<1>1. ASSUME NEW p \in Proc, Request(p) \/ Step(p) \/ Crash(p) \/ IOError(p) PROVE WinnerOK'
  BY <1>1, RequestWinner, StepWinner
<1>2. ASSUME NEW p \in Proc, NEW o \in Uuid, RecoverPick(p, o) PROVE WinnerOK'
  BY <1>2, StepWinner
<1>3. ASSUME NEW s \in Uuid, NEW n \in Name, NEW b \in Bytes, StartUpload(s, n, b) PROVE WinnerOK'
  BY <1>3, StartWinner
<1>4. ASSUME NEW u \in Uuid, EditMetadata(u) \/ DropUpload(u) PROVE WinnerOK'
  BY <1>4, EditWinner, DropWinner
<1>5. ASSUME NEW n \in Name, NEW c \in Bytes \cup {None}, ExternalEdit(n, c) PROVE WinnerOK'
  BY ZenonT(60), <1>5, EditWinner
<1>6. ASSUME NEW new \in FreshIds, NEW expired, Scan(new, expired) PROVE WinnerOK'
  BY <1>6, ScanWinner
<1>7. CASE UNCHANGED vars
  BY ZenonT(60), <1>7, EditWinner
<1> QED BY <1>1, <1>2, <1>3, <1>4, <1>5, <1>6, <1>7 DEF Next
=============================================================================
