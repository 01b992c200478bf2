--------------------------- MODULE PublicationInv ---------------------------
(***************************************************************************)
(* The inductive invariant behind the safety properties of Publication.    *)
(* The properties speak about intents in the journal and about processes   *)
(* inside finish; to see that they are kept one has to know where an       *)
(* intent comes from (a draft, held by a process that has its locks), who  *)
(* may hold the locks of an intent, and that a uuid has only one use.      *)
(***************************************************************************)
EXTENDS Publication

(* A lock that everybody inside finish with op holds: the entry of a node  *)
(* that does not exist yet, otherwise the node.                            *)
Anchor(op) == IF op.kind = "create" THEN op.target ELSE NodeKey(op.node)

(* Source and target of each kind, and where the id of a new node is from. *)
OpShape(op) ==
    /\ op.kind \in {"create", "replace"} => op.source = Tmp(op.id) /\ op.target \in Public
    /\ op.kind = "create" => op.node = IF op.session = None THEN op.id ELSE op.session
    /\ op.kind = "move" => op.source \in Public /\ op.target \in Public
    /\ op.kind = "trash" => op.source \in Public /\ op.target = Trash(op.id)
    /\ op.kind = "restore" => op.source = Trash(op.id) /\ op.target \in Public
    /\ op.kind \notin {"create", "replace"} => op.session = None

(* A recorded manifest: resources only, among them the public ends of the  *)
(* rename and the node.                                                    *)
ManifestOK(op) ==
    /\ \A k \in op.locks : k[1] \in {"node", "entry"}
    /\ {op.source, op.target} \cap Public \subseteq op.locks
    /\ NodeKey(op.node) \in op.locks

(* All but a creation carry the row they were planned from.                *)
RowRecorded(op) == op.kind # "create" => op.row # None

(* The rows an operation was planned from are still there.                 *)
RowsOK(op) ==
    /\ op.kind = "replace" => RowAt(op.node, op.target) /\ nodes[op.node].etag = op.row.etag
    /\ op.kind \in {"move", "trash"} => RowAt(op.node, op.source)
    /\ op.kind = "restore" => /\ retained[op.id] # None /\ retained[op.id].kind = "trash"
                              /\ retained[op.id].node = op.node

----------------------------------------------------------------------------
(* What holds of a single process state s, given the tables.               *)

(* The operation the process is going to journal, or None.                 *)
Draft(s) == IF s.pc = "journal" THEN s.op ELSE s.request

Inside(s) == s.pc \in {"backup", "publish", "commit"}

ShapeOK(s) ==
    /\ s.pc = "idle" => s = Idle
    /\ s.pc = "prepared" => s.op = None /\ s.request # None
    /\ s.pc = "journal" => s.op # None /\ s.request = None
    /\ s.pc \in {"picked", "backup", "publish", "commit"} => s.op # None
    /\ s.pc \in {"prepared", "picked"} =>
         s.held \subseteq (IF s.request = None THEN {} ELSE {SessionKey(s.request.session)})
    /\ s.request # None => s.request.kind = "create" /\ s.request.session # None

(* The uuid of a draft is not used for anything yet, except that a restore *)
(* reuses the one of its trash item; its session is open and locked.       *)
DraftOK(d, held) ==
    /\ OpShape(d)
    /\ d.id \in issued /\ uploads[d.id] = None
    /\ d.kind # "restore" =>
         /\ operations[d.id] = None /\ retained[d.id] = None /\ ~Row(d.id)
         /\ \A c \in completed : c[1] # d.id
    /\ d.session # None =>
         /\ SessionKey(d.session) \in held
         /\ uploads[d.session] # None /\ uploads[d.session].result = None
         /\ \A o \in Pending : operations[o].session # d.session

(* With its locks and before apply, the plan is up to date.                *)
JournalOK(s) ==
    s.pc = "journal" =>
        /\ RowsOK(s.op)
        /\ Plan({s.op.source, s.op.target}) \subseteq s.held
        /\ s.op.kind # "create" => NodeKey(s.op.node) \in s.held

(* Outside finish nobody holds a lock of a pending intent, or of a node    *)
(* that does not exist.                                                    *)
HeldOK(s) ==
    ~Inside(s) =>
        /\ \A o \in Pending : s.held \cap operations[o].locks = {}
        /\ \A u \in Uuid : NodeKey(u) \in s.held => Row(u)

InsideOK(s) ==
    Inside(s) => operations[s.op.id] = s.op /\ Anchor(s.op) \in s.held

(* What recoverOne was called with is in the journal, or done.             *)
PickedOK(s) ==
    s.pc = "picked" =>
        /\ OpShape(s.op) /\ ManifestOK(s.op)
        /\ operations[s.op.id] = s.op \/ <<s.op.id, s.op.kind, s.op.node>> \in completed

LocalOK(s) ==
    /\ ShapeOK(s)
    /\ s.op # None => RowRecorded(s.op)
    /\ Draft(s) # None => DraftOK(Draft(s), s.held)
    /\ JournalOK(s) /\ HeldOK(s) /\ InsideOK(s) /\ PickedOK(s)

----------------------------------------------------------------------------
(* What holds between processes.                                           *)

HeldDisjoint == \A p, q \in Proc : p # q => Held(p) \cap Held(q) = {}

DraftsDistinct ==
    \A p, q \in Proc : p # q /\ Draft(proc[p]) # None /\ Draft(proc[q]) # None
        /\ Draft(proc[p]).kind # "restore" => Draft(proc[q]).id # Draft(proc[p]).id

----------------------------------------------------------------------------
(* What holds of the tables.                                               *)

IntentOK(o, op) ==
    /\ op.id = o /\ o \in issued /\ uploads[o] = None
    /\ OpShape(op) /\ ManifestOK(op) /\ RowsOK(op) /\ RowRecorded(op)
    /\ \A u \in Uuid : NodeKey(u) \in op.locks => Row(u) \/ u = op.node
    /\ op.kind # "restore" => retained[o] = None
    /\ op.session # None => uploads[op.session] # None /\ uploads[op.session].result = None
    /\ \A c \in completed : c[1] = o => op.kind = "restore" /\ c = <<o, "trash", op.node>>

PendingOK == \A o \in Pending : IntentOK(o, operations[o])

SessionsDistinct ==
    \A o1, o2 \in Pending : o1 # o2 /\ operations[o1].session # None
        => operations[o1].session # operations[o2].session

TrashOK ==
    \A r \in Uuid : retained[r] # None =>
        /\ uploads[r] = None /\ r \in issued
        /\ retained[r].kind = "trash" =>
             /\ RowAt(retained[r].node, Trash(r))
             /\ \A c \in completed : c[1] = r => c = <<r, "trash", retained[r].node>>

(* An open session's uuid is still free to name the node it creates.       *)
SessionsOK ==
    \A s \in Uuid : uploads[s] # None =>
        s \in issued /\ (uploads[s].result = None => ~Row(s))

UsedIsIssued ==
    /\ \A u \in Uuid : Row(u) => u \in issued
    /\ \A c \in completed : c[1] \in issued

TablesOK ==
    /\ PendingOK /\ SessionsDistinct /\ IntentsIndependent
    /\ TrashOK /\ SessionsOK /\ UsedIsIssued

(* The inductive invariant: what the tables, every process and every two   *)
(* processes have to satisfy for the safety properties of the protocol to  *)
(* be kept by each of its steps.                                           *)
IndInv ==
    /\ TypeOK /\ TablesOK
    /\ \A p \in Proc : LocalOK(proc[p])
    /\ HeldDisjoint /\ DraftsDistinct

----------------------------------------------------------------------------
(* What holds between the tables and the mount as long as nobody edits the *)
(* mount behind the driver's back.                                         *)

(* Every row describes a public entry or a trash item, and no two describe *)
(* the same place.                                                         *)
RowsStand ==
    \A u \in Uuid : Row(u) =>
        /\ ~nodes[u].missing
        /\ \/ nodes[u].path \in Public
           \/ \E r \in Uuid : /\ nodes[u].path = Trash(r)
                              /\ retained[r] # None /\ retained[r].kind = "trash"

PathsUnique ==
    \A u, v \in Uuid : Row(u) /\ Row(v) /\ nodes[u].path = nodes[v].path => u = v

(* What a scan would say of the entry a row describes: rows of directories *)
(* made by an operation have what Stat says of them until the next scan.   *)
Seen(d) == IF d = StatDir THEN Dir ELSE d

(* With no intent on a node, the mount has what its row says.              *)
RowsMatch ==
    \A u \in Uuid : Row(u) /\ (\A o \in Pending : operations[o].node # u)
        => fs[nodes[u].path] = Seen(nodes[u].data)

(* A public file has a row or is about to get one.                         *)
EntriesKnown ==
    \A n \in Name : fs[Entry(n)] # None =>
        (\E u \in Uuid : RowAt(u, Entry(n))) \/ (\E o \in Pending : operations[o].target = Entry(n))

(* A previous version is where its row says; a file under versions has a   *)
(* row or belongs to a pending replacement.                                *)
VersionsKept ==
    \A v \in Uuid :
        /\ retained[v] # None /\ retained[v].kind = "version" => fs[Version(v)] = retained[v].row.data
        /\ fs[Version(v)] # None =>
             \/ retained[v] # None /\ retained[v].kind = "version"
             \/ v \in Pending /\ operations[v].kind = "replace"

(* finish can go on from wherever an intent was left, and what it is going *)
(* to write into the tables is what it is going to leave on the mount.     *)
IntentReady(op) ==
    /\ op.digest # None /\ Unambiguous(op)
    /\ op.kind = "replace" => op.previous = nodes[op.node].data /\ op.row.data = nodes[op.node].data
    /\ op.kind \in {"move", "trash", "restore"} => op.digest = Seen(nodes[op.node].data)
    /\ op.kind = "create" => ~Row(op.node)
    /\ op.kind \in {"create", "move", "restore"} => \A u \in Uuid : ~RowAt(u, op.target)

IntentsReady == \A o \in Pending : IntentReady(operations[o])

(* How far a process inside finish has come, and that the row a draft was  *)
(* planned from still describes the bytes it is going to replace.          *)
ProcReady(s) ==
    /\ s.pc = "journal" /\ s.op.kind = "replace"
         => s.op.row.data = nodes[s.op.node].data /\ Seen(s.op.row.data) = s.op.row.data
    /\ s.pc = "backup" => s.op.kind = "replace"
    /\ s.pc \in {"publish", "commit"} /\ s.op.kind = "replace" => fs[Version(s.op.id)] = s.op.previous
    /\ s.pc = "commit" => fs[s.op.source] = None /\ fs[s.op.target] = s.op.digest

(* The tables and the mount agree, up to what pending intents account for. *)
MountOK ==
    /\ RowsStand /\ PathsUnique /\ RowsMatch /\ EntriesKnown /\ VersionsKept
    /\ IntentsReady /\ \A p \in Proc : ProcReady(proc[p])

----------------------------------------------------------------------------
(* What holds of the uploads that set out to replace a file, whatever is   *)
(* edited on the mount.                                                    *)

(* An operation of a session does what the session expected.               *)
AsExpected(op) ==
    op.session # None =>
        /\ op.kind = "replace" => /\ uploads[op.session].expectedID = op.node
                                  /\ uploads[op.session].expectedETag = op.row.etag
        /\ op.kind = "create" => uploads[op.session].expectedID = None

(* The id of a file that was there once is not given to another one.       *)
NeverAgain(x) ==
    /\ x \in issued
    /\ uploads[x] = None \/ uploads[x].result # None
    /\ \A o \in Pending : operations[o].kind = "create" => operations[o].node # x
    /\ \A q \in Proc : Draft(proc[q]) # None /\ Draft(proc[q]).kind = "create" => Draft(proc[q]).node # x

(* A file is never older than a session expects it, and newer once the     *)
(* session has replaced it.                                                *)
Newer(up) ==
    Row(up.expectedID) => /\ nodes[up.expectedID].etag >= up.expectedETag
                          /\ up.result # None => nodes[up.expectedID].etag > up.expectedETag

WinnerOK ==
    /\ \A o \in Pending : /\ AsExpected(operations[o])
                          /\ operations[o].kind = "create" => ~Row(operations[o].node)
    /\ \A q \in Proc : proc[q].pc = "journal" => AsExpected(proc[q].op)
    /\ \A s \in Uuid : uploads[s] # None /\ uploads[s].expectedID # None =>
         NeverAgain(uploads[s].expectedID) /\ Newer(uploads[s])
    /\ OneWinner

(* All of it: every step keeps the protocol's invariant and the one of the *)
(* uploads, and the one of the mount too unless it is an edit.             *)
Inductive == IndInv /\ WinnerOK /\ (edits = 0 => MountOK)
=============================================================================
