---------------------------- MODULE Publication ----------------------------
(***************************************************************************)
(* The publication protocol of the remoteposix storage driver: how a       *)
(* request changes the remote tree and the SQLite tables although the two  *)
(* cannot be updated in one transaction.  A request takes its resource     *)
(* locks, writes an intent into the `operations` table, renames files on   *)
(* the remote mount and commits the metadata together with the deletion of *)
(* the intent.  Any step may be the last one of its process; an intent     *)
(* that survives is finished by recoverOne, in whatever process meets it.  *)
(*                                                                         *)
(* Sources: ocis-pkg/storage/remoteposix/{store,locks,driver,upload,       *)
(* upload_cleanup,retention,metadata}.go.                                  *)
(*                                                                         *)
(* The space is flat here: a name stands for an entry of the root with     *)
(* everything below it, so a directory and its subtree are one content.    *)
(* A uuid drawn for an operation also names the temporary file and the     *)
(* node that operation creates; the uuid of an upload session also is the  *)
(* NodeId reserved for the file it creates.  A content stands for bytes    *)
(* and for what stat and the SHA-256 fingerprint say about them.           *)
(***************************************************************************)
EXTENDS Integers, FiniteSets

CONSTANTS
    Proc,           \* request handlers and maintenance loops of all providers
    Name,           \* entry names in the root of the space
    Uuid,           \* the supply of uuid.NewString()
    Bytes,          \* contents of files
    Empty,          \* the content TouchFile gives a new file
    Dir,            \* content of a directory
    StatDir,        \* what Stat says of a directory: its size is the mount's own
    None,           \* no row, no file, no operation
    InitNodes,      \* [Name -> Uuid \cup {None}]: the files the space starts with
    InitData,       \* [Name -> Bytes]: and their contents
    MaxEtag,        \* bound on metadata edits
    MaxCrashes,     \* bound on crashes and I/O errors
    MaxEdits,       \* bound on edits made directly on the mount
    EditPending     \* TRUE: such edits may also happen while an intent is pending

Content == Bytes \cup {Dir}

(* What a transaction takes from fi.Size() and fi.ModTime().  A scan sees  *)
(* the content itself: it takes the size of every directory as 0.          *)
Stat(c) == IF c = Dir THEN StatDir ELSE c

(* Places on the remote mount: public paths and, below the control         *)
(* directory, temporary files, previous versions and trash.                *)
Tmp(o) == <<"tmp", o>>
Version(o) == <<"versions", o>>
Trash(o) == <<"trash", o>>
Entry(n) == <<"entry", n>>
Control == {"tmp", "versions", "trash"} \X Uuid
Public == {"entry"} \X Name
Place == Public \cup Control

(* Lock keys.  Every request also holds the key of the space root, shared; *)
(* the only exclusive holder modelled here is the final step of a scan.    *)
NodeKey(u) == <<"node", u>>
SessionKey(u) == <<"session", u>>
OperationKey(u) == <<"operation", u>>
Key == ({"node", "session", "operation"} \X Uuid) \cup Public

Kind == {"create", "replace", "move", "trash", "restore"}

NodeRow == [path : Place, dir : BOOLEAN, data : Content \cup {StatDir}, etag : Nat,
            missing : BOOLEAN]

RetainedRow == [node : Uuid, kind : {"version", "trash"}, row : NodeRow]

Upload == [name : Name, expectedID : Uuid \cup {None}, expectedETag : Nat,
           staged : Bytes, result : Uuid \cup {None}]

Operation == [id : Uuid, kind : Kind, source : Place, target : Place,
              digest : Content \cup {None}, previous : Content \cup {None},
              session : Uuid \cup {None}, node : Uuid,
              row : NodeRow \cup {None}, locks : SUBSET Key]

(* An event and who has put it into the outbox.                            *)
Event == Uuid \X {"file", "directory", "deleted"} \X {"finish", "scan"}

ASSUME ConstantAssumption ==
    /\ None \notin Content \cup {StatDir} \cup Uuid \cup Name
    /\ Empty \in Bytes /\ Dir \notin Bytes /\ StatDir \notin Bytes
    /\ InitNodes \in [Name -> Uuid \cup {None}] /\ InitData \in [Name -> Bytes]
    /\ \A m, n \in Name : m # n /\ InitNodes[m] = InitNodes[n] => InitNodes[m] = None
    /\ MaxEtag \in Nat /\ MaxCrashes \in Nat /\ MaxEdits \in Nat
    /\ EditPending \in BOOLEAN

(* Rows and operations are records; None is not one of them.               *)
ASSUME NoneAssumption ==
    /\ None \notin NodeRow
    /\ None \notin RetainedRow
    /\ None \notin Upload
    /\ None \notin Operation

VARIABLES
    fs,          \* remote mount: [Place -> Content \cup {None}]
    nodes,       \* table nodes
    operations,  \* table operations: the journal of intents
    retained,    \* table retained: versions and trash
    uploads,     \* table uploads: sessions whose bytes are all staged
    completed,   \* table completed_operations, as (id, kind, node)
    outbox,      \* table outbox: how many events of each (node, kind, writer)
    proc,        \* what every process is doing
    issued,      \* uuids drawn so far
    crashes, edits  \* how much of MaxCrashes and MaxEdits is used up

tables == <<nodes, operations, retained, uploads, completed, outbox>>
vars == <<fs, tables, proc, issued, crashes, edits>>

Pc == {"idle", "prepared", "journal", "picked", "backup", "publish", "commit"}

(* op is the operation in hand; request is a prepared upload that waits    *)
(* while its process recovers somebody else's operation.                   *)
ProcState == [pc : Pc, op : Operation \cup {None}, request : Operation \cup {None},
              held : SUBSET Key]

Idle == [pc |-> "idle", op |-> None, request |-> None, held |-> {}]

----------------------------------------------------------------------------
(* Lookups and locks.                                                      *)

Row(u) == nodes[u] # None
RowAt(u, l) == Row(u) /\ nodes[u].path = l
PublicRow(u) == Row(u) /\ nodes[u].path \in Public /\ ~nodes[u].missing
Pending == {o \in Uuid : operations[o] # None}
Fresh == Uuid \ issued

Held(p) == proc[p].held
Free(ks) == \A q \in Proc : Held(q) \cap ks = {}

(* plan for references to some public places: each entry and whatever node *)
(* the table has there.                                                    *)
Plan(ls) ==
    (ls \cap Public) \cup {NodeKey(u) : u \in {v \in Uuid : Row(v) /\ nodes[v].path \in ls \cap Public}}

(* The manifest recorded with an intent.  A node that does not exist yet   *)
(* is locked by nobody but its recovery.                                   *)
OperationLocks(op) == Plan({op.source, op.target}) \cup {NodeKey(op.node)}

Overlaps(ks) == \E o \in Pending : operations[o].locks \cap ks # {}

(* Mutant: pending intents are not looked at.                              *)
BeginRefsIgnoringJournal(ks) == Free(ks)

(* beginRefs succeeds: the planned locks are free and no pending intent    *)
(* overlaps them.                                                          *)
BeginRefs(ks) == Free(ks) /\ ~Overlaps(ks)

Move1(from, to) == [fs EXCEPT ![to] = fs[from], ![from] = None]

Intent(o, kind, source, target, session, node, row) ==
    [id |-> o, kind |-> kind, source |-> source, target |-> target,
     digest |-> None, previous |-> None, session |-> session, node |-> node,
     row |-> row, locks |-> {}]

(* A request that has its locks and its operation, before apply.           *)
Ready(p, op, ks) ==
    proc' = [proc EXCEPT ![p] = [pc |-> "journal", op |-> op, request |-> None,
                                 held |-> Held(p) \cup ks]]
----------------------------------------------------------------------------
(* Requests, up to the call of apply.  A request that returns an error     *)
(* before it changes anything is not a step.                               *)

(* CreateDir: the directory is made under tmp and looks at no row.         *)
CreateDir(p, n, o) ==
    /\ proc[p] = Idle /\ o \in Fresh
    /\ BeginRefs(Plan({Entry(n)}))
    /\ issued' = issued \cup {o}
    /\ fs' = [fs EXCEPT ![Tmp(o)] = Dir]
    /\ Ready(p, Intent(o, "create", Tmp(o), Entry(n), None, o, None), Plan({Entry(n)}))
    /\ UNCHANGED <<tables, crashes, edits>>

(* TouchFile: resolve finds nothing and write finds no row at all.         *)
TouchFile(p, n, o) ==
    /\ proc[p] = Idle /\ o \in Fresh
    /\ ~\E u \in Uuid : RowAt(u, Entry(n))
    /\ BeginRefs(Plan({Entry(n)}))
    /\ issued' = issued \cup {o}
    /\ fs' = [fs EXCEPT ![Tmp(o)] = Empty]
    /\ Ready(p, Intent(o, "create", Tmp(o), Entry(n), None, o, None), Plan({Entry(n)}))
    /\ UNCHANGED <<tables, crashes, edits>>

(* RestoreRevision: write with the bytes of version v and the current ETag *)
(* of the node, after the size and mtime check against the mount.          *)
RestoreRevision(p, u, v, o) ==
    /\ proc[p] = Idle /\ o \in Fresh
    /\ PublicRow(u) /\ ~nodes[u].dir
    /\ retained[v] # None /\ retained[v].kind = "version" /\ retained[v].node = u
    /\ fs[Version(v)] # None
    /\ fs[nodes[u].path] = nodes[u].data
    /\ BeginRefs(Plan({nodes[u].path}))
    /\ issued' = issued \cup {o}
    /\ fs' = [fs EXCEPT ![Tmp(o)] = fs[Version(v)]]
    /\ Ready(p, Intent(o, "replace", Tmp(o), nodes[u].path, None, u, nodes[u]),
             Plan({nodes[u].path}))
    /\ UNCHANGED <<tables, crashes, edits>>

Move(p, u, n, o) ==
    /\ proc[p] = Idle /\ o \in Fresh
    /\ PublicRow(u) /\ nodes[u].path # Entry(n)
    /\ BeginRefs(Plan({nodes[u].path, Entry(n)}))
    /\ issued' = issued \cup {o}
    /\ Ready(p, Intent(o, "move", nodes[u].path, Entry(n), None, u, nodes[u]),
             Plan({nodes[u].path, Entry(n)}))
    /\ UNCHANGED <<fs, tables, crashes, edits>>

Delete(p, u, o) ==
    /\ proc[p] = Idle /\ o \in Fresh
    /\ PublicRow(u)
    /\ BeginRefs(Plan({nodes[u].path}))
    /\ issued' = issued \cup {o}
    /\ Ready(p, Intent(o, "trash", nodes[u].path, Trash(o), None, u, nodes[u]),
             Plan({nodes[u].path}))
    /\ UNCHANGED <<fs, tables, crashes, edits>>

(* RestoreRecycleItem: the operation reuses the id of the trash item.      *)
RestoreRecycleItem(p, r, n) ==
    /\ proc[p] = Idle
    /\ retained[r] # None /\ retained[r].kind = "trash"
    /\ LET ks == Plan({Entry(n)}) \cup {NodeKey(retained[r].node)} IN
       /\ BeginRefs(ks)
       /\ Ready(p, Intent(r, "restore", Trash(r), Entry(n), None, retained[r].node,
                          retained[r].row), ks)
    /\ UNCHANGED <<fs, tables, issued, crashes, edits>>

(* start: the session remembers the file it is going to replace.           *)
StartUpload(s, n, b) ==
    /\ s \in Fresh
    /\ BeginRefs(Plan({Entry(n)}))
    /\ \A u \in Uuid : RowAt(u, Entry(n)) => ~nodes[u].dir
    /\ issued' = issued \cup {s}
    /\ \E x \in Uuid \cup {None} :
         /\ IF x = None THEN ~\E u \in Uuid : RowAt(u, Entry(n)) ELSE RowAt(x, Entry(n))
         /\ uploads' = [uploads EXCEPT ![s] =
              [name |-> n, expectedID |-> x,
               expectedETag |-> IF x = None THEN 0 ELSE nodes[x].etag,
               staged |-> b, result |-> None]]
    /\ UNCHANGED <<fs, nodes, operations, retained, completed, outbox, proc, crashes, edits>>

(* FinishUpload up to beginRefs: under the session lock, with no intent of *)
(* the session left and no receipt yet, the staged bytes are copied to a   *)
(* temporary file.  No resource lock is held during the copy.              *)
FinishUpload(p, s, o) ==
    /\ proc[p] = Idle /\ o \in Fresh
    /\ Free({SessionKey(s)})
    /\ \A q \in Pending : operations[q].session # s
    /\ uploads[s] # None /\ uploads[s].result = None
    /\ issued' = issued \cup {o}
    /\ fs' = [fs EXCEPT ![Tmp(o)] = uploads[s].staged]
    /\ proc' = [proc EXCEPT ![p] =
         [pc |-> "prepared", op |-> None,
          request |-> Intent(o, "create", Tmp(o), Entry(uploads[s].name), s, s, None),
          held |-> {SessionKey(s)}]]
    /\ UNCHANGED <<tables, crashes, edits>>

(* Mutant: only the id of the destination is compared.                     *)
ExpectedAnyETag(s, u) ==
    /\ uploads[s].expectedID = u
    /\ ~nodes[u].dir
    /\ fs[nodes[u].path] = nodes[u].data

(* write, after beginRefs: the destination must still be what the session  *)
(* expects.  An existing file becomes a replacement, an absent one a       *)
(* creation under the reserved NodeId.                                     *)
Expected(s, u) ==
    /\ uploads[s].expectedID = u /\ nodes[u].etag = uploads[s].expectedETag
    /\ ~nodes[u].dir
    /\ fs[nodes[u].path] = nodes[u].data

WriteUpload(p) ==
    /\ proc[p].pc = "prepared"
    /\ LET req == proc[p].request
           ks == Plan({req.target}) IN
       /\ BeginRefs(ks)
       /\ \/ /\ ~\E u \in Uuid : RowAt(u, req.target)
             /\ uploads[req.session].expectedID = None
             /\ Ready(p, req, ks)
          \/ \E u \in Uuid :
             /\ RowAt(u, req.target) /\ Expected(req.session, u)
             /\ Ready(p, [req EXCEPT !.kind = "replace", !.node = u, !.row = nodes[u]], ks)
    /\ UNCHANGED <<fs, tables, issued, crashes, edits>>

(* write gives up: lock wait timed out, the nested recovery failed, or the *)
(* destination changed.  The temporary file is removed.                    *)
AbandonUpload(p) ==
    /\ proc[p].pc = "prepared"
    /\ fs' = [fs EXCEPT ![proc[p].request.source] = None]
    /\ proc' = [proc EXCEPT ![p] = Idle]
    /\ UNCHANGED <<tables, issued, crashes, edits>>

----------------------------------------------------------------------------
(* apply.                                                                  *)

Applicable(op) ==
    /\ op.kind # "replace" => fs[op.target] = None
    /\ fs[op.source] # None
    /\ op.kind = "replace" => fs[op.target] # None

FirstStep(op) == IF op.kind = "replace" THEN "backup" ELSE "publish"

(* The intent as apply records it: fingerprints and lock manifest filled   *)
(* in.                                                                     *)
Recorded(op) ==
    [op EXCEPT !.digest = fs[op.source],
               !.previous = IF op.kind = "replace" THEN fs[op.target] ELSE None,
               !.locks = OperationLocks(op)]

(* The intent becomes durable.  From here on recovery owns it.             *)
Apply(p) ==
    /\ proc[p].pc = "journal"
    /\ LET op == Recorded(proc[p].op) IN
       /\ Applicable(op)
       /\ operations[op.id] = None
       /\ operations' = [operations EXCEPT ![op.id] = op]
       /\ proc' = [proc EXCEPT ![p].pc = FirstStep(op), ![p].op = op]
    /\ UNCHANGED <<fs, nodes, retained, uploads, completed, outbox, issued, crashes, edits>>

(* apply fails before the intent is durable.  write removes its temporary  *)
(* file, CreateDir leaves its temporary directory behind.                  *)
ApplyFails(p) ==
    /\ proc[p].pc = "journal"
    /\ LET src == proc[p].op.source IN
       fs' = IF src[1] = "tmp" /\ fs[src] # Dir THEN [fs EXCEPT ![src] = None] ELSE fs
    /\ proc' = [proc EXCEPT ![p] = Idle]
    /\ UNCHANGED <<tables, issued, crashes, edits>>

----------------------------------------------------------------------------
(* finish, for the process that journaled the operation and for recovery.  *)

(* Mutant: a backup made before a crash is not recognised.                 *)
BackupNotRepeatable(op) == fs[op.target] = op.previous

(* A replacement first moves the old file to versions, unless that was     *)
(* done before, and finds its fingerprint there.                           *)
BackupOK(op) ==
    IF fs[Version(op.id)] = None THEN fs[op.target] = op.previous
                                 ELSE fs[Version(op.id)] = op.previous

Backup(p) ==
    /\ proc[p].pc = "backup"
    /\ BackupOK(proc[p].op)
    /\ LET op == proc[p].op IN
       fs' = IF fs[Version(op.id)] = None THEN Move1(op.target, Version(op.id)) ELSE fs
    /\ proc' = [proc EXCEPT ![p].pc = "publish"]
    /\ UNCHANGED <<tables, issued, crashes, edits>>

(* Exactly one of source and target exists, and it has the fingerprint.    *)
PublishOK(op) ==
    \/ fs[op.source] = op.digest /\ fs[op.target] = None
    \/ fs[op.source] = None /\ fs[op.target] = op.digest

(* Mutant: a source that is still there is renamed, whatever has come to   *)
(* be at the target meanwhile.                                             *)
PublishOver(p) ==
    /\ proc[p].pc = "publish"
    /\ LET op == proc[p].op IN
       \/ fs[op.source] = op.digest /\ fs' = Move1(op.source, op.target)
       \/ fs[op.source] = None /\ fs[op.target] = op.digest /\ fs' = fs
    /\ proc' = [proc EXCEPT ![p].pc = "commit"]
    /\ UNCHANGED <<tables, issued, crashes, edits>>

Publish(p) ==
    /\ proc[p].pc = "publish"
    /\ PublishOK(proc[p].op)
    /\ LET op == proc[p].op IN
       fs' = IF fs[op.target] = None THEN Move1(op.source, op.target) ELSE fs
    /\ proc' = [proc EXCEPT ![p].pc = "commit"]
    /\ UNCHANGED <<tables, issued, crashes, edits>>

(* What the final Stat and the statements of the transaction need: the     *)
(* published file, primary keys, the UNIQUE path column, the ETag          *)
(* comparison and the session row.                                         *)
PathFree(op) == \A u \in Uuid : RowAt(u, op.target) => u = op.node

CommitOK(op) ==
    /\ op.kind \in {"create", "replace"} => fs[op.target] # None
    /\ op.kind = "replace" => Row(op.node) /\ nodes[op.node].etag = op.row.etag
    /\ op.kind = "create" => ~Row(op.node)
    /\ op.kind \in {"create", "move", "restore"} => PathFree(op)
    /\ op.kind \in {"replace", "trash"} => retained[op.id] = None
    /\ op.session # None => uploads[op.session] # None

(* Only the ETag of a file is ever compared, so the new ETags that         *)
(* refreshDirectories gives to directories are left out.                   *)

(* Mutant: size and mtime of the replaced file stay in the row.            *)
ReplacedETagOnly(op) == [nodes EXCEPT ![op.node].etag = @ + 1]

Replaced(op) ==
    LET row == nodes[op.node] IN
    [nodes EXCEPT ![op.node] = [row EXCEPT !.data = fs[op.target], !.etag = @ + 1, !.missing = FALSE]]

(* The row of a new directory has the size Stat gives it, not the 0 of a   *)
(* scan.                                                                   *)
Created(op) ==
    [nodes EXCEPT ![op.node] = [path |-> op.target, dir |-> op.digest = Dir,
                                data |-> Stat(fs[op.target]), etag |-> 1, missing |-> FALSE]]

Restored(op) ==
    LET row == nodes[op.node] IN
    IF row = None THEN nodes
    ELSE [nodes EXCEPT ![op.node] = [row EXCEPT !.path = op.target, !.etag = @ + 1, !.missing = FALSE]]

(* Rows at the source follow the rename, whichever node they describe.     *)
Relocated(op) ==
    [u \in Uuid |-> IF RowAt(u, op.source) THEN [nodes[u] EXCEPT !.path = op.target] ELSE nodes[u]]

Moved(op) ==
    [u \in Uuid |-> IF u = op.node /\ Row(u) THEN [Relocated(op)[u] EXCEPT !.etag = @ + 1]
                                             ELSE Relocated(op)[u]]

NodesAfter(op) ==
    CASE op.kind = "replace" -> Replaced(op)
      [] op.kind = "create"  -> Created(op)
      [] op.kind = "restore" -> Restored(op)
      [] op.kind = "move"    -> Moved(op)
      [] op.kind = "trash"   -> Relocated(op)

(* Mutant: the replaced version is not recorded.                           *)
RetainedWithoutVersions(op) ==
    CASE op.kind = "trash" ->
           [retained EXCEPT ![op.id] = [node |-> op.node, kind |-> "trash", row |-> op.row]]
      [] op.kind = "restore" -> [retained EXCEPT ![op.id] = None]
      [] OTHER -> retained

RetainedAfter(op) ==
    CASE op.kind = "replace" ->
           [retained EXCEPT ![op.id] = [node |-> op.node, kind |-> "version", row |-> op.row]]
      [] op.kind = "trash" ->
           [retained EXCEPT ![op.id] = [node |-> op.node, kind |-> "trash", row |-> op.row]]
      [] op.kind = "restore" -> [retained EXCEPT ![op.id] = None]
      [] OTHER -> retained

(* op.Node.Dir.                                                            *)
IsDir(op) == IF op.row = None THEN op.digest = Dir ELSE op.row.dir

EventKind(op) == IF op.kind = "trash" THEN "deleted" ELSE IF IsDir(op) THEN "directory" ELSE "file"

(* A process that is done with an operation: an upload that had to recover *)
(* somebody else's operation goes back to taking its locks.                *)
Resume(p) ==
    proc' = [proc EXCEPT ![p] =
        IF @.request = None THEN Idle
        ELSE [pc |-> "prepared", op |-> None, request |-> @.request,
              held |-> {SessionKey(@.request.session)}]]

Commit(p) ==
    /\ proc[p].pc = "commit"
    /\ CommitOK(proc[p].op)
    /\ LET op == proc[p].op IN
       /\ nodes' = NodesAfter(op)
       /\ retained' = RetainedAfter(op)
       /\ uploads' = IF op.session = None THEN uploads
                     ELSE [uploads EXCEPT ![op.session].result = op.node]
       /\ outbox' = [outbox EXCEPT ![<<op.node, EventKind(op), "finish">>] = @ + 1]
       /\ completed' = completed \cup {<<op.id, op.kind, op.node>>}
       /\ operations' = [operations EXCEPT ![op.id] = None]
    /\ Resume(p)
    /\ UNCHANGED <<fs, issued, crashes, edits>>

(* An error returned while the intent stays: locks are released, and an    *)
(* upload that was recovering for somebody else removes its own temporary  *)
(* file and fails.                                                         *)
Fail(p) ==
    /\ fs' = IF proc[p].request = None THEN fs
             ELSE [fs EXCEPT ![proc[p].request.source] = None]
    /\ proc' = [proc EXCEPT ![p] = Idle]
    /\ UNCHANGED <<tables, issued, edits>>

(* finish refuses to guess: a fingerprint differs, source and target are   *)
(* ambiguous, or a statement of the transaction fails.                     *)
RecoveryStopped(p) ==
    /\ \/ proc[p].pc = "backup" /\ ~BackupOK(proc[p].op)
       \/ proc[p].pc = "publish" /\ ~PublishOK(proc[p].op)
       \/ proc[p].pc = "commit" /\ ~CommitOK(proc[p].op)
    /\ Fail(p) /\ UNCHANGED crashes

----------------------------------------------------------------------------
(* recoverOne.                                                             *)

(* An intent is met in the list of pending operations: by recover, or by a *)
(* request whose planned locks it overlaps.                                *)
RecoverPick(p, o) ==
    /\ o \in Pending
    /\ \/ proc[p] = Idle
       \/ proc[p].pc = "prepared" /\ operations[o].locks \cap Plan({proc[p].request.target}) # {}
    /\ proc' = [proc EXCEPT ![p].pc = "picked", ![p].op = operations[o]]
    /\ UNCHANGED <<fs, tables, issued, crashes, edits>>

(* Mutant: the claim alone, without the resource locks of the manifest.    *)
ClaimOnly(op) == {OperationKey(op.id)}

(* The session, the claim on the operation and its resources.              *)
RecoveryKeys(op) ==
    op.locks \cup {OperationKey(op.id)}
             \cup (IF op.session = None THEN {} ELSE {SessionKey(op.session)})

(* Mutant: the operation found earlier is finished without a second look.  *)
RecoverStale(p) ==
    /\ proc[p].pc = "picked"
    /\ LET ks == RecoveryKeys(proc[p].op) IN
       /\ Free(ks)
       /\ proc' = [proc EXCEPT ![p].pc = FirstStep(proc[p].op), ![p].held = @ \cup ks]
    /\ UNCHANGED <<fs, tables, issued, crashes, edits>>

(* With all locks held the journal is read again: the operation may have   *)
(* been finished meanwhile.                                                *)
RecoverOne(p) ==
    /\ proc[p].pc = "picked"
    /\ LET o == proc[p].op.id
           ks == RecoveryKeys(proc[p].op) IN
       /\ Free(ks)
       /\ IF operations[o] = None THEN Resume(p)
          ELSE proc' = [proc EXCEPT ![p].pc = FirstStep(operations[o]),
                                    ![p].op = operations[o], ![p].held = @ \cup ks]
    /\ UNCHANGED <<fs, tables, issued, crashes, edits>>

RecoverTimeout(p) ==
    /\ proc[p].pc = "picked"
    /\ ~Free(RecoveryKeys(proc[p].op))
    /\ Fail(p) /\ UNCHANGED crashes

----------------------------------------------------------------------------
(* Everything else that touches the same state.                            *)

(* The process dies; the kernel drops its locks and the remote files stay  *)
(* as they are.                                                            *)
Crash(p) ==
    /\ proc[p] # Idle /\ crashes < MaxCrashes
    /\ crashes' = crashes + 1
    /\ proc' = [proc EXCEPT ![p] = Idle]
    /\ UNCHANGED <<fs, tables, issued, edits>>

(* A call of finish or recoverOne returns an error of the mount or of      *)
(* SQLite; the intent stays in the journal.                                *)
IOError(p) ==
    /\ proc[p].pc \in {"picked", "backup", "publish", "commit"} /\ crashes < MaxCrashes
    /\ crashes' = crashes + 1
    /\ Fail(p)

(* SetArbitraryMetadata and UnsetArbitraryMetadata give the node a new ETag. *)
EditMetadata(u) ==
    /\ PublicRow(u) /\ nodes[u].etag < MaxEtag
    /\ BeginRefs(Plan({nodes[u].path}))
    /\ nodes' = [nodes EXCEPT ![u].etag = @ + 1]
    /\ UNCHANGED <<fs, operations, retained, uploads, completed, outbox, proc, issued, crashes, edits>>

(* Terminate, Purge, and the cleanup of an expired session: all under the  *)
(* session lock and with no intent of the session left.                    *)
DropUpload(s) ==
    /\ uploads[s] # None
    /\ Free({SessionKey(s)})
    /\ \A o \in Pending : operations[o].session # s
    /\ uploads' = [uploads EXCEPT ![s] = None]
    /\ UNCHANGED <<fs, nodes, operations, retained, completed, outbox, proc, issued, crashes, edits>>

(* A trusted editor works directly on the mount while no request is        *)
(* running; with EditPending, also while an intent waits for recovery.     *)
Quiet == (\A p \in Proc : proc[p] = Idle) /\ (EditPending \/ Pending = {})

ExternalEdit(n, c) ==
    /\ Quiet /\ edits < MaxEdits
    /\ fs[Entry(n)] # c
    /\ edits' = edits + 1
    /\ fs' = [fs EXCEPT ![Entry(n)] = c]
    /\ UNCHANGED <<tables, proc, issued, crashes>>

(* scan and commitScan as one step (the epoch makes it so): only with no   *)
(* intent pending and with the root key exclusive.  new are the ids of the *)
(* entries imported, expired the missing rows whose grace period is over.  *)
Live(u, n) == RowAt(u, Entry(n)) /\ ~nodes[u].missing

Imported == {n \in Name : fs[Entry(n)] # None /\ ~\E u \in Uuid : Live(u, n)}

(* What becomes of the row of u.  A row that does not say what the scan    *)
(* sees gets a new ETag: one changed on the mount, and one of a directory  *)
(* that still has the size it was created with.                            *)
Rescanned(u, new, expired) ==
    LET row == nodes[u] IN
    IF \E n \in Imported : new[n] = u
    THEN LET n == CHOOSE m \in Imported : new[m] = u IN
         [path |-> Entry(n), dir |-> fs[Entry(n)] = Dir, data |-> fs[Entry(n)],
          etag |-> 1, missing |-> FALSE]
    ELSE IF ~Row(u) \/ row.path \notin Public THEN row
    ELSE IF fs[row.path] = None
         THEN IF ~row.missing THEN [row EXCEPT !.missing = TRUE]
              ELSE IF u \in expired THEN None ELSE row
    ELSE IF row.missing THEN None
    ELSE IF fs[row.path] = row.data THEN row
    ELSE [row EXCEPT !.data = fs[row.path], !.etag = @ + 1]

(* The event of a row the scan has added, changed or dropped for good.     *)
ScanEvent(u, row) ==
    IF row = None /\ Row(u) /\ fs[nodes[u].path] = None THEN {<<u, "deleted", "scan">>}
    ELSE IF row = None \/ row = nodes[u] \/ row.missing THEN {}
    ELSE {<<u, IF row.dir THEN "directory" ELSE "file", "scan">>}

Scan(new, expired) ==
    /\ Pending = {}
    /\ \A p \in Proc : proc[p].pc \in {"idle", "prepared", "picked"}
    /\ \A u \in Uuid, n \in Name : RowAt(u, Entry(n)) /\ fs[Entry(n)] # None
         => nodes[u].dir = (fs[Entry(n)] = Dir)
    /\ issued' = issued \cup {new[n] : n \in Imported}
    /\ nodes' = [u \in Uuid |-> Rescanned(u, new, expired)]
    /\ LET sent == UNION {ScanEvent(u, Rescanned(u, new, expired)) : u \in Uuid} IN
       outbox' = [e \in Event |-> IF e \in sent THEN outbox[e] + 1 ELSE outbox[e]]
    /\ UNCHANGED <<fs, operations, retained, uploads, completed, proc, crashes, edits>>

(* Distinct fresh ids for the imported entries.                            *)
FreshIds == {f \in [Imported -> Fresh] : \A m, n \in Imported : m # n => f[m] # f[n]}

----------------------------------------------------------------------------
Init ==
    /\ fs = [l \in Place |-> IF l \in Public /\ InitNodes[l[2]] # None
                             THEN InitData[l[2]] ELSE None]
    /\ nodes = [u \in Uuid |->
         IF \E n \in Name : InitNodes[n] = u
         THEN LET n == CHOOSE m \in Name : InitNodes[m] = u IN
              [path |-> Entry(n), dir |-> FALSE, data |-> InitData[n], etag |-> 1,
               missing |-> FALSE]
         ELSE None]
    /\ operations = [o \in Uuid |-> None]
    /\ retained = [o \in Uuid |-> None]
    /\ uploads = [s \in Uuid |-> None]
    /\ completed = {}
    /\ outbox = [e \in Event |-> 0]
    /\ proc = [p \in Proc |-> Idle]
    /\ issued = {u \in Uuid : \E n \in Name : InitNodes[n] = u}
    /\ crashes = 0 /\ edits = 0

Request(p) ==
    \/ \E o \in Uuid, n \in Name :
         CreateDir(p, n, o) \/ TouchFile(p, n, o) \/ RestoreRecycleItem(p, o, n)
    \/ \E u, o \in Uuid : Delete(p, u, o) \/ FinishUpload(p, u, o)
    \/ \E u, v, o \in Uuid : RestoreRevision(p, u, v, o)
    \/ \E u, o \in Uuid, n \in Name : Move(p, u, n, o)

Step(p) ==
    \/ WriteUpload(p) \/ AbandonUpload(p)
    \/ Apply(p) \/ ApplyFails(p)
    \/ Backup(p) \/ Publish(p) \/ Commit(p) \/ RecoveryStopped(p)
    \/ RecoverOne(p) \/ RecoverTimeout(p)

Next ==
    \/ \E p \in Proc : Request(p) \/ Step(p) \/ Crash(p) \/ IOError(p)
    \/ \E p \in Proc, o \in Uuid : RecoverPick(p, o)
    \/ \E s \in Uuid, n \in Name, b \in Bytes : StartUpload(s, n, b)
    \/ \E u \in Uuid : EditMetadata(u) \/ DropUpload(u)
    \/ \E n \in Name, c \in Bytes \cup {None} : ExternalEdit(n, c)
    \/ \E new \in FreshIds, expired \in SUBSET {u \in Uuid : Row(u) /\ nodes[u].missing} :
         Scan(new, expired)

Spec == Init /\ [][Next]_vars

(* The maintenance loop of the provider with watch set calls recover on    *)
(* every tick, and recover tries every pending operation; a request that   *)
(* is running takes its next step.                                         *)
Fairness ==
    /\ \A p \in Proc : WF_vars(Step(p))
    /\ \A o \in Uuid : SF_vars(\E p \in Proc : RecoverPick(p, o))

FairSpec == Spec /\ Fairness

----------------------------------------------------------------------------
(* Properties.                                                             *)

(* All tables, the mount and the processes have the shapes declared above. *)
TypeOK ==
    /\ fs \in [Place -> Content \cup {None}]
    /\ nodes \in [Uuid -> NodeRow \cup {None}]
    /\ operations \in [Uuid -> Operation \cup {None}]
    /\ retained \in [Uuid -> RetainedRow \cup {None}]
    /\ uploads \in [Uuid -> Upload \cup {None}]
    /\ completed \in SUBSET (Uuid \X Kind \X Uuid)
    /\ outbox \in [Event -> Nat]
    /\ proc \in [Proc -> ProcState]
    /\ issued \in SUBSET Uuid
    /\ crashes \in Nat /\ edits \in Nat

Finishing(p) == proc[p].pc \in {"backup", "publish", "commit"}

(* Lock manifests of different pending intents are disjoint, so they can   *)
(* be recovered in any order and one that is stuck has no lock that the    *)
(* recovery of another one needs.                                          *)
IntentsIndependent ==
    \A o1, o2 \in Pending : o1 # o2 => operations[o1].locks \cap operations[o2].locks = {}

(* Whoever is inside finish is alone with its intent: the intent is still  *)
(* in the journal as the process knows it, no other process finishes it,   *)
(* and no other request that has its locks has one of the manifest ("Live  *)
(* publishers already own all resource locks", recoverOne).                *)
FinisherAlone ==
    \A p \in Proc : Finishing(p) =>
        /\ operations[proc[p].op.id] = proc[p].op
        /\ \A q \in Proc \ {p} :
             /\ Finishing(q) => proc[q].op.id # proc[p].op.id
             /\ proc[q].pc = "journal" => Held(q) \cap proc[p].op.locks = {}

(* While a replacement is pending nothing gives its node another ETag,     *)
(* however long recovery takes: finish never meets "pending replacement    *)
(* metadata revision changed".                                             *)
RevisionStable ==
    \A o \in Pending : operations[o].kind = "replace" =>
        Row(operations[o].node) /\ nodes[operations[o].node].etag = operations[o].row.etag

(* A pending upload still has its session row, without a receipt: neither  *)
(* Terminate nor the cleanup removes it, and no session publishes twice.   *)
UploadPublishesOnce ==
    \A o \in Pending : operations[o].session # None =>
        /\ uploads[operations[o].session] # None
        /\ uploads[operations[o].session].result = None

(* What the journal promises to whoever finishes or recovers an intent.    *)
IntentsSafe == IntentsIndependent /\ FinisherAlone /\ RevisionStable /\ UploadPublishesOnce

(* Every finished operation has left exactly one event of its own, however *)
(* often it was interrupted, retried or met by several recoveries at once. *)
(* The events of scans (of edits, and of a created directory whose size    *)
(* the next scan replaces) are counted apart.                              *)
OneEventPerCompletion ==
    \A u \in Uuid :
        outbox[<<u, "file", "finish">>] + outbox[<<u, "directory", "finish">>]
            + outbox[<<u, "deleted", "finish">>] = Cardinality({c \in completed : c[3] = u})

(* Of the uploads that set out to replace the same revision of a file, one *)
(* at most is published ("Competing writers against the same ETag produce  *)
(* one winner").                                                           *)
OneWinner ==
    \A s, t \in Uuid : uploads[s] # None /\ uploads[t] # None /\ s # t
        /\ uploads[s].expectedID # None
        /\ uploads[s].expectedID = uploads[t].expectedID
        /\ uploads[s].expectedETag = uploads[t].expectedETag
        => uploads[s].result = None \/ uploads[t].result = None

(* Without edits behind the driver's back, every check of finish succeeds  *)
(* in every process at every moment: recovery never stops by itself.       *)
RecoveryNeverStops ==
    \A p \in Proc :
        /\ proc[p].pc = "backup" => BackupOK(proc[p].op)
        /\ proc[p].pc = "publish" => PublishOK(proc[p].op)
        /\ proc[p].pc = "commit" => CommitOK(proc[p].op)

(* What a reader gets under shared locks: with no intent pending on a node *)
(* and nobody holding its keys, the mount has at its path exactly the      *)
(* content its row describes, as Stat or as a scan describes it, and every *)
(* version that the tables list is there.                                  *)
MetadataMatchesMount ==
    /\ \A u \in Uuid : Row(u) =>
         LET ks == {nodes[u].path, NodeKey(u)} IN
         Free(ks) /\ ~Overlaps(ks) => nodes[u].data \in {fs[nodes[u].path], Stat(fs[nodes[u].path])}
    /\ \A v \in Uuid : retained[v] # None /\ retained[v].kind = "version" =>
         fs[Version(v)] = retained[v].row.data

(* The driver never destroys content outside tmp: what leaves a place goes *)
(* to a place that was empty, and no file is written over.                 *)
DriverNeverDestroys ==
    [][edits' = edits => \A l \in Place : l[1] # "tmp" /\ fs[l] # None /\ fs'[l] # fs[l] =>
          \E k \in Place : fs[k] = None /\ fs'[k] = fs[l] /\ fs'[l] = None]_vars

(* The content a publication replaces is kept as a version of its node.    *)
OverwritesAreRetained ==
    [][\A u \in Uuid : Row(u) /\ nodes'[u] # None /\ operations' # operations
                       /\ nodes'[u].data # nodes[u].data =>
          \E v \in Uuid : retained[v] = None /\ retained'[v] # None
                          /\ retained'[v].node = u /\ retained'[v].row.data = nodes[u].data
                          /\ fs'[Version(v)] = nodes[u].data]_vars

(* Every intent is eventually resolved.                                    *)
IntentsResolve == \A o \in Uuid : o \in Pending ~> o \notin Pending

(* The mount is in a state that finish itself brings about: nothing about  *)
(* the fingerprints of the intent is ambiguous.                            *)
Unambiguous(op) ==
    \/ /\ op.kind = "replace" /\ fs[Version(op.id)] = None
       /\ fs[op.target] = op.previous /\ fs[op.source] = op.digest
    \/ /\ op.kind = "replace" => fs[Version(op.id)] = op.previous
       /\ PublishOK(op)

(* "Pending publication intents are recovered automatically, with          *)
(* continued retries when recovery remains incomplete": an intent either   *)
(* gets resolved or becomes ambiguous.                                     *)
UnambiguousIntentsResolve ==
    \A o \in Uuid : o \in Pending ~> (o \notin Pending \/ ~Unambiguous(operations[o]))

(* "A file observed missing and subsequently recreated also receives a new *)
(* ID": a row that scan has marked missing never describes a file again.   *)
RecreatedGetsNewId ==
    [][\A u \in Uuid : PublicRow(u)' => ~(Row(u) /\ nodes[u].missing)]_vars
============================================================================
