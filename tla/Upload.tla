------------------------------- MODULE Upload -------------------------------
(***************************************************************************)
(* One upload session of remoteposix (upload.go, upload_cleanup.go): its   *)
(* row in the database, its staging file, the publication it ends in, and  *)
(* the requests of several workers that take the session lock one after    *)
(* the other: chunks, declared lengths, completion, termination, readers,  *)
(* the administrator's purge and the maintenance that cleans up.           *)
(*                                                                         *)
(* The file of the client has the byte i at place i; 0 is a byte that was  *)
(* never written.  What a publication does to the tree is in Publication;  *)
(* here it may be refused or succeed.  A simple upload is a chunk, a       *)
(* declared length and a completion, with the lock given back in between.  *)
(***************************************************************************)
EXTENDS Integers, Sequences

CONSTANTS
    Worker, None,
    FileLen,    \* length of the client's file
    Deferred,   \* whether the upload starts without a length
    MaxRequest, MaxCrash   \* bounds

VARIABLES
    row,        \* table uploads: offset, size (None when deferred), result
    expired,    \* whether 24 hours have passed since the session was created
    stage,      \* the staging file
    synced,     \* how many of its bytes are on disk
    pending,    \* journaled operations of this session
    published,  \* history: what was published, and the length declared then
    view,       \* what a reader of the staging file was promised
    holder,     \* the session lock
    pc, kind,   \* of each worker: where it is, in which request
    session,    \* the row it read
    body,       \* length of the chunk in its request
    tmp,        \* its copy on the mount
    started, requests, crashes

disk == <<stage, synced>>
db == <<row, pending, published>>
local == <<kind, session, body, tmp>>
bounds == <<started, requests, crashes>>
vars == <<db, disk, expired, view, holder, pc, local, bounds>>

Bytes(n) == [i \in 1..n |-> i]
Least(a, b) == IF a < b THEN a ELSE b
Goto(w, l) == pc' = [pc EXCEPT ![w] = l]
Kinds == {"write", "declare", "finish", "terminate", "purge", "read", "cleanup", "recover"}

(* The request of w is over, in whatever way; its copy is removed unless a *)
(* journaled operation owns it.                                            *)
End(w) ==
    /\ Goto(w, "idle")
    /\ holder' = IF holder = w THEN None ELSE holder
    /\ kind' = [kind EXCEPT ![w] = None] /\ session' = [session EXCEPT ![w] = None]
    /\ body' = [body EXCEPT ![w] = 0] /\ tmp' = [tmp EXCEPT ![w] = None]

----------------------------------------------------------------------------
(* start creates the staging file, then the row.                           *)

CreateStage(w) ==
    /\ pc[w] = "idle" /\ ~started
    /\ started' = TRUE
    /\ stage' = <<>> /\ synced' = 0
    /\ Goto(w, "starting")
    /\ UNCHANGED <<db, expired, view, holder, local, requests, crashes>>

SaveNew(w) ==
    /\ pc[w] = "starting"
    /\ row' = [offset |-> 0, size |-> IF Deferred THEN None ELSE FileLen, result |-> FALSE]
    /\ Goto(w, "idle")
    /\ UNCHANGED <<pending, published, disk, expired, view, holder, local, bounds>>

----------------------------------------------------------------------------
(* beginSession, and the lock that the clean-up takes for itself.          *)

(* Defect: the lock is not waited for.                                     *)
LockAnyway(w, k, n) ==
    /\ pc[w] = "idle" /\ started
    /\ k \in {"cleanup", "recover"} \/ requests < MaxRequest
    /\ requests' = IF k \in {"cleanup", "recover"} THEN requests ELSE requests + 1
    /\ holder' = w
    /\ kind' = [kind EXCEPT ![w] = k] /\ body' = [body EXCEPT ![w] = n]
    /\ Goto(w, IF k = "cleanup" THEN "cleanup" ELSE "locked")
    /\ UNCHANGED <<db, disk, expired, view, session, tmp, started, crashes>>

Lock(w, k, n) ==
    /\ pc[w] = "idle" /\ started
    /\ k \in {"cleanup", "recover"} \/ requests < MaxRequest
    /\ holder = None
    /\ requests' = IF k \in {"cleanup", "recover"} THEN requests ELSE requests + 1
    /\ holder' = w
    /\ kind' = [kind EXCEPT ![w] = k] /\ body' = [body EXCEPT ![w] = n]
    /\ Goto(w, IF k = "cleanup" THEN "cleanup" ELSE "locked")
    /\ UNCHANGED <<db, disk, expired, view, session, tmp, started, crashes>>

(* The final transaction reads the row of the session and sets its result. *)
Committed(content) ==
    /\ row # None
    /\ row' = [row EXCEPT !.result = TRUE]
    /\ published' = Append(published, [content |-> content, size |-> row.size])

Recover(w) ==
    /\ pc[w] = "locked"
    /\ \/ /\ pending # <<>>
          /\ Committed(Head(pending))
          /\ pending' = Tail(pending)
          /\ UNCHANGED pc
       \/ /\ pending = <<>>
          /\ Goto(w, "session")
          /\ UNCHANGED db
    /\ UNCHANGED <<disk, expired, view, holder, local, bounds>>

(* The recovery fails, at a mount that is away for instance.               *)
RecoverFails(w) ==
    /\ pc[w] = "locked" /\ pending # <<>> /\ crashes < MaxCrash
    /\ crashes' = crashes + 1
    /\ End(w)
    /\ UNCHANGED <<db, disk, expired, view, started, requests>>

(* The row as the request finds it; purge does not look at it.             *)
ReadSession(w) ==
    /\ pc[w] = "session"
    /\ \/ /\ (row # None /\ ~expired) \/ kind[w] = "purge"
          /\ kind[w] # "recover"
          /\ session' = [session EXCEPT ![w] = row]
          /\ Goto(w, kind[w])
          /\ UNCHANGED <<holder, kind, body, tmp>>
       \/ /\ ((row = None \/ expired) /\ kind[w] # "purge") \/ kind[w] = "recover"
          /\ End(w)
    /\ UNCHANGED <<db, disk, expired, view, bounds>>

----------------------------------------------------------------------------
(* WriteChunk                                                              *)

Deferring(w) == session[w].size = None

(* Truncate also lengthens a file that is too short.                       *)
OpenStage(w, offset) ==
    /\ pc[w] = "write" /\ stage # None /\ ~session[w].result /\ offset = session[w].offset
    /\ stage' = [i \in 1..offset |-> IF i <= Len(stage) THEN stage[i] ELSE 0]
    /\ synced' = Least(synced, offset)
    /\ Goto(w, "copy")
    /\ UNCHANGED <<db, expired, view, holder, local, bounds>>

RefuseChunk(w, offset) ==
    /\ pc[w] = "write"
    /\ stage = None \/ session[w].result \/ offset # session[w].offset
    /\ End(w)
    /\ UNCHANGED <<db, disk, expired, view, bounds>>

(* At most one byte more than the declared size is read.                   *)
Readable(w) == IF Deferring(w) THEN body[w] ELSE Least(body[w], session[w].size - session[w].offset + 1)

Copied(w, n) ==
    stage' = [i \in 1..(session[w].offset + n) |-> IF i <= session[w].offset THEN stage[i] ELSE i]

(* The client may stop sending: the bytes stay, the offset does not move.  *)
Copy(w, n) ==
    /\ pc[w] = "copy" /\ n <= Readable(w)
    /\ Copied(w, n)
    /\ \/ /\ n = Readable(w)
          /\ Goto(w, "check")
          /\ body' = [body EXCEPT ![w] = n]
          /\ UNCHANGED <<holder, kind, session, tmp>>
       \/ /\ n < Readable(w)
          /\ End(w)
    /\ UNCHANGED <<db, synced, expired, view, bounds>>

TooLong(w) == ~Deferring(w) /\ session[w].offset + body[w] > session[w].size

CheckSize(w) ==
    /\ pc[w] = "check"
    /\ \/ /\ ~TooLong(w)
          /\ Goto(w, "sync")
          /\ UNCHANGED <<disk, holder, local>>
       \/ /\ TooLong(w)
          /\ stage' = SubSeq(stage, 1, session[w].offset)
          /\ UNCHANGED synced
          /\ End(w)
    /\ UNCHANGED <<db, expired, view, bounds>>

(* Defect: the file is not synced before the offset is saved.              *)
SyncLater(w) ==
    /\ pc[w] = "sync"
    /\ Goto(w, "save")
    /\ UNCHANGED <<db, disk, expired, view, holder, local, bounds>>

Sync(w) ==
    /\ pc[w] = "sync"
    /\ synced' = Len(stage)
    /\ Goto(w, "save")
    /\ UNCHANGED <<db, stage, expired, view, holder, local, bounds>>

SaveOffset(w) ==
    /\ pc[w] = "save"
    /\ row' = [session[w] EXCEPT !.offset = @ + body[w]]
    /\ End(w)
    /\ UNCHANGED <<pending, published, disk, expired, view, bounds>>

----------------------------------------------------------------------------
(* DeclareLength, GetReader                                                *)

DeclareLength(w, size) ==
    /\ pc[w] = "declare"
    /\ \/ /\ Deferring(w) /\ size >= session[w].offset
          /\ row' = [session[w] EXCEPT !.size = size]
       \/ /\ ~(Deferring(w) /\ size >= session[w].offset)
          /\ UNCHANGED row
    /\ End(w)
    /\ UNCHANGED <<pending, published, disk, expired, view, bounds>>

GetReader(w) ==
    /\ pc[w] = "read"
    /\ view' = IF stage = None THEN view ELSE session[w].offset
    /\ End(w)
    /\ UNCHANGED <<db, disk, expired, bounds>>

----------------------------------------------------------------------------
(* FinishUpload                                                            *)

Complete(w) == ~Deferring(w) /\ session[w].offset = session[w].size

FinishAgain(w) ==
    /\ pc[w] = "finish" /\ session[w].result
    /\ Goto(w, "unlink")
    /\ UNCHANGED <<db, disk, expired, view, holder, local, bounds>>

(* Incomplete, no staging file, or more bytes in it than were saved.       *)
RefuseFinish(w) ==
    /\ pc[w] = "finish" /\ ~session[w].result
    /\ ~(Complete(w) /\ stage # None /\ Len(stage) = session[w].size)
    /\ End(w)
    /\ UNCHANGED <<db, disk, expired, view, bounds>>

Prepare(w) ==
    /\ pc[w] = "finish" /\ ~session[w].result
    /\ Complete(w) /\ stage # None /\ Len(stage) = session[w].size
    /\ tmp' = [tmp EXCEPT ![w] = stage]
    /\ Goto(w, "prepared")
    /\ UNCHANGED <<db, disk, expired, view, holder, kind, session, body, bounds>>

(* The session has expired, the parent or the permission is gone, the      *)
(* destination has changed, or a lock was not free in time.                *)
Refuse(w) ==
    /\ pc[w] = "prepared"
    /\ End(w)
    /\ UNCHANGED <<db, disk, expired, view, bounds>>

Journal(w) ==
    /\ pc[w] = "prepared" /\ row # None /\ ~expired
    /\ pending' = Append(pending, tmp[w])
    /\ Goto(w, "journaled")
    /\ UNCHANGED <<row, published, disk, expired, view, holder, local, bounds>>

Commit(w) ==
    /\ pc[w] = "journaled"
    /\ Committed(tmp[w])
    /\ pending' = SubSeq(pending, 1, Len(pending) - 1)
    /\ Goto(w, "unlink")
    /\ UNCHANGED <<disk, expired, view, holder, local, bounds>>

RemoveCompletedStage(w) ==
    /\ pc[w] = "unlink"
    /\ stage' = None /\ UNCHANGED synced
    /\ End(w)
    /\ UNCHANGED <<db, expired, view, bounds>>

----------------------------------------------------------------------------
(* Terminate, Purge and cleanupUpload: the file first, then the row.       *)

RemoveStage(w) ==
    /\ pc[w] \in {"terminate", "purge"}
    /\ stage' = None /\ UNCHANGED synced
    /\ Goto(w, "delete")
    /\ UNCHANGED <<db, expired, view, holder, local, bounds>>

DeleteRow(w) ==
    /\ pc[w] = "delete"
    /\ row' = None
    /\ End(w)
    /\ UNCHANGED <<pending, published, disk, expired, view, bounds>>

Disposable == row # None /\ (row.result \/ expired)

(* Defect: the journal is not looked at.                                   *)
CleanupBlind(w) ==
    /\ pc[w] = "cleanup"
    /\ \/ /\ Disposable
          /\ stage' = None /\ UNCHANGED synced
          /\ IF expired THEN Goto(w, "delete") /\ UNCHANGED <<holder, local>> ELSE End(w)
       \/ ~Disposable /\ End(w) /\ UNCHANGED disk
    /\ UNCHANGED <<db, expired, view, bounds>>

Cleanup(w) ==
    /\ pc[w] = "cleanup"
    /\ \/ /\ pending = <<>> /\ Disposable
          /\ stage' = None /\ UNCHANGED synced
          /\ IF expired THEN Goto(w, "delete") /\ UNCHANGED <<holder, local>> ELSE End(w)
       \/ ~(pending = <<>> /\ Disposable) /\ End(w) /\ UNCHANGED disk
    /\ UNCHANGED <<db, expired, view, bounds>>

----------------------------------------------------------------------------
Expire == row # None /\ ~expired /\ expired' = TRUE /\ UNCHANGED <<db, disk, view, holder, pc, local, bounds>>

Crash(w) ==
    /\ pc[w] # "idle" /\ crashes < MaxCrash
    /\ crashes' = crashes + 1
    /\ End(w)
    /\ UNCHANGED <<db, disk, expired, view, started, requests>>

(* The host loses power: the database keeps what was committed, of the     *)
(* staging file what was not synced may be cut off or come back as zeros.  *)
PowerLoss ==
    /\ crashes < MaxCrash /\ crashes' = crashes + 1
    /\ IF stage = None THEN UNCHANGED stage
       ELSE \E n \in Least(synced, Len(stage))..Len(stage) :
              stage' = [i \in 1..n |-> IF i <= synced THEN stage[i] ELSE 0]
    /\ pc' = [w \in Worker |-> "idle"] /\ holder' = None /\ view' = None
    /\ kind' = [w \in Worker |-> None] /\ session' = [w \in Worker |-> None]
    /\ body' = [w \in Worker |-> 0] /\ tmp' = [w \in Worker |-> None]
    /\ UNCHANGED <<db, synced, expired, started, requests>>

Init ==
    /\ row = None /\ expired = FALSE /\ stage = None /\ synced = 0
    /\ pending = <<>> /\ published = <<>> /\ view = None /\ holder = None
    /\ pc = [w \in Worker |-> "idle"] /\ kind = [w \in Worker |-> None]
    /\ session = [w \in Worker |-> None] /\ body = [w \in Worker |-> 0] /\ tmp = [w \in Worker |-> None]
    /\ started = FALSE /\ requests = 0 /\ crashes = 0

Step(w) ==
    \/ SaveNew(w) \/ Recover(w) \/ ReadSession(w) \/ CheckSize(w) \/ Sync(w) \/ SaveOffset(w)
    \/ \E offset \in 0..FileLen : OpenStage(w, offset) \/ RefuseChunk(w, offset)
    \/ \E n \in 0..(FileLen + 1) : Copy(w, n) \/ DeclareLength(w, n)
    \/ GetReader(w) \/ FinishAgain(w) \/ RefuseFinish(w) \/ Prepare(w) \/ Refuse(w) \/ Journal(w)
    \/ Commit(w) \/ RemoveCompletedStage(w) \/ RemoveStage(w) \/ DeleteRow(w) \/ Cleanup(w)

(* The maintenance lists the sessions to clean up and the journal.         *)
Maintain(w) == (Disposable /\ Lock(w, "cleanup", 0)) \/ (pending # <<>> /\ Lock(w, "recover", 0))

Next ==
    \/ \E w \in Worker : Step(w) \/ Maintain(w) \/ CreateStage(w) \/ RecoverFails(w) \/ Crash(w)
    \/ \E w \in Worker, k \in Kinds \ {"cleanup", "recover"}, n \in 0..(FileLen + 1) :
          (k = "write" \/ n = 0) /\ Lock(w, k, n)
    \/ Expire \/ PowerLoss

Spec == Init /\ [][Next]_vars

----------------------------------------------------------------------------
(* The rows and files have their types; whoever is in a request has the    *)
(* session lock.                                                           *)
TypeOK ==
    /\ row = None \/ row \in [offset : 0..(FileLen + 1), size : {None} \cup 0..(FileLen + 1), result : BOOLEAN]
    /\ stage = None \/ (Len(stage) <= 2 * FileLen + 2 /\ \A i \in 1..Len(stage) : stage[i] \in {0, i})
    /\ \A w \in Worker : pc[w] \notin {"idle", "starting"} => holder = w

(* Whatever was cut short, by a client, a crash or a power failure: the    *)
(* bytes up to the saved offset are in the staging file, on disk           *)
(* (upload.go:246-271).                                                    *)
DurablePrefix ==
    row # None /\ stage # None =>
        /\ Len(stage) >= row.offset /\ synced >= row.offset
        /\ SubSeq(stage, 1, row.offset) = Bytes(row.offset)

(* What is published is the client's file, whole and of the declared       *)
(* length, and once for a session however often completion is repeated.    *)
PublishedWhole ==
    \A k \in 1..Len(published) : published[k].content = Bytes(published[k].size)
PublishedOnce == Len(published) + Len(pending) <= 1

(* "skips any session referenced by pending recovery operations": the row  *)
(* that the final transaction needs is there as long as the operation is.  *)
PendingHasSession == pending # <<>> => row # None

(* A client that asks for the offset never has to send a byte again that   *)
(* it was told is stored.                                                  *)
OffsetGrows == row # None /\ row' # None => row'.offset >= row.offset

(* "Upload-stage readers see only the durable offset captured when opened",*)
(* and those bytes stay under their feet.                                  *)
ReaderStable == view # None /\ stage # None => Len(stage) >= view /\ SubSeq(stage, 1, view) = Bytes(view)

(* A journaled upload is published by somebody.  "Startup and minute-based *)
(* maintenance remove leftover completed staging copies and purge expired  *)
(* sessions".                                                              *)
CleanedUp ==
    /\ pending = <<>>
    /\ row # None => ~expired /\ (row.result => stage = None)
=============================================================================
