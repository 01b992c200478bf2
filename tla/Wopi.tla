-------------------------------- MODULE Wopi --------------------------------
(***************************************************************************)
(* The collaboration service: the WOPI requests that document servers send *)
(* for one document (services/collaboration/pkg/connector), over a storage *)
(* provider that other clients write to as well.                           *)
(*                                                                         *)
(* A handler is a sequence of calls of the provider.  Each call is one     *)
(* step; between two calls anything may happen: another request, the       *)
(* expiration of the lock, the end of the postprocessing, a write of a     *)
(* client that takes no lock.  A step ends with the decision the handler   *)
(* takes from the answer of its call.                                      *)
(*                                                                         *)
(* The provider is external: its answers are those the service's handlers  *)
(* distinguish.  A lock file of the provider stays after the lock expired, *)
(* until a call that reads it removes it; RefreshLock and Unlock look at   *)
(* the lock file and not at the expiration.                                *)
(***************************************************************************)
EXTENDS Integers, FiniteSets

CONSTANTS
    Editor,         \* the document servers, each with a lock id of its own
    JsonEditor,     \* those that send the lock id inside a JSON document
    Viewer,         \* those whose session is in a read only or view only mode
    Slot,           \* requests in flight at the same time
    New,            \* other nodes of the folder, most of them still to come
    Fresh,          \* names that a prefix taken from the clock can give
    Ops,            \* the operations the document servers send
    Lengths,        \* content lengths of the request bodies, -1 when unknown
    MaxRequests,    \* bound on the number of requests
    MaxVersion,     \* foreign writes stop at this version
    None            \* no lock, no name, no file

VARIABLES
    node,       \* the files of the folder: Id -> record
    version,    \* mtime of the last write
    req,        \* Slot -> request in flight, or its answer
    sent,       \* requests sent so far
    had         \* history: the locks the document had while the request ran

vars == <<node, version, req, sent, had>>

Id == {"doc"} \cup New
Name == {"doc", "target"} \cup Fresh
Put == {"PutFile", "PutRelativeSuggested", "PutRelativeRelative"}

\* A header is what a document server sends, a lock id what ParseLock makes
\* of it: the plain id, taken out of the JSON document if it is in one.
Header(e) == IF e \in JsonEditor THEN <<"json", e>> ELSE <<"plain", e>>
ParseLock(h) == IF h = None THEN None ELSE <<"plain", h[2]>>
LockIds == {"json", "plain"} \X Editor

----------------------------------------------------------------------------
(* The storage provider (external).                                         *)

Gone == [name |-> None, ver |-> 0, full |-> FALSE, lock |-> None,
         live |-> FALSE, busy |-> FALSE]
Exists(i) == i # None /\ node[i].name # None
At(name) == IF \E i \in Id : node[i].name = name
            THEN CHOOSE i \in Id : node[i].name = name ELSE None

\* the lock that reading it finds, and the file once it was read
LockOf(i) == IF Exists(i) /\ node[i].live THEN node[i].lock ELSE None
Read(i) == IF Exists(i) /\ LockOf(i) = None
           THEN [node EXCEPT ![i].lock = None, ![i].live = FALSE] ELSE node

SetLock(i, id) ==
    CASE ~Exists(i) -> [code |-> "NOT_FOUND", node |-> node]
      [] LockOf(i) # None -> [code |-> "FAILED_PRECONDITION", node |-> node]
      [] OTHER -> [code |-> "OK",
                   node |-> [node EXCEPT ![i].lock = id, ![i].live = TRUE]]

RefreshLockCall(i, id, old) ==
    CASE ~Exists(i) -> [code |-> "NOT_FOUND", node |-> node]
      [] node[i].lock = None -> [code |-> "FAILED_PRECONDITION", node |-> node]
      [] node[i].lock # (IF old = None THEN id ELSE old) ->
            [code |-> "ABORTED", node |-> node]
      [] OTHER -> [code |-> "OK",
                   node |-> [node EXCEPT ![i].lock = id, ![i].live = TRUE]]

UnlockCall(i, id) ==
    CASE ~Exists(i) -> [code |-> "NOT_FOUND", node |-> node]
      [] node[i].lock = None -> [code |-> "ABORTED", node |-> node]
      [] node[i].lock # id -> [code |-> "LOCKED", node |-> node]
      [] OTHER -> [code |-> "OK",
                   node |-> [node EXCEPT ![i].lock = None, ![i].live = FALSE]]

CheckLock(i, id) ==
    CASE LockOf(i) = id -> "OK"
      [] LockOf(i) # None /\ id = None -> "LOCKED"
      [] OTHER -> "ABORTED"

DeleteCall(i, id) ==
    CASE ~Exists(i) -> [code |-> "NOT_FOUND", node |-> node]
      [] node[i].busy -> [code |-> "TOO_EARLY", node |-> Read(i)]
      [] CheckLock(i, id) # "OK" -> [code |-> CheckLock(i, id), node |-> Read(i)]
      [] OTHER -> [code |-> "OK", node |-> [node EXCEPT ![i] = Gone]]

MoveCall(i, name, id) ==
    CASE ~Exists(i) -> [code |-> "NOT_FOUND", node |-> node]
      [] At(name) # None -> [code |-> "ALREADY_EXISTS", node |-> node]
      [] CheckLock(i, id) # "OK" -> [code |-> CheckLock(i, id), node |-> Read(i)]
      [] node[i].busy -> [code |-> "TOO_EARLY", node |-> Read(i)]
      [] OTHER -> [code |-> "OK", node |-> [Read(i) EXCEPT ![i].name = name]]

\* the node that is created next, if the bound leaves one
NextNode == {i \in New : node[i] = Gone /\ i = CHOOSE j \in New : node[j] = Gone}

Init ==
    /\ node \in {[i \in Id |->
                    IF i = "doc"
                    THEN [Gone EXCEPT !.name = "doc", !.ver = 1, !.full = f,
                                      !.lock = l, !.live = l # None]
                    ELSE IF i = o
                         THEN [Gone EXCEPT !.name = "target", !.ver = 1, !.full = TRUE]
                         ELSE Gone] : f \in BOOLEAN, o \in {None} \cup {i \in New : i = CHOOSE j \in New : TRUE},
                                      l \in {None} \cup {ParseLock(Header(e)) : e \in Editor}}
    /\ version = 1
    /\ req = [s \in Slot |-> None]
    /\ sent = 0
    /\ had = [s \in Slot |-> {}]

----------------------------------------------------------------------------
(* The requests.                                                            *)

Running(s) == req[s] # None /\ req[s].pc # "done"
In(s, op, pc) == Running(s) /\ req[s].op \in op /\ req[s].pc = pc

\* the history of the locks of the document, after every step
Remember ==
    had' = [s \in Slot |->
               IF ~Running(s) /\ req'[s] = req[s] THEN had[s]
               ELSE (IF Running(s) THEN had[s] ELSE {})
                    \cup {IF node'["doc"].live THEN node'["doc"].lock ELSE None}]

Answer(s, code, lock) ==
    req' = [req EXCEPT ![s].pc = "done", ![s].code = code, ![s].lock = lock,
                       ![s].st = None, ![s].name = None, ![s].upload = None]
Continue(s, pc, st) == req' = [req EXCEPT ![s].pc = pc, ![s].st = st]

\* HttpAdapter: DeleteFile and RenameFile pass the header on as it came, the
\* other operations pass the lock id of the parser.
LockIdOf(op, h) == IF op \in {"Delete", "Rename"} THEN h ELSE ParseLock(h)

Request(op, e, h, old, len) ==
    [op |-> op, ed |-> e, id |-> LockIdOf(op, h), old |-> ParseLock(old), len |-> len,
     pc |-> IF op \in {"PutRelativeSuggested", "PutRelativeRelative", "Rename"}
            THEN "oldstat" ELSE IF op \in Put THEN "stat" ELSE "call",
     ref |-> IF op = "PutFile" THEN "doc" ELSE None,
     name |-> IF op \in {"PutRelativeSuggested", "PutRelativeRelative", "Rename"}
              THEN "target" ELSE None,
     st |-> None, seen |-> None, upload |-> None, over |-> None,
     code |-> 0, lock |-> None]

NeedsLockId(op) == op \in {"Lock", "RefreshLock", "UnLock"}

Done(r, code) == [r EXCEPT !.pc = "done", !.code = code]

\* A request arrives.  Only the lock operations insist on a lock id, and a
\* viewer's Lock is answered without a call.
Start(s) ==
    /\ ~Running(s) /\ sent < MaxRequests
    /\ s = CHOOSE t \in Slot : ~Running(t)
    /\ \E op \in Ops, e \in Editor, len \in Lengths, h \in {TRUE, FALSE}, o \in Editor \cup {None} :
          /\ (op \notin Put => len = 1) /\ (op # "Lock" => o = None) /\ o # e
          /\ op \in {"PutRelativeSuggested", "PutRelativeRelative"} => ~h
          /\ LET header == IF h THEN Header(e) ELSE None
                 old == IF o = None THEN None ELSE Header(o)
                 r == Request(op, e, header, old, len) IN
             req' = [req EXCEPT ![s] =
                CASE NeedsLockId(op) /\ header = None -> Done(r, 400)
                  [] op = "Lock" /\ e \in Viewer -> Done(r, 200)
                  [] OTHER -> r]
    /\ sent' = sent + 1
    /\ UNCHANGED <<node, version>>
    /\ Remember

GetLock(s) ==
    /\ In(s, {"GetLock"}, "call")
    /\ node' = Read("doc")
    /\ Answer(s, IF LockOf("doc") = None THEN 404 ELSE 200, LockOf("doc"))
    /\ UNCHANGED <<version, sent>>
    /\ Remember

\* the first call of Lock, RefreshLock and UnLock
LockCall(s) ==
    /\ In(s, {"Lock", "RefreshLock", "UnLock"}, "call")
    /\ LET r == req[s]
           res == CASE r.op = "UnLock" -> UnlockCall("doc", r.id)
                    [] r.op = "Lock" /\ r.old = None -> SetLock("doc", r.id)
                    [] OTHER -> RefreshLockCall("doc", r.id, r.old) IN
       /\ node' = res.node
       /\ Continue(s, "stat", res.code)
    /\ UNCHANGED <<version, sent>>
    /\ Remember

\* the Stat that follows it in all three, and the switch on the status
AsksForLock(op, st) ==
    CASE op = "Lock" -> st \in {"FAILED_PRECONDITION", "ABORTED"}
      [] op = "RefreshLock" -> st = "ABORTED"
      [] op = "UnLock" -> st = "LOCKED"

LockStat(s) ==
    /\ In(s, {"Lock", "RefreshLock", "UnLock"}, "stat")
    /\ node' = Read("doc")
    /\ LET r == req[s] IN
       CASE ~Exists("doc") -> Answer(s, 500, None)
         [] r.st = "OK" -> Answer(s, 200, None)
         [] AsksForLock(r.op, r.st) -> Continue(s, "getlock", r.st)
         [] r.op = "UnLock" /\ r.st = "ABORTED" -> Answer(s, 409, None)
         [] OTHER -> Answer(s, IF r.st = "NOT_FOUND" /\ r.op # "UnLock" THEN 404 ELSE 500, None)
    /\ UNCHANGED <<version, sent>>
    /\ Remember

Success(r, lock) == r.op = "Lock" /\ lock = r.id
Named(r, lock) == lock

\* the GetLock that names the lock of a conflict; Lock takes its own lock
\* for a success
ConflictLock(s) ==
    /\ In(s, {"Lock", "RefreshLock", "UnLock", "Delete"}, "getlock")
    /\ node' = Read("doc")
    /\ LET lock == LockOf("doc") IN
       CASE lock = None -> Answer(s, 500, None)
         [] Success(req[s], lock) -> Answer(s, 200, None)
         [] OTHER -> Answer(s, 409, Named(req[s], lock))
    /\ UNCHANGED <<version, sent>>
    /\ Remember

----------------------------------------------------------------------------
(* PutFile and the PutRelativeFile operations, which put under a name.      *)

Info(i) == IF Exists(i)
           THEN [ver |-> node[i].ver, full |-> node[i].full, lock |-> LockOf(i)]
           ELSE None
Target(s) == IF req[s].op = "PutFile" THEN req[s].ref ELSE At(req[s].name)

\* the Stat of the file the request is about, for its parent folder
OldStat(s) ==
    /\ In(s, {"PutRelativeSuggested", "PutRelativeRelative", "Rename"}, "oldstat")
    /\ node' = Read("doc")
    /\ IF ~Exists("doc")
       THEN Answer(s, IF req[s].op = "Rename" THEN 404 ELSE 500, None)
       ELSE req' = [req EXCEPT ![s].pc = IF req[s].op = "Rename" THEN "move" ELSE "stat",
                               ![s].seen = Info("doc")]
    /\ UNCHANGED <<version, sent>>
    /\ Remember

Prefixed(name) == Fresh \ {name}

\* A conflict: PutFile answers it, the suggested name is changed and the
\* relative one is looked up for the answer.
Conflict(s, lock) ==
    CASE req[s].op = "PutFile" -> Answer(s, 409, lock)
      [] req[s].op = "PutRelativeRelative" ->
            req' = [req EXCEPT ![s].pc = "adjust", ![s].code = 409, ![s].lock = lock]
      [] req[s].op = "PutRelativeSuggested" ->
            \E n \in Prefixed(req[s].name) :
               req' = [req EXCEPT ![s].pc = "stat", ![s].name = n]

\* content without any lock, and no lock id to put it with
Unguarded(info, id) == info.lock = None /\ id = None /\ info.full

PutStat(s) ==
    /\ In(s, Put, "stat")
    /\ LET i == Target(s)
           info == Info(i) IN
       /\ node' = Read(i)
       /\ CASE info # None /\ info.lock # None /\ info.lock # req[s].id -> Conflict(s, info.lock)
            [] info # None /\ Unguarded(info, req[s].id) -> Conflict(s, None)
            [] OTHER -> req' = [req EXCEPT ![s].pc = "init", ![s].seen = info]
    /\ UNCHANGED <<version, sent>>
    /\ Remember

Failed(s) == Answer(s, 500, None)

\* Mutant of IfMatch: the upload has no precondition.
IfMatchNone(s) == None
\* InitiateFileUpload with the lock id and the etag of the Stat, which is
\* empty when the Stat found no file.
IfMatch(s) == IF req[s].seen = None THEN None ELSE req[s].seen.ver

PutInitiate(s) ==
    /\ In(s, Put, "init")
    /\ LET i == Target(s)
           match == IfMatch(s) IN
       /\ node' = Read(i)
       /\ IF \/ i # None /\ ~Exists(i)
             \/ match # None /\ (IF i = None THEN TRUE ELSE match # node[i].ver)
             \/ CheckLock(i, req[s].id) # "OK"
          THEN Failed(s)
          ELSE req' = [req EXCEPT ![s].pc = "upload",
                                  ![s].upload = [node |-> i, match |-> match]]
    /\ UNCHANGED <<version, sent>>
    /\ Remember

\* The provider writes the body: a new node under a name that is free, or a
\* new version of the node the session was made for, when neither the lock
\* nor the etag stands against it.
Refused(i, match, id, name) ==
    IF i = None THEN At(name) # None
    ELSE \/ ~Exists(i)
         \/ match # None /\ match # node[i].ver
         \/ CheckLock(i, id) # "OK"

Write(s, full) ==
    LET u == req[s].upload IN
    IF Refused(u.node, u.match, req[s].id, req[s].name)
    THEN /\ node' = Read(u.node)
         /\ Failed(s)
         /\ UNCHANGED version
    ELSE \E i \in IF u.node = None THEN NextNode ELSE {u.node} :
         /\ node' = [Read(i) EXCEPT
                       ![i].ver = version + 1, ![i].full = full, ![i].busy = full,
                       ![i].name = IF u.node = None THEN req[s].name ELSE @]
         /\ version' = version + 1
         /\ req' = [req EXCEPT
                       ![s].pc = CASE req[s].len > 0 -> "after"
                                   [] req[s].op = "PutFile" -> "done"
                                   [] OTHER -> "adjust",
                       ![s].code = 200,
                       ![s].over = [ver |-> node[i].ver, full |-> node[i].full,
                                    lock |-> LockOf(i)]]

\* The provider finishes an upload without length at once, as an empty file,
\* and the service uploads the body only if the length is positive.
PutUpload(s) ==
    /\ In(s, Put, "upload")
    /\ Write(s, req[s].len > 0)
    /\ UNCHANGED sent
    /\ Remember

\* the Stat after the upload, for the new mtime
PutAfter(s) ==
    /\ In(s, Put, "after")
    /\ LET i == Target(s) IN
       /\ node' = Read(i)
       /\ CASE ~Exists(i) -> Failed(s)
            [] req[s].op = "PutFile" -> Answer(s, 200, None)
            [] OTHER -> Continue(s, "adjust", "OK")
    /\ UNCHANGED <<version, sent>>
    /\ Remember

\* the Stat of the name, for the reference of the answer
Adjust(s) ==
    /\ In(s, Put, "adjust")
    /\ LET i == Target(s) IN
       /\ node' = Read(i)
       /\ IF Exists(i) THEN Answer(s, req[s].code, req[s].lock) ELSE Failed(s)
    /\ UNCHANGED <<version, sent>>
    /\ Remember

----------------------------------------------------------------------------
(* DeleteFile and RenameFile.                                               *)

Delete(s) ==
    /\ In(s, {"Delete"}, "call")
    /\ LET res == DeleteCall("doc", req[s].id) IN
       /\ node' = res.node
       /\ CASE res.code = "OK" -> Answer(s, 200, None)
            [] res.code = "NOT_FOUND" -> Answer(s, 404, None)
            [] res.code = "TOO_EARLY" -> Continue(s, "call", res.code)
            [] OTHER -> Continue(s, "getlock", res.code)
    /\ UNCHANGED <<version, sent>>
    /\ Remember

\* A refused lock is answered with the lock of the earlier Stat, a taken
\* name is replaced by a prefixed one.
Rename(s) ==
    /\ In(s, {"Rename"}, "move")
    /\ LET res == MoveCall("doc", req[s].name, req[s].id) IN
       /\ node' = res.node
       /\ CASE res.code = "OK" -> Answer(s, 200, None)
            [] res.code \in {"LOCKED", "ABORTED"} -> Answer(s, 409, req[s].seen.lock)
            [] res.code = "ALREADY_EXISTS" ->
                  \E n \in Prefixed(req[s].name) :
                     req' = [req EXCEPT ![s].name = n]
            [] OTHER -> Failed(s)
    /\ UNCHANGED <<version, sent>>
    /\ Remember

----------------------------------------------------------------------------
(* What happens at the provider besides (external).                         *)

Expire ==
    /\ node["doc"].live
    /\ node' = [node EXCEPT !["doc"].live = FALSE]
    /\ UNCHANGED <<version, req, sent>>
    /\ Remember

Processed(i) ==
    /\ node[i].busy
    /\ node' = [node EXCEPT ![i].busy = FALSE]
    /\ UNCHANGED <<version, req, sent>>
    /\ Remember

\* a client without lock and precondition writes the document, or creates
\* the target
ForeignWrite ==
    /\ version < MaxVersion
    /\ \/ /\ Exists("doc") /\ LockOf("doc") = None
          /\ node' = [Read("doc") EXCEPT !["doc"].ver = version + 1, !["doc"].full = TRUE]
       \/ /\ At("target") = None
          /\ \E i \in NextNode :
                node' = [node EXCEPT ![i].name = "target", ![i].ver = version + 1, ![i].full = TRUE]
    /\ version' = version + 1
    /\ UNCHANGED <<req, sent>>
    /\ Remember

Step(s) ==
    \/ GetLock(s) \/ LockCall(s) \/ LockStat(s) \/ ConflictLock(s)
    \/ OldStat(s) \/ PutStat(s) \/ PutInitiate(s) \/ PutUpload(s)
    \/ PutAfter(s) \/ Adjust(s) \/ Delete(s) \/ Rename(s)

Next ==
    \/ \E s \in Slot : Start(s) \/ Step(s)
    \/ Expire \/ ForeignWrite
    \/ \E i \in Id : Processed(i)

Spec == Init /\ [][Next]_vars

----------------------------------------------------------------------------
TypeOK ==
    /\ node \in [Id -> [name : Name \cup {None}, ver : 0..(MaxVersion + MaxRequests), full : BOOLEAN,
                        lock : LockIds \cup {None}, live : BOOLEAN, busy : BOOLEAN]]
    /\ \A i \in Id : node[i].live => node[i].lock # None
    /\ \A i, j \in Id : i # j /\ node[i].name # None => node[i].name # node[j].name
    /\ sent \in 0..MaxRequests /\ version \in 1..(MaxVersion + MaxRequests)

Finished(s, ops) == req[s] # None /\ req[s].op \in ops /\ req[s].pc = "done"
Wrote(s) == req[s] # None /\ req[s].op \in Put /\ req[s].over # None

\* A put replaces the very version that its Stat has seen: of two puts that
\* overlap, or of a put and a foreign write, none disappears unnoticed
\* (PutFile, the etag as If-Match).
ReplacesSeen ==
    \A s \in Slot : Wrote(s) /\ req[s].seen # None => req[s].over.ver = req[s].seen.ver

\* Content that a put has seen is replaced only while the document is locked
\* with the lock id of the request, whatever expires or is taken over between
\* the Stat and the end of the upload (PutFile, "only unlocked uploads can go
\* through if the target file is empty").
HolderWrites ==
    \A s \in Slot : Wrote(s) /\ req[s].seen # None /\ req[s].over.full =>
        req[s].id # None /\ req[s].over.lock = req[s].id

\* A Lock or RefreshLock that is answered with success had the lock at some
\* moment of the request, an UnLock was without it (Lock, "Since the lockId
\* matches now, we'll assume success").
GrantedWasHeld ==
    \A s \in Slot :
        /\ Finished(s, {"Lock", "RefreshLock"}) /\ req[s].code = 200 /\ req[s].ed \notin Viewer =>
              req[s].id \in had[s]
        /\ Finished(s, {"UnLock"}) /\ req[s].code = 200 => None \in had[s]

\* The lock that a conflict names was the lock of the document at some moment
\* of the request, and no lock was on it if it names none (NewResponseLockConflict).
ConflictWasCurrent ==
    \A s \in Slot :
        Finished(s, Ops \ {"PutRelativeSuggested", "PutRelativeRelative"}) /\ req[s].code = 409 =>
            req[s].lock \in had[s]

=============================================================================
