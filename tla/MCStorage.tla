----------------------------- MODULE MCStorage -----------------------------
(***************************************************************************)
(* What requests and maintenance do to a space of remoteposix: locks and   *)
(* journal, uploads, versions and trash, grants, the outbox, and the       *)
(* numbers of quotas and times.  The first state settles which of them a   *)
(* behaviour is about; the others rest.                                    *)
(***************************************************************************)
EXTENDS Outbox, Grants, Integers, Sequences

CONSTANTS Folder, FileA, FileB   \* of the trash

VARIABLES
    part,
    nodes, operations, retained, done, unused, at, request, locks, stamp, kept, taken, want, op, back, requests, crashes,
    session, expired, stage, synced, pending, published, view, holder, does, kind, copy, body, tmp, started, sent, broke,
    place, inside, items, owner, there, vfile, durable, touched, step, key, list, todo, emptying, keys, fails,
    in, out

lockvars == <<nodes, operations, retained, done, unused, at, request, locks, stamp, kept, taken, want, op, back, requests, crashes>>
uploadvars == <<session, expired, stage, synced, pending, published, view, holder, does, kind, copy, body, tmp, started, sent, broke>>
trashvars == <<place, inside, items, owner, there, vfile, durable, touched, step, key, list, todo, emptying, keys, fails>>
numbers == <<in, out>>

----------------------------------------------------------------------------
(* A space r with the directories d and e and the file f in d; g is the    *)
(* file of an upload.                                                      *)
Ids == {"r", "d", "e", "f", "g"}
Ranks ==
    LET all == <<"r", "d", "e", "f", "g", "s1", "o1", "o2", "o3">>
    IN  [x \in {all[k] : k \in 1..Len(all)} |-> CHOOSE k \in 1..Len(all) : all[k] = x]

In(dir, name) == [parent |-> dir, name |-> name, trash |-> None]
Tree ==
    [i \in Ids |-> CASE i = "r" -> In(None, None) [] i = "g" -> None
                     [] i = "f" -> In("d", "f") [] OTHER -> In("r", i)]

Ref(base, path, write) == [base |-> base, path |-> path, write |-> write]
Req(what, src, dst, node, ses) ==
    [kind |-> what, src |-> src, dst |-> dst, node |-> node, session |-> ses, item |-> None]

(* Every kind of request, by id, by path from the root and by both.        *)
Nest == Req("move", Ref("d", <<>>, TRUE), Ref("e", <<"d">>, TRUE), None, None)
NestToo == Req("move", Ref("r", <<"e">>, TRUE), Ref("r", <<"d", "e">>, TRUE), None, None)
Out == Req("move", Ref("r", <<"d", "f">>, TRUE), Ref("e", <<"f">>, TRUE), None, None)
TrashDir == Req("trash", Ref("d", <<>>, TRUE), None, None, None)
TrashFile == Req("trash", Ref("f", <<>>, TRUE), None, None, None)
RestoreFile == Req("restore", None, Ref("e", <<"f">>, TRUE), None, None)
Create == Req("create", None, Ref("d", <<"g">>, TRUE), "g", "s1")
Touch == Req("create", None, Ref("r", <<"d", "g">>, TRUE), "g", None)
ReadFile == Req("read", Ref("f", <<>>, FALSE), None, None, None)
WholeSpace == Req("space", Ref("r", <<>>, TRUE), None, None, None)

Moves == INSTANCE Locks WITH
    Proc <- Process, Id <- Ids, Dir <- {"r", "d", "e"}, Root <- "r", Name <- {"d", "e", "f", "g"},
    Session <- {"s1"}, Op <- {"o1", "o2", "o3"}, Rank <- Ranks, InitNodes <- Tree,
    Request <- {Nest, NestToo, TrashDir, Create, ReadFile, Touch}, MaxRequest <- 2, MaxCrash <- 1, pc <- at

Trashing == INSTANCE Locks WITH
    Proc <- Process, Id <- Ids, Dir <- {"r", "d", "e"}, Root <- "r", Name <- {"d", "e", "f", "g"},
    Session <- {"s1"}, Op <- {"o1", "o2", "o3"}, Rank <- Ranks, InitNodes <- Tree,
    Request <- {Out, TrashFile, RestoreFile, Create, WholeSpace}, MaxRequest <- 2, MaxCrash <- 1, pc <- at

Waiting == INSTANCE Locks WITH
    Proc <- Process, Id <- Ids, Dir <- {"r", "d", "e"}, Root <- "r", Name <- {"d", "e", "f", "g"},
    Session <- {"s1"}, Op <- {"o1", "o2", "o3"}, Rank <- Ranks, InitNodes <- Tree,
    Request <- {NestToo, Create}, MaxRequest <- 2, MaxCrash <- 1, pc <- at

(* Uploads: of known length, of deferred length, and with maintenance that *)
(* keeps coming.                                                           *)
Upload == INSTANCE Upload WITH
    Worker <- Process, FileLen <- 2, Deferred <- FALSE, MaxRequest <- 4, MaxCrash <- 1,
    row <- session, pc <- does, session <- copy, requests <- sent, crashes <- broke
Lengthless == INSTANCE Upload WITH
    Worker <- Process, FileLen <- 2, Deferred <- TRUE, MaxRequest <- 3, MaxCrash <- 1,
    row <- session, pc <- does, session <- copy, requests <- sent, crashes <- broke
Leftover == INSTANCE Upload WITH
    Worker <- Process, FileLen <- 1, Deferred <- FALSE, MaxRequest <- 3, MaxCrash <- 1,
    row <- session, pc <- does, session <- copy, requests <- sent, crashes <- broke

(* Versions and trash of a directory with two files; of one with one file, *)
(* whose trash is emptied again and again.                                 *)
Retention == INSTANCE Retention WITH
    Worker <- Process, File <- {FileA, FileB}, Dir <- Folder, MaxKey <- 1, MaxVersion <- 2, MaxFail <- 2, pc <- step
Emptied == INSTANCE Retention WITH
    Worker <- Process, File <- {FileA}, Dir <- Folder, MaxKey <- 2, MaxVersion <- 1, MaxFail <- 1, pc <- step

(* Two members, one of them in a group.                                    *)
MemberGroups == [m \in Member |-> IF m = "m1" THEN Group ELSE {}]

(* Ten bits and two decimal places.                                        *)
Numeric == INSTANCE Numeric WITH
    Width <- 10, Digits <- 2, Seconds <- (-6..6) \cup {-512, -511, 510, 511}, Figures <- {0, 1, 2, 9, 10},
    Counts <- (0..4) \cup {63, 64, 127, 128, 255, 256} \cup 509..513 \cup {1022, 1023},
    Sizes <- (0..5) \cup {16, 64, 255, 256, 511, 512, 1023}

----------------------------------------------------------------------------
Locking == {"moves", "trashing", "waiting"}
Uploading == {"upload", "deferred upload", "leftover upload"}

StorageInit ==
    /\ part \in {"outbox", "moves", "trashing", "waiting", "upload", "deferred upload", "leftover upload",
                 "retention", "emptied trash", "grants", "numbers"}
    /\ Init /\ Moves!Init /\ Upload!Init /\ GrantsInit
    /\ IF part = "emptied trash" THEN Emptied!Init ELSE Retention!Init
    /\ IF part = "numbers" THEN Numeric!Init ELSE in = None /\ out = None

StorageNext ==
    /\ \/ part = "outbox" /\ Next /\ UNCHANGED <<lockvars, uploadvars, trashvars, grantVars, numbers>>
       \/ /\ \/ part = "moves" /\ Moves!Next
             \/ part = "trashing" /\ Trashing!Next
             \/ part = "waiting" /\ Waiting!Next
          /\ UNCHANGED <<vars, uploadvars, trashvars, grantVars, numbers>>
       \/ /\ \/ part = "upload" /\ Upload!Next
             \/ part = "deferred upload" /\ Lengthless!Next
             \/ part = "leftover upload" /\ Leftover!Next
          /\ UNCHANGED <<vars, lockvars, trashvars, grantVars, numbers>>
       \/ /\ \/ part = "retention" /\ Retention!Next
             \/ part = "emptied trash" /\ Emptied!Next
          /\ UNCHANGED <<vars, lockvars, uploadvars, grantVars, numbers>>
       \/ part = "grants" /\ GrantsNext /\ UNCHANGED <<vars, lockvars, uploadvars, trashvars, numbers>>
       \/ part = "numbers" /\ Numeric!Next /\ UNCHANGED <<vars, lockvars, uploadvars, trashvars, grantVars>>
    /\ UNCHANGED part

(* Maintenance runs again and again in every process, and what has begun   *)
(* goes on.  Of the locks, a goroutine that waits for none goes on, and an *)
(* idle one looks at the journal; no timeout is relied on.                 *)
focus ==
    CASE part = "outbox" -> vars [] part \in Locking -> lockvars [] part \in Uploading -> uploadvars
      [] part \in {"retention", "emptied trash"} -> trashvars [] part = "grants" -> grantVars [] part = "numbers" -> numbers

GoesOn(p) ==
    /\ UNCHANGED part
    /\ \/ part = "outbox" /\ (Publish(p) \/ DeleteRow(p))
       \/ part = "leftover upload" /\ Leftover!Step(p)
       \/ part = "emptied trash" /\ Emptied!Step(p)

Maintains(p) ==
    /\ UNCHANGED part
    /\ \/ part = "outbox" /\ ReadBatch(p)
       \/ part = "leftover upload" /\ Leftover!Disposable /\ Leftover!Lock(p, "cleanup", 0)
       \/ part = "emptied trash" /\ Emptied!Lock(p, "purge")

Recovers(p) ==
    /\ UNCHANGED part
    /\ \/ part = "leftover upload" /\ pending # <<>> /\ Leftover!Lock(p, "recover", 0)
       \/ part = "emptied trash" /\ Emptied!EmptyRecycle(p)

Fair ==
    \A p \in Process :
        /\ WF_focus(GoesOn(p)) /\ SF_focus(Maintains(p)) /\ SF_focus(Recovers(p))
        /\ []<>~(part = "waiting" /\ Waiting!CanStep(p)) \/ []<><<part = "waiting" /\ Waiting!Step(p)>>_lockvars
        /\ WF_lockvars(part = "waiting" /\ \E o \in operations : Waiting!RecoverPick(p, o))

StorageSpec ==
    /\ StorageInit /\ [][StorageNext]_<<part, vars, lockvars, uploadvars, trashvars, grantVars, numbers>>
    /\ Fair

----------------------------------------------------------------------------
\* What references mean is what was planned, from the second plan under the
\* locks to the end of the request (beginRefs).
PlanStaysCurrent == part = "moves" => Moves!PlanStaysCurrent

\* Requests of several processes, some cut short and finished by others, leave
\* a tree (locks, journal).
TreeIsTree == part = "moves" => Moves!TreeIsTree

\* The paths in a journaled operation mean what they meant when it was written
\* (beginRefs, pending).
IntentsApply == part \in {"moves", "trashing"} => Moves!IntentsApply

\* Two pending operations never need the same lock (recover).
IntentsDisjoint == part = "moves" => Moves!IntentsDisjoint

\* The locks never make processes wait in a circle (beginRefs, recoverOne).
NoWaitCycle == part = "moves" => Moves!NoWaitCycle

\* Nobody finishes an operation while its request is at work (recoverOne).
RecoveryWaits == part = "moves" => Moves!RecoveryWaits

\* While a request moves or deletes a node, no other one works below it
\* (addNode).
DescendantsExcluded == part \in {"moves", "trashing"} => Moves!DescendantsExcluded

\* What a request has planned under its locks stays so, the tree stays a tree,
\* and nobody works below what is moved or deleted (beginRefs, addNode).
PlansHold == (part \in Locking => Moves!TypeOK) /\ PlanStaysCurrent /\ TreeIsTree /\ DescendantsExcluded

\* Journaled operations stay applicable and apart, are finished by one process
\* at a time, and make nobody wait for ever (recover, recoverOne).
IntentsStand == IntentsApply /\ IntentsDisjoint /\ RecoveryWaits /\ NoWaitCycle

\* Every request ends without a timeout, and the journal becomes empty
\* (beginRefs, recover).
RequestsEnd == <>[](part = "waiting" => Waiting!Settled)

\* The bytes up to the saved offset are in the staging file, on disk
\* (WriteChunk).
DurablePrefix == part \in Uploading => Upload!DurablePrefix

\* What is published is the client's file, whole (FinishUpload).
PublishedWhole == part \in Uploading => Upload!PublishedWhole

\* It is published once, however often completion is repeated (FinishUpload).
PublishedOnce == part = "upload" => Upload!PublishedOnce

\* The row that the final transaction needs outlives the operation (cleanup).
PendingHasSession == part = "upload" => Upload!PendingHasSession

\* Readers of the staging file keep the bytes they were promised (GetReader).
ReaderStable == part = "upload" => Upload!ReaderStable

\* A client never has to send a byte again that it was told is stored
\* (WriteChunk).
OffsetGrows == [][(part \in Uploading) => Upload!OffsetGrows]_uploadvars

\* Whoever is in a request of an upload has its lock, and an idle process has
\* none; what is stored is durable, what is published is whole, published once
\* and readable, and no stored byte is asked for again (WriteChunk,
\* FinishUpload, GetReader).
UploadsWhole ==
    /\ [](/\ part \in {"upload", "leftover upload"} => Upload!TypeOK
          /\ DurablePrefix /\ PublishedWhole /\ PublishedOnce /\ PendingHasSession /\ ReaderStable)
    /\ OffsetGrows

\* A journaled upload is published by somebody, and what completed or expired
\* sessions leave is removed (recover, cleanup).
LeftoversGo == <>[](part = "leftover upload" => Leftover!CleanedUp)

\* Whatever fails or comes back, contents have a row that leads to them
\* (PurgeRecycleItem).
NoOrphans == part = "retention" => Retention!NoOrphans

\* A purge touches nothing but its item (PurgeRecycleItem).
OthersUntouched == part = "retention" => Retention!OthersUntouched

\* Purges and the emptying of the trash leave no content behind without a row,
\* and touch nothing but their items (PurgeRecycleItem, EmptyRecycle).
TrashTrue ==
    /\ IF part = "emptied trash" THEN Emptied!IInv ELSE part = "retention" => Retention!IInv
    /\ NoOrphans /\ OthersUntouched

\* A trash that is emptied again and again becomes empty (EmptyRecycle).
TrashEmpties == <>[](part = "emptied trash" => Emptied!TrashEmpty)

\* What is left of the quota is what the filesystem has, cut off where the
\* total would leave an int64 (GetQuota).
QuotaExact == part = "numbers" => Numeric!QuotaExact

\* An upload's mtime is kept to the last figure, or refused (parseMTime).
MtimeExact == part = "numbers" => Numeric!MtimeExact

\* Every notification is published, and its row goes (publish).
AllDelivered == <>[](part = "outbox" => Delivered)

\* Quotas and times are exact at the edges of their integers (GetQuota,
\* parseMTime).
NumbersExact == (part = "numbers" => Numeric!TypeOK) /\ QuotaExact /\ MtimeExact

\* What maintenance has to do gets done: interrupted uploads, trash and events
\* (recover, cleanup, EmptyRecycle, publish).
MaintenanceEnds == LeftoversGo /\ TrashEmpties /\ AllDelivered
=============================================================================
