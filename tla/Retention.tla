----------------------------- MODULE Retention -----------------------------
(***************************************************************************)
(* Trash items and previous versions of remoteposix (retention.go): how    *)
(* purges, which remove entry after entry and only then the rows, share    *)
(* the trash with deletions, restorations, emptying, failing removals and  *)
(* power failures.                                                         *)
(*                                                                         *)
(* There is one directory Dir with files in it, or beside it.  What locks  *)
(* and journals do for a single publication is in Locks and Publication;   *)
(* a publication is one step here.                                         *)
(***************************************************************************)
EXTENDS Naturals, FiniteSets

CONSTANTS
    Worker, File, Dir, None,
    MaxKey, MaxVersion, MaxFail   \* bounds

Node == File \cup {Dir}
Key == 1..MaxKey
Version == 1..MaxVersion

VARIABLES
    place,    \* of each node: 0 in the tree, a key in the trash, None gone
    inside,   \* the files that are entries of Dir
    items,    \* rows of kind trash: the snapshot of each key, {} for none
    owner,    \* rows of kind version: the node of each version, or None
    there,    \* nodes whose entry exists
    vfile,    \* versions whose file exists
    durable,  \* entries, of either sort, that a power failure may bring back
    touched,  \* history: nodes that a purge has set its hand on
    pc, key, list, todo,  \* of each worker: step, item, items to come, versions to remove
    emptying, \* the worker that has the lock of the root, or None
    keys, fails

disk == <<there, vfile, durable>>
rows == <<place, inside, items, owner>>
local == <<pc, key, list, todo, emptying>>
vars == <<rows, disk, touched, local, keys, fails>>

Goto(w, l) == pc' = [pc EXCEPT ![w] = l]
End(w) ==
    /\ Goto(w, "idle")
    /\ key' = [key EXCEPT ![w] = 0] /\ list' = [list EXCEPT ![w] = {}] /\ todo' = [todo EXCEPT ![w] = {}]
    /\ emptying' = IF emptying = w THEN None ELSE emptying

(* The locks: of an item, and of the root.                                 *)
Working == {w \in Worker : pc[w] \notin {"idle", "lock"}}
TreeFree == emptying = None
ItemFree(k) == TreeFree /\ \A w \in Working : key[w] # k

(* The entry of a snapshot that the others lie below.                      *)
Root(k) == IF Dir \in items[k] THEN Dir ELSE CHOOSE n \in items[k] : TRUE

----------------------------------------------------------------------------
(* Publications                                                            *)

(* An upload over a file, or RestoreRevision: the old contents are kept.   *)
Replace(f) ==
    /\ place[f] = 0 /\ f \in there /\ TreeFree
    /\ \E v \in Version :
          /\ owner[v] = None /\ v \notin durable
          /\ owner' = [owner EXCEPT ![v] = f]
          /\ vfile' = vfile \cup {v} /\ durable' = durable \cup {v}
    /\ UNCHANGED <<place, inside, items, there, touched, local, keys, fails>>

Subtree(n) == IF n = Dir THEN {Dir} \cup {f \in inside : place[f] = 0} ELSE {n}

Delete(n) ==
    /\ place[n] = 0 /\ n \in there /\ TreeFree /\ keys < MaxKey
    /\ keys' = keys + 1
    /\ items' = [items EXCEPT ![keys'] = Subtree(n)]
    /\ place' = [m \in Node |-> IF m \in Subtree(n) THEN keys' ELSE place[m]]
    /\ inside' = IF n = Dir THEN inside ELSE inside \ {n}
    /\ UNCHANGED <<owner, disk, touched, local, fails>>

----------------------------------------------------------------------------
(* beginTrash: look, lock, look again                                      *)

BeginTrash(w, k) ==
    /\ pc[w] = "idle" /\ items[k] # {}
    /\ key' = [key EXCEPT ![w] = k]
    /\ Goto(w, "lock")
    /\ UNCHANGED <<rows, disk, touched, list, todo, emptying, keys, fails>>

Lock(w, what) ==
    /\ pc[w] = "lock" /\ ItemFree(key[w])
    /\ \/ items[key[w]] # {} /\ Goto(w, what) /\ UNCHANGED <<key, list, todo, emptying>>
       \/ items[key[w]] = {} /\ End(w)
    /\ UNCHANGED <<rows, disk, touched, keys, fails>>

(* The restored file goes into Dir or to another place.                    *)
RestoreRecycleItem(w) ==
    /\ pc[w] = "restore"
    /\ \/ /\ Root(key[w]) \in there
          /\ place' = [n \in Node |-> IF n \in items[key[w]] THEN 0 ELSE place[n]]
          /\ \/ UNCHANGED inside
             \/ place[Dir] = 0 /\ Dir \notin items[key[w]] /\ inside' = inside \cup items[key[w]]
          /\ items' = [items EXCEPT ![key[w]] = {}]
       \/ Root(key[w]) \notin there /\ UNCHANGED <<place, inside, items>>
    /\ End(w)
    /\ UNCHANGED <<owner, disk, touched, keys, fails>>

----------------------------------------------------------------------------
(* EmptyRecycle and PurgeRecycleItem                                       *)

EmptyRecycle(w) ==
    /\ pc[w] = "idle" /\ Working = {} /\ emptying' = w
    /\ list' = [list EXCEPT ![w] = {k \in Key : items[k] # {}}]
    /\ Goto(w, "next")
    /\ UNCHANGED <<rows, disk, touched, key, todo, keys, fails>>

(* The newest first.                                                       *)
NextItem(w) ==
    /\ pc[w] = "next"
    /\ \/ list[w] = {} /\ End(w)
       \/ /\ list[w] # {}
          /\ \E k \in list[w] :
                /\ \A l \in list[w] : l <= k
                /\ key' = [key EXCEPT ![w] = k] /\ list' = [list EXCEPT ![w] = @ \ {k}]
          /\ Goto(w, "purge") /\ UNCHANGED <<todo, emptying>>
    /\ UNCHANGED <<rows, disk, touched, keys, fails>>

VersionsOf(nodes) == {v \in Version : owner[v] \in nodes}

Purge(w) ==
    /\ pc[w] = "purge"
    /\ todo' = [todo EXCEPT ![w] = VersionsOf(items[key[w]])]
    /\ touched' = touched \cup items[key[w]]
    /\ Goto(w, "versions")
    /\ UNCHANGED <<rows, disk, key, list, emptying, keys, fails>>

RemoveVersion(w, v) ==
    /\ pc[w] = "versions" /\ v \in todo[w]
    /\ vfile' = vfile \ {v}
    /\ todo' = [todo EXCEPT ![w] = @ \ {v}]
    /\ UNCHANGED <<rows, there, durable, touched, pc, key, list, emptying, keys, fails>>

(* RemoveAll: what is in a directory first.                                *)
RemoveEntry(w, n) ==
    /\ pc[w] = "versions" /\ todo[w] = {}
    /\ n \in items[key[w]] \cap there
    /\ n = Dir => items[key[w]] \cap there = {Dir}
    /\ there' = there \ {n}
    /\ UNCHANGED <<rows, vfile, durable, touched, local, keys, fails>>

(* Defect: the directories are not synced.                                 *)
SyncLater(w) ==
    /\ pc[w] = "versions" /\ todo[w] = {} /\ items[key[w]] \cap there = {}
    /\ Goto(w, "delete")
    /\ UNCHANGED <<rows, disk, touched, key, list, todo, emptying, keys, fails>>

SyncDirs(w) ==
    /\ pc[w] = "versions" /\ todo[w] = {} /\ items[key[w]] \cap there = {}
    /\ durable' = there \cup vfile
    /\ Goto(w, "delete")
    /\ UNCHANGED <<rows, there, vfile, touched, key, list, todo, emptying, keys, fails>>

DeleteRows(w) ==
    /\ pc[w] = "delete"
    /\ owner' = [v \in Version |-> IF owner[v] \in items[key[w]] THEN None ELSE owner[v]]
    /\ place' = [n \in Node |-> IF place[n] = key[w] THEN None ELSE place[n]]
    /\ items' = [items EXCEPT ![key[w]] = {}]
    /\ IF emptying = w THEN Goto(w, "next") /\ UNCHANGED <<key, list, todo, emptying>> ELSE End(w)
    /\ UNCHANGED <<inside, disk, touched, keys, fails>>

----------------------------------------------------------------------------
(* A removal fails, the mount is away, or the process dies.                *)
Fail(w) ==
    /\ w \in Working /\ fails < MaxFail
    /\ fails' = fails + 1
    /\ End(w)
    /\ UNCHANGED <<rows, disk, touched, keys>>

(* Entries whose removal was not synced may come back.                     *)
PowerLoss ==
    /\ fails < MaxFail /\ fails' = fails + 1
    /\ \E back \in SUBSET (durable \ (there \cup vfile)) :
          there' = there \cup (back \cap Node) /\ vfile' = vfile \cup (back \cap Version)
    /\ pc' = [w \in Worker |-> "idle"] /\ key' = [w \in Worker |-> 0]
    /\ list' = [w \in Worker |-> {}] /\ todo' = [w \in Worker |-> {}] /\ emptying' = None
    /\ UNCHANGED <<rows, durable, touched, keys>>

Init ==
    /\ place = [n \in Node |-> 0] /\ inside = File
    /\ items = [k \in Key |-> {}] /\ owner = [v \in Version |-> None]
    /\ there = Node /\ vfile = {} /\ durable = Node /\ touched = {}
    /\ pc = [w \in Worker |-> "idle"] /\ key = [w \in Worker |-> 0]
    /\ list = [w \in Worker |-> {}] /\ todo = [w \in Worker |-> {}] /\ emptying = None
    /\ keys = 0 /\ fails = 0

Step(w) ==
    \/ RestoreRecycleItem(w) \/ NextItem(w) \/ Purge(w) \/ SyncDirs(w) \/ DeleteRows(w)
    \/ \E v \in Version : RemoveVersion(w, v)
    \/ \E n \in Node : RemoveEntry(w, n)

Next ==
    \/ \E f \in File : Replace(f)
    \/ \E n \in Node : Delete(n)
    \/ \E w \in Worker, k \in Key : BeginTrash(w, k)
    \/ \E w \in Worker : Step(w) \/ Lock(w, "purge") \/ Lock(w, "restore") \/ EmptyRecycle(w) \/ Fail(w)
    \/ PowerLoss

Spec == Init /\ [][Next]_vars

----------------------------------------------------------------------------
(* The variables have their types, and a node is in the snapshot of at     *)
(* most the item it lies in.                                               *)
TypeOK ==
    /\ place \in [Node -> Key \cup {0, None}] /\ owner \in [Version -> File \cup {None}]
    /\ there \in SUBSET Node /\ vfile \in SUBSET Version
    /\ \A k \in Key : \A n \in Node : n \in items[k] <=> place[n] = k

(* "Retain the metadata until all content is gone": whatever fails or      *)
(* comes back, a file of a version and an entry of the trash have a row    *)
(* that leads to them, so that a purge can be repeated                     *)
(* (retention.go:283-294).                                                 *)
NoOrphans ==
    /\ \A v \in vfile : owner[v] # None
    /\ \A n \in there : place[n] # None

(* A purge touches nothing but its item: the versions of all other nodes,  *)
(* and those nodes themselves, are there.                                  *)
OthersUntouched ==
    /\ \A v \in Version : owner[v] # None /\ owner[v] \notin touched => v \in vfile
    /\ Node \ touched \subseteq there

(* What a worker that holds locks can count on: an emptying of the trash   *)
(* has everybody else out, no two workers have the same item, and the item *)
(* stays.  The versions a purge still has to remove, and those it has      *)
(* removed, are of its item; before its rows go, so have its contents, for *)
(* good.                                                                   *)
Owns(w) ==
    /\ emptying # None => emptying = w
    /\ pc[w] = "next" => emptying = w
    /\ pc[w] # "next" => key[w] \in Key /\ (emptying = None => items[key[w]] # {})
    /\ \A x \in Working \ {w} : key[x] # key[w]
    /\ pc[w] \in {"versions", "delete"} => items[key[w]] \subseteq touched
    /\ pc[w] = "versions" =>
          /\ todo[w] \subseteq VersionsOf(items[key[w]])
          /\ VersionsOf(items[key[w]]) \cap vfile \subseteq todo[w]
    /\ pc[w] = "delete" => durable \cap (items[key[w]] \cup VersionsOf(items[key[w]])) = {}

Held ==
    /\ \A w \in Worker : pc[w] = "lock" => key[w] \in Key
    /\ \A w \in Worker : emptying = w => w \in Working
    /\ \A w \in Working : Owns(w)

Shapes ==
    /\ inside \subseteq File /\ items \in [Key -> SUBSET Node] /\ touched \subseteq Node
    /\ pc \in [Worker -> {"idle", "lock", "restore", "next", "purge", "versions", "delete"}]
    /\ key \in [Worker -> Key \cup {0}] /\ list \in [Worker -> SUBSET Key]
    /\ todo \in [Worker -> SUBSET Version] /\ emptying \in Worker \cup {None}
    /\ keys \in 0..MaxKey /\ \A k \in Key : k > keys => items[k] = {}

(* What exists may come back, and what may come back has a row.            *)
Led ==
    /\ there \cup vfile \subseteq durable /\ durable \subseteq Node \cup Version
    /\ \A v \in durable \cap Version : owner[v] # None
    /\ \A n \in durable \cap Node : place[n] # None

(* The inductive strengthening of NoOrphans and OthersUntouched.           *)
IInv == TypeOK /\ Shapes /\ Led /\ OthersUntouched /\ Held

(* "a crash or partial remote failure can be retried using the same trash  *)
(* key": a trash that is emptied again and again becomes empty.            *)
TrashEmpty == \A k \in Key : items[k] = {}
============================================================================
