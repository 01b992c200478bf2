-------------------------------- MODULE Scan --------------------------------
(***************************************************************************)
(* The polling scan of remoteposix (store.go, scan and commitScan).  A     *)
(* scan reads the epoch of the database, the rows of the nodes and then    *)
(* walks the mount, entry by entry and without a lock; its result is       *)
(* committed under the lock of the space if the epoch is still the same.   *)
(* Meanwhile a request publishes, and somebody edits the mount directly.   *)
(*                                                                         *)
(* The epoch is compared only with an earlier value of itself, so it is    *)
(* kept as the set of scans whose value is outdated.  The revision of a    *)
(* file stands for its size and mtime.                                     *)
(***************************************************************************)
EXTENDS Integers, Sequences, FiniteSets

CONSTANTS
    Scanner,    \* providers that poll
    Order,      \* all paths, in the order of a walk; the first is the root
    Up,         \* the directory of each path
    InitDisk,   \* the mount at the start: None, or dir and rev of the entry
    None,
    Retype,     \* whether an external file may be replaced by a directory
    Grace,      \* missing_grace_period
    Limit,      \* entries that may disappear whatever the size of the tree
    MaxExternal, MaxOp, MaxClock   \* bounds

Path == {Order[k] : k \in 1..Len(Order)}
Root == Order[1]

VARIABLES
    disk,       \* the mount
    nodes,      \* the public rows, by path
    etag,       \* of the directories: changes with every refresh
    operation,  \* the journal, of one operation
    holder,     \* whether a request or a recovery has its locks
    clock, ids, revs, externals, ops,
    removed,    \* history: paths that were removed on the mount
    pc, stale,  \* scans; those whose epoch is no longer the current one
    old, listed, found   \* of each scan: rows read, entries ahead, entries met

db == <<nodes, etag, operation, ids>>
world == <<disk, revs, externals, removed>>
walk == <<old, listed, found>>
vars == <<db, world, holder, clock, ops, pc, stale, walk>>

Exists(p) == disk[p] # None
Visible(p) == nodes[p] # None /\ nodes[p].missing = 0
Children(p) == {q \in Path \ {Root} : Up[q] = p /\ Exists(q)}
Above(p) ==
    LET up[k \in 0..Len(Order)] ==
          IF k = 0 THEN {p} ELSE LET u == up[k - 1] IN u \cup {Up[q] : q \in u \ {Root}}
    IN  up[Len(Order)]
Within(p) == {q \in Path : p \in Above(q)}
File(r) == [dir |-> FALSE, rev |-> r]
Directory == [dir |-> TRUE, rev |-> 0]
Flip(dirs) == [p \in Path |-> IF p \in dirs THEN 1 - etag[p] ELSE etag[p]]

----------------------------------------------------------------------------
(* Direct edits of the mount, scheduled apart from the paths of a pending  *)
(* operation.                                                              *)

Busy == IF operation = None THEN {} ELSE UNION {Above(p) : p \in {operation.from, operation.to} \ {None}}

External(p) ==
    /\ externals < MaxExternal /\ externals' = externals + 1
    /\ p \notin Busy \cup {Root}
    /\ UNCHANGED <<db, holder, clock, ops, pc, stale, walk>>

ExternalWrite(p) ==
    /\ External(p)
    /\ Exists(Up[p]) /\ disk[Up[p]].dir
    /\ Exists(p) => ~disk[p].dir
    /\ ~Retype /\ nodes[p] # None => ~nodes[p].dir
    /\ disk' = [disk EXCEPT ![p] = File(revs + 1)]
    /\ revs' = revs + 1
    /\ UNCHANGED removed

ExternalMkdir(p) ==
    /\ External(p)
    /\ Exists(Up[p]) /\ disk[Up[p]].dir /\ ~Exists(p)
    /\ ~Retype /\ nodes[p] # None => nodes[p].dir
    /\ disk' = [disk EXCEPT ![p] = Directory]
    /\ UNCHANGED <<revs, removed>>

ExternalRemove(p) ==
    /\ External(p)
    /\ Exists(p) /\ Within(p) \cap Busy = {}
    /\ disk' = [q \in Path |-> IF q \in Within(p) THEN None ELSE disk[q]]
    /\ removed' = removed \cup Within(p)
    /\ UNCHANGED revs

Tick == clock < MaxClock /\ clock' = clock + 1 /\ UNCHANGED <<db, world, holder, ops, pc, stale, walk>>

----------------------------------------------------------------------------
(* A request that publishes: locks, journal, rename, final transaction.    *)
(* Its locks include a shared one on the space.                            *)

RootFree == \A s \in Scanner : pc[s] \notin {"locked", "checked"}

(* From and to are paths; a creation has no source, a deletion no target.  *)
Begin ==
    /\ ops < MaxOp /\ ops' = ops + 1
    /\ operation = None /\ ~holder /\ RootFree
    /\ holder' = TRUE
    /\ UNCHANGED <<db, world, clock, pc, stale, walk>>

(* A target with the row of a missing file is left out: its operation would *)
(* never be finished (run stuck_intent of Publication).                    *)
TargetFree(p) == nodes[p] = None /\ ~Exists(p) /\ Visible(Up[p]) /\ nodes[Up[p]].dir /\ Exists(Up[p])
SourceOK(p) == Visible(p) /\ ~nodes[p].dir /\ Exists(p) /\ disk[p] = File(nodes[p].rev)

Journal(kind, from, to) ==
    /\ holder /\ operation = None
    /\ CASE kind = "create"  -> from = None /\ to # None /\ TargetFree(to)
         [] kind = "replace" -> from = None /\ to # None /\ SourceOK(to)
         [] kind = "move"    -> from # None /\ to # None /\ SourceOK(from) /\ TargetFree(to)
         [] kind = "trash"   -> from # None /\ to = None /\ SourceOK(from)
    /\ operation' = [kind |-> kind, from |-> from, to |-> to, step |-> IF kind = "replace" THEN "replace" ELSE "rename"]
    /\ stale' = Scanner
    /\ UNCHANGED <<nodes, etag, ids, world, holder, clock, ops, pc, walk>>

GiveUp ==
    /\ holder /\ operation = None
    /\ holder' = FALSE
    /\ UNCHANGED <<db, world, clock, ops, pc, stale, walk>>

(* A replacement moves the old contents away first.                        *)
MoveAside ==
    /\ holder /\ operation # None /\ operation.step = "replace"
    /\ operation' = [operation EXCEPT !.step = "rename"]
    /\ disk' = [disk EXCEPT ![operation.to] = None]
    /\ UNCHANGED <<nodes, etag, ids, revs, externals, removed, holder, clock, ops, pc, stale, walk>>

Rename ==
    /\ holder /\ operation # None /\ operation.step = "rename"
    /\ operation' = [operation EXCEPT !.step = "commit"]
    /\ disk' = [p \in Path |-> IF p = operation.to
                               THEN (IF operation.kind = "move" THEN disk[operation.from] ELSE File(revs + 1))
                               ELSE IF p = operation.from THEN None ELSE disk[p]]
    /\ revs' = revs + 1
    /\ UNCHANGED <<nodes, etag, ids, externals, removed, holder, clock, ops, pc, stale, walk>>

Finish ==
    /\ holder /\ operation # None /\ operation.step = "commit"
    /\ LET o == operation
           row == CASE o.kind = "create" -> [id |-> ids + 1, parent |-> nodes[Up[o.to]].id, dir |-> FALSE,
                                             rev |-> disk[o.to].rev, missing |-> 0]
                    [] o.kind = "replace" -> [nodes[o.to] EXCEPT !.rev = disk[o.to].rev]
                    [] o.kind = "move"    -> [nodes[o.from] EXCEPT !.parent = nodes[Up[o.to]].id]
                    [] OTHER              -> None
       IN  /\ nodes' = [p \in Path |-> IF p = o.to THEN row ELSE IF p = o.from THEN None ELSE nodes[p]]
           /\ ids' = IF o.kind = "create" THEN ids + 1 ELSE ids
           /\ etag' = Flip(UNION {Above(Up[p]) : p \in {o.from, o.to} \ {None}})
    /\ operation' = None /\ holder' = FALSE
    /\ stale' = Scanner
    /\ UNCHANGED <<world, clock, ops, pc, walk>>

(* The process dies; a recovery takes the locks of the operation again.    *)
Die ==
    /\ holder /\ operation # None
    /\ ops < MaxOp /\ ops' = ops + 1
    /\ holder' = FALSE
    /\ UNCHANGED <<db, world, clock, pc, stale, walk>>
Recover ==
    /\ operation # None /\ ~holder /\ RootFree
    /\ holder' = TRUE
    /\ UNCHANGED <<db, world, clock, ops, pc, stale, walk>>

----------------------------------------------------------------------------
(* scan                                                                    *)

Goto(s, l) == pc' = [pc EXCEPT ![s] = l]
NoWalk == [p \in Path |-> None]
Leave(s) ==
    /\ Goto(s, "idle")
    /\ old' = [old EXCEPT ![s] = NoWalk] /\ listed' = [listed EXCEPT ![s] = {}]
    /\ found' = [found EXCEPT ![s] = NoWalk]

ReadEpoch(s) ==
    /\ pc[s] = "idle"
    /\ Goto(s, "pending")
    /\ stale' = stale \ {s}
    /\ UNCHANGED <<db, world, holder, clock, ops, walk>>

ReadPending(s) ==
    /\ pc[s] = "pending"
    /\ Goto(s, IF operation = None THEN "records" ELSE "idle")
    /\ UNCHANGED <<db, world, holder, clock, ops, stale, walk>>

Records(s) ==
    /\ pc[s] = "records"
    /\ Goto(s, "walk")
    /\ old' = [old EXCEPT ![s] = nodes]
    /\ listed' = [listed EXCEPT ![s] = {Root}]
    /\ UNCHANGED <<db, world, holder, clock, ops, stale, found>>

(* The entry a walk comes to next: listed, but perhaps gone by now.        *)
Ahead(s) == Order[CHOOSE k \in 1..Len(Order) : /\ Order[k] \in listed[s]
                                               /\ \A j \in 1..(k - 1) : Order[j] \notin listed[s]]
TypeChanged(s, p) == old[s][p] # None /\ old[s][p].dir # disk[p].dir

Visit(s) ==
    /\ pc[s] = "walk" /\ listed[s] # {}
    /\ LET p == Ahead(s) IN
       \/ /\ Exists(p) /\ ~TypeChanged(s, p)
          /\ found' = [found EXCEPT ![s][p] = disk[p]]
          /\ listed' = [listed EXCEPT ![s] = (@ \ {p}) \cup (IF disk[p].dir THEN Children(p) ELSE {})]
          /\ UNCHANGED <<pc, old>>
       \/ /\ ~(Exists(p) /\ ~TypeChanged(s, p))
          /\ Leave(s)
    /\ UNCHANGED <<db, world, holder, clock, ops, stale>>

Lost(s) == {p \in Path : old[s][p] # None /\ found[s][p] = None}

TooMany(s) ==
    /\ Cardinality(Lost(s)) > Limit
    /\ Cardinality(Lost(s)) * 4 > Cardinality({p \in Path : old[s][p] # None})

ReadAgain(s) ==
    /\ pc[s] = "walk" /\ listed[s] = {}
    /\ \/ s \notin stale /\ ~TooMany(s) /\ Goto(s, "lock") /\ UNCHANGED walk
       \/ (s \in stale \/ TooMany(s)) /\ Leave(s)
    /\ UNCHANGED <<db, world, holder, clock, ops, stale>>

(* Defect: publication is not excluded.                                    *)
LockAnyway(s) ==
    /\ pc[s] = "lock" /\ RootFree
    /\ Goto(s, "locked")
    /\ UNCHANGED <<db, world, holder, clock, ops, stale, walk>>

LockRoot(s) ==
    /\ pc[s] = "lock" /\ RootFree /\ ~holder
    /\ Goto(s, "locked")
    /\ UNCHANGED <<db, world, holder, clock, ops, stale, walk>>

LockTimeout(s) ==
    /\ pc[s] = "lock" /\ ~(RootFree /\ ~holder)
    /\ Leave(s)
    /\ UNCHANGED <<db, world, holder, clock, ops, stale>>

(* Defect: the epoch is not read again under the lock.                     *)
CheckPending(s) ==
    /\ pc[s] = "locked"
    /\ \/ operation = None /\ Goto(s, "checked") /\ UNCHANGED walk
       \/ operation # None /\ Leave(s)
    /\ UNCHANGED <<db, world, holder, clock, ops, stale>>

CheckEpoch(s) ==
    /\ pc[s] = "locked"
    /\ \/ s \notin stale /\ operation = None /\ Goto(s, "checked") /\ UNCHANGED walk
       \/ (s \in stale \/ operation # None) /\ Leave(s)
    /\ UNCHANGED <<db, world, holder, clock, ops, stale>>

(* The statements of commitScan address rows by id.                        *)
New(s, p) == found[s][p] # None /\ (old[s][p] = None \/ old[s][p].missing # 0)
Edited(s, p) == found[s][p] # None /\ ~New(s, p) /\ old[s][p].rev # found[s][p].rev
Changed(s) == {p \in Path : New(s, p) \/ Edited(s, p)} \cup Lost(s)

(* The ids of new rows, in the order of the walk.                          *)
NewId(s, p) == ids + Cardinality({q \in Path : New(s, q) /\ \E i, j \in 1..Len(Order) : Order[i] = q /\ Order[j] = p /\ i <= j})
IdOf(s, p) == IF New(s, p) THEN NewId(s, p) ELSE old[s][p].id
ParentId(s, p) == IF p = Root THEN 0 ELSE IdOf(s, Up[p])

RowAfter(s, p) ==
    LET row == nodes[p]
        was == {q \in Path : row # None /\ old[s][q] # None /\ old[s][q].id = row.id}
    IN  IF New(s, p)
        THEN [id |-> NewId(s, p), parent |-> ParentId(s, p), dir |-> found[s][p].dir, rev |-> found[s][p].rev, missing |-> 0]
        ELSE IF was = {} THEN row
        ELSE LET q == CHOOSE q \in was : TRUE IN
             IF Edited(s, q) THEN [row EXCEPT !.parent = ParentId(s, q), !.rev = found[s][q].rev]
             ELSE IF q \notin Lost(s) THEN row
             ELSE IF old[s][q].missing = 0 THEN [row EXCEPT !.missing = clock + 1]
             ELSE IF clock + 1 - old[s][q].missing >= Grace THEN None
             ELSE row

Commit(s) ==
    /\ pc[s] = "checked"
    /\ nodes' = [p \in Path |-> RowAfter(s, p)]
    /\ ids' = ids + Cardinality({p \in Path : New(s, p)})
    /\ etag' = Flip({q \in UNION {Above(p) : p \in Changed(s)} : nodes'[q] # None /\ nodes'[q].dir})
    /\ stale' = IF Changed(s) = {} THEN stale ELSE Scanner
    /\ Leave(s)
    /\ UNCHANGED <<operation, world, holder, clock, ops>>

----------------------------------------------------------------------------
InitRow(p) ==
    IF ~Exists(p) THEN None
    ELSE LET id(q) == CHOOSE k \in 1..Len(Order) : Order[k] = q
         IN  [id |-> id(p), parent |-> IF p = Root THEN 0 ELSE id(Up[p]), dir |-> disk[p].dir, rev |-> disk[p].rev, missing |-> 0]

Init ==
    /\ disk = InitDisk
    /\ nodes = [p \in Path |-> InitRow(p)]
    /\ etag = [p \in Path |-> 0]
    /\ operation = None /\ holder = FALSE
    /\ clock = 0 /\ ids = Len(Order) /\ revs = 1 /\ externals = 0 /\ ops = 0 /\ removed = {}
    /\ pc = [s \in Scanner |-> "idle"] /\ stale = {}
    /\ old = [s \in Scanner |-> NoWalk] /\ listed = [s \in Scanner |-> {}] /\ found = [s \in Scanner |-> NoWalk]

Step(s) ==
    \/ ReadEpoch(s) \/ ReadPending(s) \/ Records(s) \/ Visit(s) \/ ReadAgain(s)
    \/ LockRoot(s) \/ LockTimeout(s) \/ CheckEpoch(s) \/ Commit(s)

Publish ==
    \/ GiveUp \/ MoveAside \/ Rename \/ Finish \/ Recover
    \/ \E kind \in {"create", "replace", "move", "trash"}, from, to \in (Path \ {Root}) \cup {None} : Journal(kind, from, to)

Next ==
    \/ \E s \in Scanner : Step(s)
    \/ \E p \in Path : ExternalWrite(p) \/ ExternalMkdir(p) \/ ExternalRemove(p)
    \/ Tick \/ Begin \/ Publish \/ Die

Spec == Init /\ [][Next]_vars

----------------------------------------------------------------------------
(* Rows, entries and scans have their types; the locks of a publication    *)
(* and of the commit of a scan exclude each other.                         *)
TypeOK ==
    /\ \A p \in Path : disk[p] = None \/ disk[p] \in [dir : BOOLEAN, rev : 0..revs]
    /\ \A p \in Path : nodes[p] = None \/
         nodes[p] \in [id : 1..ids, parent : 0..ids, dir : BOOLEAN, rev : 0..revs, missing : 0..(MaxClock + 1)]
    /\ \A s \in Scanner : pc[s] \in {"idle", "pending", "records", "walk", "lock", "locked", "checked"}
    /\ holder => RootFree
    /\ Cardinality({s \in Scanner : pc[s] \in {"locked", "checked"}}) <= 1

(* "A database mutation epoch rejects stale observations": a row never     *)
(* takes the revision of an older observation, although scans and          *)
(* publications overlap (store.go:456, 487).                               *)
NeverRegress ==
    \A p \in Path : nodes[p] # None /\ nodes'[p] # None /\ nodes'[p].id = nodes[p].id => nodes'[p].rev >= nodes[p].rev

(* A walk that runs beside publications and recoveries never makes a node  *)
(* disappear: what a scan hides or drops was removed on the mount.         *)
NoFalseLoss ==
    \A p \in Path \ removed : Visible(p) =>
          \/ nodes'[p] # None /\ nodes'[p].id = nodes[p].id /\ nodes'[p].missing = 0
          \/ operation # None /\ p = operation.from

(* Every visible row hangs under the visible row of its directory, by id,  *)
(* whichever of them vanished, came back or was published by whom.         *)
RowsFormTree ==
    \A p \in Path \ {Root} : Visible(p) =>
        Visible(Up[p]) /\ nodes[Up[p]].dir /\ nodes[p].parent = nodes[Up[p]].id

(* "A scan losing more than ten entries and more than 25% of known entries *)
(* stops": no commit hides more of the rows there are at that moment.      *)
BulkLossStops ==
    \A s \in Scanner : pc[s] = "checked" /\ pc'[s] = "idle" =>
          LET lost == {p \in Path : Visible(p) /\ nodes'[p] # None /\ nodes'[p].missing # 0}
          IN  Cardinality(lost) <= Limit \/ Cardinality(lost) * 4 <= Cardinality({p \in Path : nodes[p] # None})

(* "Polling imports external additions and size/mtime changes": when the   *)
(* edits are over, the visible rows come to be the entries of the mount.   *)
Imported == \A p \in Path : IF Exists(p) THEN Visible(p) /\ nodes[p].dir = disk[p].dir /\ nodes[p].rev = disk[p].rev
                            ELSE ~Visible(p)
=============================================================================
