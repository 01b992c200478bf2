------------------------------- MODULE Locks -------------------------------
(***************************************************************************)
(* The resource locks of remoteposix (locks.go) on a tree of nodes: a      *)
(* request plans its locks from a snapshot of the metadata, takes them one *)
(* by one in the order of their keys, plans again and compares, recovers a *)
(* pending intent that overlaps, and only then works.  Recovery takes the  *)
(* session lock, a claim on the operation and its recorded locks.          *)
(*                                                                         *)
(* Publication models what happens to contents; here an operation changes  *)
(* the tree in one step, and locks are taken step by step.                 *)
(***************************************************************************)
EXTENDS Naturals, Sequences, FiniteSets

CONSTANTS
    Proc,       \* goroutines of all providers
    Id,         \* node ids, those to be created included
    Dir,        \* the ids that are directories
    Root,       \* the id of the space
    Name,       \* names of entries
    Session,    \* upload sessions
    Op,         \* operation ids
    None,
    Rank,       \* the order of the uuids and names in the keys
    InitNodes,  \* the tree at the start
    Request,    \* the requests that clients make
    MaxRequest, \* bound on requests
    MaxCrash    \* bound on crashes and I/O errors

VARIABLES
    nodes,      \* table nodes: parent, name and, in the trash, the operation
    operations, \* table operations
    retained,   \* table retained: the node of each item of the trash
    done,       \* sessions with a receipt
    unused,     \* operation ids not drawn yet
    pc, request, locks, stamp,   \* of each process: the request and its plan
    kept,       \* the session lock it has around everything
    taken,      \* locks of the current beginRefs or recoverOne
    want,       \* locks it still has to take
    op,         \* the operation it journaled or recovers
    back,       \* where recoverOne returns to
    requests, crashes

plan == <<request, locks, stamp>>
hold == <<kept, taken, want>>
vars == <<nodes, operations, retained, done, unused, pc, plan, hold, op, back, requests, crashes>>

(* The file lock of a key; the kind is the first part of the key.          *)
Entry(parent, name) == <<1, parent, name>>
Node(id) == <<2, id, id>>
OperationKey(o) == <<3, o, o>>
SessionKey(s) == <<4, s, s>>
Lock(k, w) == [key |-> k, write |-> w]
KeyRank(k) == 10000 * k[1] + 100 * Rank[k[2]] + Rank[k[3]]

Exists(i) == nodes[i] # None
Public(i) == Exists(i) /\ nodes[i].trash = None
Child(i, n) ==
    LET c == {j \in Id : Exists(j) /\ nodes[j].parent = i /\ nodes[j].name = n /\ nodes[j].trash = nodes[i].trash}
    IN  IF c = {} THEN None ELSE CHOOSE j \in c : TRUE

(* A node and the directories above it; an entry of the trash stands alone *)
Chain(i) ==
    LET up[k \in 0..Cardinality(Id)] ==
          IF k = 0 THEN {i}
          ELSE LET u == up[k - 1] IN u \cup {nodes[j].parent : j \in {m \in u : Public(m) /\ m # Root}}
    IN  up[Cardinality(Id)]
Below(i) == {j \in Id : Public(j) /\ i \in Chain(j)}

----------------------------------------------------------------------------
(* plan                                                                    *)

AddNode(i, w) ==
    IF Public(i)
    THEN UNION {{Lock(Node(j), w /\ j = i)} \cup
                (IF j = Root THEN {} ELSE {Lock(Entry(nodes[j].parent, nodes[j].name), w /\ j = i)}) : j \in Chain(i)}
    ELSE {Lock(Node(i), w), Lock(Node(Root), FALSE)}

(* The node after each part of the path of a reference.                    *)
Walk(ref) ==
    LET at[k \in 0..Len(ref.path)] ==
          IF k = 0 THEN (IF Exists(ref.base) THEN ref.base ELSE None)
          ELSE IF at[k - 1] = None THEN None ELSE Child(at[k - 1], ref.path[k])
    IN  at

PlanRef(ref) ==
    LET at == Walk(ref)
        last == Len(ref.path)
    IN  IF ~Exists(ref.base) THEN {Lock(Node(ref.base), ref.write), Lock(Node(Root), FALSE)}
        ELSE IF last = 0 THEN AddNode(ref.base, ref.write \/ ref.base \in Dir)
        ELSE AddNode(ref.base, FALSE) \cup
             UNION {{Lock(Entry(at[k - 1], ref.path[k]), ref.write /\ k = last)} \cup
                    (IF at[k] = None THEN {} ELSE AddNode(at[k], k = last /\ (ref.write \/ at[k] \in Dir))) :
                    k \in {j \in 1..last : at[j - 1] # None}}

Normalize(ls) == {l \in ls : l.write \/ Lock(l.key, TRUE) \notin ls}
Plan(refs) == Normalize(UNION {PlanRef(r) : r \in refs})

Stamped(refs) ==
    UNION {UNION {Chain(Walk(r)[k]) : k \in {j \in 0..Len(r.path) : Walk(r)[j] # None}} : r \in refs}
Stamp(refs) == {<<i, nodes[i]>> : i \in Stamped(refs)}

(* The locks of an operation: those of its public paths, and its node.     *)
PathRef(parent, name) == [base |-> parent, path |-> <<name>>, write |-> TRUE]

OperationLocks(i, places) ==
    Normalize(UNION {PlanRef(PathRef(x[1], x[2])) : x \in places} \cup {Lock(Node(i), TRUE)})

Overlap(a, b) == \E x \in a, y \in b : x.key = y.key /\ (x.write \/ y.write)

----------------------------------------------------------------------------
(* acquire: one key after the other; each lock is a file of its own, so a  *)
(* process that has a lock and takes it again waits like everybody else.   *)

Held(p) == kept[p] \cup taken[p]
Free(l) == \A q \in Proc : ~Overlap({l}, Held(q))
NextLock(p) == CHOOSE l \in want[p] : \A m \in want[p] : KeyRank(l.key) <= KeyRank(m.key)

Take(p) ==
    /\ want[p] # {}
    /\ Free(NextLock(p))
    /\ taken' = [taken EXCEPT ![p] = @ \cup {NextLock(p)}]
    /\ want' = [want EXCEPT ![p] = @ \ {NextLock(p)}]
    /\ UNCHANGED <<nodes, operations, retained, done, unused, pc, plan, kept, op, back, requests, crashes>>

(* The request is over, with or without an error.                          *)
End(p) ==
    /\ pc' = [pc EXCEPT ![p] = "idle"]
    /\ request' = [request EXCEPT ![p] = None]
    /\ locks' = [locks EXCEPT ![p] = {}] /\ stamp' = [stamp EXCEPT ![p] = {}]
    /\ kept' = [kept EXCEPT ![p] = {}] /\ taken' = [taken EXCEPT ![p] = {}] /\ want' = [want EXCEPT ![p] = {}]
    /\ op' = [op EXCEPT ![p] = None] /\ back' = [back EXCEPT ![p] = None]

(* A lock was not free for thirty seconds.                                 *)
Timeout(p) ==
    /\ want[p] # {} /\ ~Free(NextLock(p))
    /\ End(p)
    /\ UNCHANGED <<nodes, operations, retained, done, unused, requests, crashes>>

(* A process dies, or an I/O error ends its request: the locks are gone,   *)
(* a journaled operation stays.                                            *)
Crash(p) ==
    /\ pc[p] # "idle" /\ crashes < MaxCrash
    /\ End(p)
    /\ crashes' = crashes + 1
    /\ UNCHANGED <<nodes, operations, retained, done, unused, requests>>

Goto(p, l) == pc' = [pc EXCEPT ![p] = l]

----------------------------------------------------------------------------
(* A client's request: an id it names is one it has seen; a restore names  *)
(* an item of the trash.                                                   *)

Refs(r) == {r.src, r.dst} \ {None}

Begin(p, r) ==
    /\ pc[p] = "idle" /\ requests < MaxRequest
    /\ \A ref \in Refs(r) : Exists(ref.base)
    /\ requests' = requests + 1
    /\ IF r.kind = "restore"
       THEN \E o \in {x \in Op : retained[x] # None} :
              request' = [request EXCEPT ![p] = [r EXCEPT !.item = o,
                            !.src = [base |-> retained[o], path |-> <<>>, write |-> TRUE]]]
       ELSE request' = [request EXCEPT ![p] = r]
    /\ IF r.session = None
       THEN Goto(p, "plan") /\ UNCHANGED want
       ELSE Goto(p, "session") /\ want' = [want EXCEPT ![p] = {Lock(SessionKey(r.session), TRUE)}]
    /\ UNCHANGED <<nodes, operations, retained, done, unused, locks, stamp, kept, taken, op, back, crashes>>

(* recoverOne, called from one of three places.                            *)
RecoverOne(p, o, from) ==
    /\ op' = [op EXCEPT ![p] = o]
    /\ back' = [back EXCEPT ![p] = from]
    /\ taken' = [taken EXCEPT ![p] = {}]
    /\ IF o.session # None /\ Lock(SessionKey(o.session), TRUE) \notin kept[p]
       THEN /\ Goto(p, "rsession")
            /\ want' = [want EXCEPT ![p] = {Lock(SessionKey(o.session), TRUE)}]
       ELSE /\ Goto(p, "claim")
            /\ want' = [want EXCEPT ![p] = {Lock(OperationKey(o.id), TRUE)}]

(* beginSession has its lock: it is kept until the request ends.           *)
SessionLocked(p) ==
    /\ pc[p] = "session" /\ want[p] = {}
    /\ kept' = [kept EXCEPT ![p] = taken[p]]
    /\ taken' = [taken EXCEPT ![p] = {}]
    /\ Goto(p, "sessioncheck")
    /\ UNCHANGED <<nodes, operations, retained, done, unused, plan, want, op, back, requests, crashes>>

SessionCheck(p) ==
    /\ pc[p] = "sessioncheck"
    /\ LET mine == {o \in operations : o.session = request[p].session} IN
       \/ /\ \E o \in mine : RecoverOne(p, o, "sessioncheck")
          /\ UNCHANGED <<nodes, operations, retained, done, unused, plan, kept, requests, crashes>>
       \/ /\ mine = {} /\ request[p].session \notin done
          /\ Goto(p, "plan")
          /\ UNCHANGED <<nodes, operations, retained, done, unused, plan, hold, op, back, requests, crashes>>
       \/ /\ mine = {} /\ request[p].session \in done
          /\ End(p)
          /\ UNCHANGED <<nodes, operations, retained, done, unused, requests, crashes>>

----------------------------------------------------------------------------
(* beginRefs                                                               *)

PlanLocks(p) ==
    /\ pc[p] = "plan"
    /\ locks' = [locks EXCEPT ![p] = Plan(Refs(request[p]))]
    /\ stamp' = [stamp EXCEPT ![p] = Stamp(Refs(request[p]))]
    /\ want' = [want EXCEPT ![p] = Plan(Refs(request[p]))]
    /\ Goto(p, "acquire")
    /\ UNCHANGED <<nodes, operations, retained, done, unused, request, kept, taken, op, back, requests, crashes>>

Current(p) ==
    /\ locks[p] = Plan(Refs(request[p]))
    /\ stamp[p] = Stamp(Refs(request[p]))

(* Defect: the plan is not compared.                                       *)
PlanOnce(p) ==
    /\ pc[p] = "acquire" /\ want[p] = {}
    /\ Goto(p, "pending")
    /\ UNCHANGED <<nodes, operations, retained, done, unused, plan, hold, op, back, requests, crashes>>

PlanAgain(p) ==
    /\ pc[p] = "acquire" /\ want[p] = {}
    /\ \/ /\ Current(p)
          /\ Goto(p, "pending")
          /\ UNCHANGED taken
       \/ /\ ~Current(p)
          /\ Goto(p, "plan")
          /\ taken' = [taken EXCEPT ![p] = {}]
    /\ UNCHANGED <<nodes, operations, retained, done, unused, plan, kept, want, op, back, requests, crashes>>

(* Defect: pending operations are not looked at.                           *)
PendingIgnored(p) ==
    /\ pc[p] = "pending"
    /\ Goto(p, "granted")
    /\ UNCHANGED <<nodes, operations, retained, done, unused, plan, hold, op, back, requests, crashes>>

Pending(p) ==
    /\ pc[p] = "pending"
    /\ LET others == {o \in operations : Overlap(locks[p], o.locks)} IN
       \/ /\ others = {}
          /\ Goto(p, "granted")
          /\ UNCHANGED <<taken, want, op, back>>
       \/ \E o \in others : RecoverOne(p, o, "plan")
    /\ UNCHANGED <<nodes, operations, retained, done, unused, plan, kept, requests, crashes>>

----------------------------------------------------------------------------
(* The body of a request, up to the durable intent (apply).                *)

Resolve(ref) ==
    LET i == Walk(ref)[Len(ref.path)]
    IN  IF i # None /\ Public(ref.base) THEN i ELSE None
Parent(ref) == Resolve([ref EXCEPT !.path = SubSeq(@, 1, Len(@) - 1)])
FileName(ref) == ref.path[Len(ref.path)]

(* Where the operation puts its node: a free name in a public directory.   *)
TargetOK(ref, n) ==
    /\ Parent(ref) \in Dir
    /\ Parent(ref) \notin Below(n)
    /\ Child(Parent(ref), FileName(ref)) = None

BodyOK(r) ==
    CASE r.kind = "move"    -> Resolve(r.src) \notin {None, Root} /\ TargetOK(r.dst, Resolve(r.src))
      [] r.kind = "trash"   -> Resolve(r.src) \notin {None, Root}
      [] r.kind = "create"  -> TargetOK(r.dst, r.node) /\ ~Exists(r.node)
      [] r.kind = "restore" -> retained[r.item] # None /\ TargetOK(r.dst, r.src.base)
      [] OTHER              -> FALSE

Moving(r) == IF r.kind = "create" THEN r.node ELSE IF r.kind = "restore" THEN r.src.base ELSE Resolve(r.src)

(* Source and Target, the public ones: a directory and a name in it.       *)
Places(r) ==
    (IF r.dst # None THEN {<<Parent(r.dst), FileName(r.dst)>>} ELSE {}) \cup
    (IF r.kind \in {"move", "trash"} THEN {<<nodes[Moving(r)].parent, nodes[Moving(r)].name>>} ELSE {})

Intent(r, o) ==
    [id |-> o, kind |-> r.kind, node |-> Moving(r), session |-> r.session,
     parent |-> IF r.dst = None THEN None ELSE Parent(r.dst),
     name |-> IF r.dst = None THEN None ELSE FileName(r.dst),
     locks |-> OperationLocks(Moving(r), Places(r)),
     paths |-> UNION {{<<i, nodes[i]>> : i \in Chain(x[1])} : x \in Places(r)}]

Journal(p) ==
    /\ pc[p] = "granted"
    /\ BodyOK(request[p])
    /\ \E o \in IF request[p].kind = "restore" THEN {request[p].item} ELSE {CHOOSE x \in unused : TRUE} :
        /\ op' = [op EXCEPT ![p] = Intent(request[p], o)]
        /\ operations' = operations \cup {Intent(request[p], o)}
        /\ unused' = unused \ {o}
    /\ Goto(p, "journaled")
    /\ UNCHANGED <<nodes, retained, done, plan, hold, back, requests, crashes>>

(* A reader, or a request that is refused.                                 *)
Return(p) ==
    /\ pc[p] = "granted"
    /\ ~BodyOK(request[p])
    /\ End(p)
    /\ UNCHANGED <<nodes, operations, retained, done, unused, requests, crashes>>

(* finish: the tree after the operation.                                   *)
NodesAfter(o) ==
    CASE o.kind = "move"    -> [nodes EXCEPT ![o.node].parent = o.parent, ![o.node].name = o.name]
      [] o.kind = "create"  -> [nodes EXCEPT ![o.node] = [parent |-> o.parent, name |-> o.name, trash |-> None]]
      [] o.kind = "trash"   -> [i \in Id |-> IF i \in Below(o.node) THEN [nodes[i] EXCEPT !.trash = o.id] ELSE nodes[i]]
      [] o.kind = "restore" ->
            [i \in Id |-> IF i = o.node THEN [parent |-> o.parent, name |-> o.name, trash |-> None]
                          ELSE IF Exists(i) /\ nodes[i].trash = o.id THEN [nodes[i] EXCEPT !.trash = None] ELSE nodes[i]]

Finish(o) ==
    /\ nodes' = NodesAfter(o)
    /\ operations' = {x \in operations : x.id # o.id}
    /\ retained' = CASE o.kind = "trash"   -> [retained EXCEPT ![o.id] = o.node]
                     [] o.kind = "restore" -> [retained EXCEPT ![o.id] = None]
                     [] OTHER              -> retained
    /\ done' = done \cup ({o.session} \ {None})

Commit(p) ==
    /\ pc[p] = "journaled"
    /\ Finish(op[p])
    /\ End(p)
    /\ UNCHANGED <<unused, requests, crashes>>

----------------------------------------------------------------------------
(* recoverOne: session, claim, locks; read the journal again; finish.      *)

RecoverPick(p, o) ==
    /\ pc[p] = "idle"
    /\ RecoverOne(p, o, "idle")
    /\ UNCHANGED <<nodes, operations, retained, done, unused, plan, kept, requests, crashes>>

Claim(p) ==
    /\ pc[p] = "rsession" /\ want[p] = {}
    /\ Goto(p, "claim")
    /\ want' = [want EXCEPT ![p] = {Lock(OperationKey(op[p].id), TRUE)}]
    /\ UNCHANGED <<nodes, operations, retained, done, unused, plan, kept, taken, op, back, requests, crashes>>

LockOperation(p) ==
    /\ pc[p] = "claim" /\ want[p] = {}
    /\ Goto(p, "oplocks")
    /\ want' = [want EXCEPT ![p] = op[p].locks]
    /\ UNCHANGED <<nodes, operations, retained, done, unused, plan, kept, taken, op, back, requests, crashes>>

(* Defect: recovery stops at an operation that somebody may still run.     *)
RecoveredLeft(p) ==
    /\ pc[p] = "oplocks" /\ want[p] = {}
    /\ Goto(p, back[p])
    /\ taken' = [taken EXCEPT ![p] = {}]
    /\ op' = [op EXCEPT ![p] = None] /\ back' = [back EXCEPT ![p] = None]
    /\ UNCHANGED <<nodes, operations, retained, done, unused, plan, kept, want, requests, crashes>>

Recovered(p) ==
    /\ pc[p] = "oplocks" /\ want[p] = {}
    /\ \/ \E o \in operations : o.id = op[p].id /\ Finish(o)
       \/ /\ \A o \in operations : o.id # op[p].id
          /\ UNCHANGED <<nodes, operations, retained, done>>
    /\ Goto(p, back[p])
    /\ taken' = [taken EXCEPT ![p] = {}]
    /\ op' = [op EXCEPT ![p] = None] /\ back' = [back EXCEPT ![p] = None]
    /\ UNCHANGED <<unused, plan, kept, want, requests, crashes>>

----------------------------------------------------------------------------
Init ==
    /\ nodes = InitNodes
    /\ operations = {} /\ retained = [o \in Op |-> None] /\ done = {} /\ unused = Op
    /\ pc = [p \in Proc |-> "idle"]
    /\ request = [p \in Proc |-> None]
    /\ locks = [p \in Proc |-> {}] /\ stamp = [p \in Proc |-> {}]
    /\ kept = [p \in Proc |-> {}] /\ taken = [p \in Proc |-> {}] /\ want = [p \in Proc |-> {}]
    /\ op = [p \in Proc |-> None] /\ back = [p \in Proc |-> None]
    /\ requests = 0 /\ crashes = 0

Step(p) ==
    \/ Take(p) \/ SessionLocked(p) \/ SessionCheck(p) \/ PlanLocks(p) \/ PlanAgain(p) \/ Pending(p)
    \/ Journal(p) \/ Return(p) \/ Commit(p) \/ Claim(p) \/ LockOperation(p) \/ Recovered(p)

Next ==
    \E p \in Proc :
        \/ Step(p) \/ Timeout(p) \/ Crash(p)
        \/ \E r \in Request : Begin(p, r)
        \/ \E o \in operations : RecoverPick(p, o)

Spec == Init /\ [][Next]_vars
(* A goroutine that is not idle and not waiting for a lock goes on.        *)
CanStep(p) == pc[p] # "idle" /\ (want[p] # {} => Free(NextLock(p)))

----------------------------------------------------------------------------
(* Records have their types; an idle process has no lock left, and a       *)
(* session lock is kept only around a request of that session.             *)
TypeOK ==
    /\ nodes \in [Id -> {None} \cup [parent : Dir \cup {None}, name : Name \cup {None}, trash : Op \cup {None}]]
    /\ retained \in [Op -> Id \cup {None}] /\ done \subseteq Session /\ unused \subseteq Op
    /\ pc \in [Proc -> {"idle", "session", "sessioncheck", "plan", "acquire", "pending", "granted",
                        "journaled", "rsession", "claim", "oplocks"}]
    /\ \A p \in Proc : pc[p] = "idle" => Held(p) \cup want[p] = {} /\ op[p] = None
    /\ \A p \in Proc : kept[p] # {} => kept[p] = {Lock(SessionKey(request[p].session), TRUE)}

(* beginRefs plans again after it has the locks (locks.go:275): from then  *)
(* until the request is over, what its references mean, and so the locks   *)
(* it needs, is what it planned, whatever the others rename or delete.     *)
PlanStaysCurrent ==
    \A p \in Proc : pc[p] \in {"pending", "granted", "journaled"} => Current(p)

(* Moves, deletions, restores and creations of several processes, some cut *)
(* short and finished by others, leave a tree: names are unique, every     *)
(* public node hangs under public directories up to the root.              *)
TreeIsTree ==
    \A i \in {j \in Id : Public(j)} :
        /\ Root \in Chain(i)
        /\ i # Root => nodes[i].parent \in Dir /\ Public(nodes[i].parent)
        /\ \A j \in Id \ {i} : Public(j) => <<nodes[j].parent, nodes[j].name>> # <<nodes[i].parent, nodes[i].name>>

(* The paths in a journaled operation mean what they meant when it was     *)
(* written, until somebody finishes it: nobody moves or removes a          *)
(* directory above them or occupies the target (locks.go:285-312).         *)
IntentsApply ==
    \A o \in operations :
        /\ \A x \in o.paths : nodes[x[1]] = x[2]
        /\ o.parent # None => Public(o.parent) /\ Child(o.parent, o.name) = None
        /\ o.kind = "restore" => retained[o.id] = o.node

(* Two pending operations never need the same lock, so recovery may finish *)
(* them in any order (recover goes through them one by one).               *)
IntentsDisjoint ==
    \A a, b \in operations : a # b => ~Overlap(a.locks, b.locks)

(* The locks never make processes wait in a circle: session, then claim,   *)
(* then the sorted resource locks, which beginRefs gives back before it    *)
(* recovers for somebody else (locks.go:306, 345).                         *)
WaitsFor(p, q) == want[p] # {} /\ Overlap({NextLock(p)}, Held(q))
NoWaitCycle ==
    \A S \in SUBSET Proc \ {{}} : \E p \in S : \A q \in S : ~WaitsFor(p, q)

(* "Live publishers own the same resources, so recovery cannot interfere   *)
(* with them": nobody gets as far as finishing an operation while the      *)
(* request that journaled it is still at work (locks.go:353).              *)
RecoveryWaits ==
    \A p, q \in Proc :
        pc[p] = "journaled" /\ pc[q] = "oplocks" /\ op[q].id = op[p].id => want[q] # {}

(* "Directory moves, deletion and grant changes exclude conflicting        *)
(* descendant requests": while one request moves or deletes a node, no     *)
(* other one works on anything below it.                                   *)
Working(p) == pc[p] \in {"granted", "journaled"}
Touched(r) == {Resolve(ref) : ref \in Refs(r)}
DescendantsExcluded ==
    \A p, q \in Proc :
        p # q /\ Working(p) /\ Working(q) /\ request[p].kind \in {"move", "trash"} =>
            \A n \in {Resolve(request[p].src)} \ {None, Root} : Touched(request[q]) \cap Below(n) = {}

(* Every request ends without the thirty second timeout being needed, in   *)
(* spite of crashes and of recoveries it has to make first, and what was   *)
(* journaled is finished, if need be by somebody else.                     *)
Settled == operations = {} /\ \A p \in Proc : pc[p] = "idle"
============================================================================
