---------------------------- MODULE Activitylog ----------------------------
(***************************************************************************)
(* The activitylog service: one consumer that puts every event on the list *)
(* of its resource and of all the parents it finds on the way to the root  *)
(* of the space, while the tree changes under it, and requests that show a *)
(* list and then remove what the event history no longer knows.            *)
(***************************************************************************)
EXTENDS EventHistory, SequencesExt, FiniteSets

CONSTANTS
    Resource, Root, Request, None,
    MaxActivities   \* _maxActivities, 6000 in the code

VARIABLES
    parent,   \* the tree: of each resource its parent, None of the root and in the trash
    bus,      \* queue of [id, kind, on, from] for the consumer
    fresh,    \* ids of events that have not happened yet
    list,     \* the store: of each resource its activities, or None for no record
    at,       \* where addActivity is: [id, ref, depth], or None
    asked,    \* of each request: [on, ids], what it has asked the event history for, or None
    toDelete, \* of each request: [on, ids], what its goroutine will remove, or None
    log,      \* history: all activities stored on a resource since it was last purged
    missing,  \* history: <<resource, id>> that a request found not in the event history
    origin,   \* history: [id, on] of the last event that was taken to climb with, or None
    moved     \* history: the tree has changed, or a call has failed, since then

vars == <<historyVars, parent, bus, fresh, list, at, asked, toDelete, log, missing, origin, moved>>
tree == <<parent, bus, fresh>>
requests == <<asked, toDelete, missing>>

----------------------------------------------------------------------------
(* What happens in the storage                                             *)

Emit(kind, r, from) ==
    \E e \in fresh :
        /\ \A f \in fresh : e <= f
        /\ fresh' = fresh \ {e} /\ bus' = Append(bus, [id |-> e, kind |-> kind, on |-> r, from |-> from])

Live(r) == r = Root \/ parent[r] # None
Below(r) == {x \in Resource : parent[x] = r}

(* An upload, a share, a link, ...                                         *)
Touch(r) ==
    /\ Live(r) /\ Emit("activity", r, None)
    /\ UNCHANGED <<historyVars, parent, list, at, requests, log, origin, moved>>

Move(r, d) ==
    /\ r # Root /\ Live(r) /\ Live(d) /\ d # parent[r] /\ d # r /\ Below(r) = {}
    /\ parent' = [parent EXCEPT ![r] = d] /\ Emit("activity", r, None)
    /\ moved' = TRUE
    /\ UNCHANGED <<historyVars, list, at, requests, log, origin>>

Trash(r) ==
    /\ r # Root /\ Live(r) /\ Below(r) = {}
    /\ parent' = [parent EXCEPT ![r] = None] /\ Emit("trashed", r, parent[r])
    /\ moved' = TRUE
    /\ UNCHANGED <<historyVars, list, at, requests, log, origin>>

PurgeItem(r) ==
    /\ ~Live(r) /\ Emit("purged", r, None)
    /\ UNCHANGED <<historyVars, parent, list, at, requests, log, origin, moved>>

(* A member is added to or removed from the space.                         *)
ShareSpace ==
    /\ Emit("space", Root, None)
    /\ UNCHANGED <<historyVars, parent, list, at, requests, log, origin, moved>>

----------------------------------------------------------------------------
(* The consumer                                                            *)

Activities(r) == IF list[r] = None THEN <<>> ELSE list[r]

(* The last ones, with room for one more.                                  *)
Capped(s) == IF Len(s) >= MaxActivities THEN SubSeq(s, Len(s) - MaxActivities + 2, Len(s)) ELSE s

(* storeActivity, under the lock.                                          *)
StoreActivity(r, e, depth) ==
    LET a == [id |-> e, depth |-> depth] IN
    /\ list' = [list EXCEPT ![r] = Append(Capped(Activities(r)), a)]
    /\ log' = [log EXCEPT ![r] = Append(@, a)]

Climb(e, r, depth) == [id |-> e, ref |-> r, depth |-> depth]

(* Run takes the next event.  Whoever was trashed keeps its activity; the  *)
(* parent it had is the first to climb from.                               *)
Run ==
    /\ at = None /\ bus # <<>>
    /\ bus' = Tail(bus)
    /\ LET e == Head(bus) IN
          \/ /\ e.kind = "activity" /\ at' = Climb(e.id, e.on, 0)
             /\ origin' = [id |-> e.id, on |-> e.on] /\ moved' = FALSE
             /\ UNCHANGED <<list, log>>
          \/ /\ e.kind = "trashed" /\ StoreActivity(e.on, e.id, 0) /\ at' = Climb(e.id, e.from, 0)
             /\ origin' = [id |-> e.id, on |-> e.from] /\ moved' = FALSE
          \/ /\ e.kind = "purged"   \* RemoveResource
             /\ list' = [list EXCEPT ![e.on] = None] /\ log' = [log EXCEPT ![e.on] = <<>>]
             /\ UNCHANGED <<at, origin, moved>>
          \/ /\ e.kind = "space" /\ StoreActivity(Root, e.id, 0) /\ UNCHANGED <<at, origin, moved>>
    /\ UNCHANGED <<historyVars, parent, fresh, requests>>

(* One round of addActivity: look the resource up, store, go on with the   *)
(* parent that was found.                                                  *)
NextDepth(d) == d + 1
AddActivity ==
    /\ at # None
    /\ IF Live(at.ref)
       THEN /\ StoreActivity(at.ref, at.id, at.depth)
            /\ at' = IF at.ref = Root THEN None
                     ELSE Climb(at.id, parent[at.ref], NextDepth(at.depth))
       ELSE at' = None /\ UNCHANGED <<list, log>>
    /\ UNCHANGED <<historyVars, tree, requests, origin, moved>>

(* The look-up or the store fails: the rest of the way is left.            *)
AddActivityFails ==
    /\ at # None /\ at' = None /\ moved' = TRUE
    /\ UNCHANGED <<historyVars, tree, list, requests, log, origin>>

----------------------------------------------------------------------------
(* HandleGetItemActivities                                                 *)

(* The list is read; the filter of the query lets depths up to d through:  *)
(* the resource itself, or everything below it.                            *)
HandleGet(q, r, d) ==
    /\ asked[q] = None /\ toDelete[q] = None /\ Live(r) /\ list[r] # None
    /\ asked' = [asked EXCEPT ![q] =
          [on |-> r, ids |-> {a.id : a \in {x \in ToSet(list[r]) : x.depth <= d}}]]
    /\ UNCHANGED <<historyVars, tree, list, at, toDelete, log, missing, origin, moved>>

(* What the event history does not return is removed in a goroutine.       *)
Answer(q) ==
    /\ asked[q] # None
    /\ LET r == asked[q].on
           gone == asked[q].ids \ GetEvents(asked[q].ids)
       IN /\ toDelete' = [toDelete EXCEPT ![q] = IF gone = {} THEN None ELSE [on |-> r, ids |-> gone]]
          /\ missing' = missing \cup ({r} \X gone)
    /\ asked' = [asked EXCEPT ![q] = None]
    /\ UNCHANGED <<historyVars, tree, list, at, log, origin, moved>>

(* RemoveActivities, under the lock.                                       *)
RemainingNone(s, ids) == <<>>
Remaining(s, ids) == SelectSeq(s, LAMBDA a : a.id \notin ids)
RemoveActivities(q) ==
    /\ toDelete[q] # None
    /\ list' = [list EXCEPT ![toDelete[q].on] = Remaining(Activities(toDelete[q].on), toDelete[q].ids)]
    /\ toDelete' = [toDelete EXCEPT ![q] = None]
    /\ UNCHANGED <<historyVars, tree, at, asked, log, missing, origin, moved>>

----------------------------------------------------------------------------
(* A directory d below the root is given with every resource in it.        *)
Init ==
    /\ HistoryInit /\ fresh = Event
    /\ \E d \in Resource \ {Root} : parent = [r \in Resource |-> CASE r = Root -> None [] r = d -> Root [] OTHER -> d]
    /\ bus = <<>> /\ at = None /\ missing = {} /\ origin = None /\ moved = FALSE
    /\ list = [r \in Resource |-> None] /\ log = [r \in Resource |-> <<>>]
    /\ asked = [q \in Request |-> None] /\ toDelete = [q \in Request |-> None]

Storage == \/ \E r \in Resource : Touch(r) \/ Trash(r) \/ PurgeItem(r) \/ \E d \in Resource : Move(r, d)
           \/ ShareSpace

Next ==
    \/ Storage \/ Run \/ AddActivity \/ AddActivityFails
    \/ \E e \in Event \ fresh :
          (StoreEvents(e) \/ Expire(e)) /\ UNCHANGED <<tree, list, at, requests, log, origin, moved>>
    \/ \E q \in Request :
          \/ \E r \in Resource, d \in {0, Cardinality(Resource)} : HandleGet(q, r, d)
          \/ Answer(q) \/ RemoveActivities(q)

Spec == Init /\ [][Next]_vars

----------------------------------------------------------------------------
(* Properties                                                              *)

TypeOK ==
    /\ parent \in [Resource -> Resource \cup {None}]
    /\ \A r \in Resource : Len(Activities(r)) <= MaxActivities
    /\ at = None \/ (at.id \in Event \ fresh /\ at.ref \in Resource)

(* The last MaxActivities activities of a resource stay on its list until  *)
(* a request finds the event gone from the event history, or the resource  *)
(* is purged: neither the cap nor a removal, which may have been decided   *)
(* on an older list, takes another one with it.                            *)
LatestKept ==
    \A r \in Resource :
        LET n == Len(log[r]) IN
        \A i \in 1..n : i > n - MaxActivities =>
            log[r][i] \in ToSet(Activities(r)) \/ <<r, log[r][i].id>> \in missing

(* "AddActivity adds the activity to the given resource and all its        *)
(* parents": when the climb is over and nothing was moved meanwhile, every *)
(* ancestor has it, with its distance as depth.                            *)
Ancestor(r, n) ==
    LET up[k \in 0..n] == IF k = 0 THEN r ELSE IF up[k-1] = None THEN None ELSE parent[up[k-1]]
    IN up[n]
Climbed ==
    (at = None /\ origin # None /\ ~moved /\ Live(origin.on)) =>
        \A n \in 0..Cardinality(Resource) :
            LET r == Ancestor(origin.on, n) IN
            r # None => [id |-> origin.id, depth |-> n] \in ToSet(log[r])
============================================================================
