---------------------------- MODULE EventHistory ----------------------------
(***************************************************************************)
(* The eventhistory service: it consumes every event from the bus, in its  *)
(* own time, keeps it until its TTL has passed, and hands out events by    *)
(* id.  The log services keep nothing but ids and ask here for the rest.   *)
(***************************************************************************)
EXTENDS Naturals, Sequences

CONSTANT Event

VARIABLES
    unseen,   \* events on the bus that StoreEvents has not consumed
    history   \* events in the store

historyVars == <<unseen, history>>

HistoryInit == unseen = Event /\ history = {}

(* One round of the loop.  An event that cannot be written is skipped.     *)
StoreEvents(e) ==
    /\ e \in unseen
    /\ unseen' = unseen \ {e}
    /\ history' \in {history \cup {e}, history}

(* The store drops a record whose TTL has passed.                          *)
Expire(e) ==
    /\ e \in history
    /\ history' = history \ {e}
    /\ UNCHANGED unseen

(* The events of the given ids; an id that is not found is left out.       *)
GetEvents(ids) == {e \in ids : e \in history}

HistoryNext == \E e \in Event : StoreEvents(e) \/ Expire(e)
============================================================================
