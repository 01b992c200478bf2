------------------------------ MODULE Userlog ------------------------------
(***************************************************************************)
(* The userlog service: workers that append the id of an event to the list *)
(* of every user who shall hear of it, and requests that show and shorten  *)
(* these lists.  All of them change a list by reading it, altering the     *)
(* copy and writing it back, in steps that other processes can come        *)
(* between.                                                                *)
(***************************************************************************)
EXTENDS EventHistory, SequencesExt, FiniteSets

CONSTANTS
    User, Worker, Request, None,
    Kind,       \* of each event: what processEvent distinguishes
    Bad,        \* scans that found a virus, policy evaluations that did not continue
    Members,    \* of each event: the users who it concerns
    Executant,  \* of each event: the user who caused it, or None
    Muted,      \* <<user, kind>> that the user has switched off
    MaxFault    \* bound: failing calls

(* A request that shows events starts two goroutines that delete some.     *)
Process == Worker \cup Request \cup (Request \X {"expired", "outdated"})

VARIABLES
    pending,   \* events on the bus for the workers
    list,      \* the store: the ids of each user, <<>> when there is no record
    event,     \* of each worker: the event in its hands, or None
    todo,      \* of each worker: users whose lists are still to be altered
    told,      \* of each worker: users that processEvent has settled on
    ids,       \* of each request: the list it has read, or None
    job,       \* of each process: the alteration it is at, or None
    faults,
    sent,      \* <<user, event>> that an SSE was published for
    stored,    \* history: <<user, event>> whose addition was written
    dismissed, \* history: <<user, event>> deleted by the user, or outdated
    missing,   \* history: <<user, event>> that GetEvents found not in the event history
    raced,     \* history: users for whom two alterations have overlapped
    given      \* history: <<user, event>> of events that processEvent gave up

logVars == <<pending, list, event, todo, told, ids, job>>
ghosts == <<stored, dismissed, missing, raced, given>>
vars == <<historyVars, logVars, faults, sent, ghosts>>

Fault == faults < MaxFault /\ faults' = faults + 1

----------------------------------------------------------------------------
(* alterUserEventList                                                      *)

(* The alterations: add appends an id, del leaves ids out.                 *)
Alter(p, u, add, del, why) == [user |-> u, add |-> add, del |-> del, why |-> why, copy |-> None]

AlteredNothing(j) == j.copy \o (IF j.add = None THEN <<>> ELSE <<j.add>>)
Altered(j) ==
    SelectSeq(j.copy, LAMBDA e : e \notin j.del) \o (IF j.add = None THEN <<>> ELSE <<j.add>>)

Between(q, u) == job[q] # None /\ job[q].user = u /\ job[q].copy # None

ReadList(p) ==
    /\ job[p] # None /\ job[p].copy = None
    /\ job' = [job EXCEPT ![p].copy = list[job[p].user]]
    /\ raced' = raced \cup {u \in {job[p].user} : \E q \in Process \ {p} : Between(q, u)}
    /\ UNCHANGED <<historyVars, pending, list, event, todo, told, ids, faults, sent, stored, dismissed, missing, given>>

(* The alteration is written; an empty list deletes the record.            *)
WriteList(p) ==
    /\ job[p] # None /\ job[p].copy # None
    /\ LET j == job[p] IN
          /\ list' = [list EXCEPT ![j.user] = Altered(j)]
          /\ stored' = IF j.add = None THEN stored ELSE stored \cup {<<j.user, j.add>>}
          /\ dismissed' = IF j.why = "dismissed" THEN dismissed \cup ({j.user} \X j.del) ELSE dismissed
    /\ job' = [job EXCEPT ![p] = None]
    /\ UNCHANGED <<historyVars, pending, event, todo, told, ids, faults, sent, missing, raced, given>>

(* The store fails: a worker gives up the event, others just log.          *)
AlterFails(p) ==
    /\ job[p] # None /\ Fault
    /\ job' = [job EXCEPT ![p] = None]
    /\ IF p \in Worker
       THEN /\ given' = given \cup ((todo[p] \cup {job[p].user}) \X {event[p]})
            /\ event' = [event EXCEPT ![p] = None] /\ todo' = [todo EXCEPT ![p] = {}]
            /\ told' = [told EXCEPT ![p] = {}]
       ELSE UNCHANGED <<given, event, todo, told>>
    /\ UNCHANGED <<historyVars, pending, list, ids, sent, stored, dismissed, missing, raced>>

----------------------------------------------------------------------------
(* processEvent                                                            *)

(* I) Whom the event concerns.                                             *)
Candidates(e) ==
    CASE Kind[e] \in {"virusscan", "policies"} -> IF e \in Bad THEN Members[e] ELSE {}
      [] Kind[e] \in {"space", "share"} -> Members[e]
      [] OTHER -> {}

(* II) The filter: not the one who did it, nor who has switched it off.    *)
FilterExecutant(e, users) == users \ {Executant[e]}
FilterSettings(e, users) == {u \in users : <<u, Kind[e]>> \notin Muted}
Wanted(e) == FilterSettings(e, FilterExecutant(e, Candidates(e)))

(* A worker takes an event and settles on its users.  When the gateway or  *)
(* the look-up of members fails the event is dropped; when a setting       *)
(* cannot be read its user is left out.                                    *)
TakeEvent(w, e) ==
    /\ event[w] = None /\ e \in pending
    /\ pending' = pending \ {e}
    /\ \/ /\ todo' = [todo EXCEPT ![w] = Wanted(e)] /\ told' = [told EXCEPT ![w] = Wanted(e)]
          /\ given' = given /\ faults' = faults
       \/ \E lost \in SUBSET Wanted(e) \ {{}} :
             /\ Fault /\ given' = given \cup (lost \X {e})
             /\ todo' = [todo EXCEPT ![w] = Wanted(e) \ lost]
             /\ told' = [told EXCEPT ![w] = Wanted(e) \ lost]
    /\ event' = [event EXCEPT ![w] = e]
    /\ UNCHANGED <<historyVars, list, ids, job, sent, stored, dismissed, missing, raced>>

(* III) addEventToUser, user after user.                                   *)
AddEventToUser(w, u) ==
    /\ event[w] # None /\ job[w] = None /\ u \in todo[w]
    /\ job' = [job EXCEPT ![w] = Alter(w, u, event[w], {}, "added")]
    /\ todo' = [todo EXCEPT ![w] = @ \ {u}]
    /\ UNCHANGED <<historyVars, pending, list, event, told, ids, faults, sent, ghosts>>

(* IV) The SSEs of all users at the end; some may fail.                    *)
SendSSE(w) ==
    /\ event[w] # None /\ job[w] = None /\ todo[w] = {}
    /\ \/ sent' = sent \cup (told[w] \X {event[w]}) /\ faults' = faults
       \/ Fault /\ \E some \in SUBSET told[w] : sent' = sent \cup (some \X {event[w]})
    /\ event' = [event EXCEPT ![w] = None] /\ told' = [told EXCEPT ![w] = {}]
    /\ UNCHANGED <<historyVars, pending, list, todo, ids, job, ghosts>>
----------------------------------------------------------------------------
(* Requests                                                                *)

Quiet(r) == job[r] = None /\ ids[r] = None /\ \A x \in {"expired", "outdated"} : job[<<r, x>>] = None

(* GetEvents reads the list of the user,                                   *)
HandleGetEvents(r, u) ==
    /\ Quiet(r) /\ list[u] # <<>>
    /\ ids' = [ids EXCEPT ![r] = <<u, ToSet(list[u])>>]
    /\ UNCHANGED <<historyVars, pending, list, event, todo, told, job, faults, sent, ghosts>>

(* removeExpiredEvents: the ids that have come back without an event.      *)
ToDelete(all, received) == all \ received

(* asks the event history for the events and has those deleted that it did *)
(* not get, and those whose resource is gone.                              *)
ShowEvents(r) ==
    /\ ids[r] # None
    /\ LET u == ids[r][1]
           received == GetEvents(ids[r][2])
           gone == ToDelete(ids[r][2], received)
       IN \E outdated \in SUBSET received :
             /\ job' = [job EXCEPT
                   ![<<r, "expired">>] = IF gone = {} THEN None ELSE Alter(r, u, None, gone, "expired"),
                   ![<<r, "outdated">>] = IF outdated = {} THEN None ELSE Alter(r, u, None, outdated, "dismissed")]
             /\ missing' = missing \cup ({u} \X (ids[r][2] \ received))
    /\ ids' = [ids EXCEPT ![r] = None]
    /\ UNCHANGED <<historyVars, pending, list, event, todo, told, faults, sent, stored, dismissed, raced, given>>

(* HandleDeleteEvents, HandleDeleteEvent: a user deletes what it was shown.*)
HandleDeleteEvents(r, u, e) ==
    /\ Quiet(r) /\ e \in ToSet(list[u]) /\ e \in history
    /\ job' = [job EXCEPT ![r] = Alter(r, u, None, {e}, "dismissed")]
    /\ UNCHANGED <<historyVars, pending, list, event, todo, told, ids, faults, sent, ghosts>>

----------------------------------------------------------------------------
Init ==
    /\ HistoryInit /\ pending = Event
    /\ list = [u \in User |-> <<>>]
    /\ event = [w \in Worker |-> None] /\ todo = [w \in Worker |-> {}] /\ told = [w \in Worker |-> {}]
    /\ ids = [r \in Request |-> None] /\ job = [p \in Process |-> None]
    /\ faults = 0 /\ sent = {}
    /\ stored = {} /\ dismissed = {} /\ missing = {} /\ raced = {} /\ given = {}

Next ==
    \/ HistoryNext /\ UNCHANGED <<logVars, faults, sent, ghosts>>
    \/ \E p \in Process : ReadList(p) \/ WriteList(p) \/ AlterFails(p)
    \/ \E w \in Worker :
          \/ \E e \in Event : TakeEvent(w, e)
          \/ \E u \in User : AddEventToUser(w, u)
          \/ SendSSE(w)
    \/ \E r \in Request :
          \/ ShowEvents(r)
          \/ \E u \in User : HandleGetEvents(r, u) \/ \E e \in Event : HandleDeleteEvents(r, u, e)

Spec == Init /\ [][Next]_vars

----------------------------------------------------------------------------
(* Properties                                                              *)

TypeOK ==
    /\ unseen \subseteq Event /\ history \subseteq Event /\ pending \subseteq Event
    /\ \A u \in User : list[u] \in Seq(Event) /\ IsInjective(list[u])
    /\ \A w \in Worker : event[w] \in Event \cup {None} /\ todo[w] \subseteq told[w]
    /\ faults \in 0..MaxFault

Settled(u, e) == e \notin pending /\ \A w \in Worker : event[w] # e

(* "MemorizeEvents stores eventIDs a user wants to receive": when the      *)
(* workers are through, the event is in the list of everybody who wants    *)
(* it, unless that user or the event history has let it go, a call has     *)
(* failed, or two alterations of the list of the user have overlapped.     *)
LostOnlyByRace ==
    \A u \in User \ raced, e \in Event :
        (Settled(u, e) /\ u \in Wanted(e))
           => \/ e \in ToSet(list[u])
              \/ <<u, e>> \in dismissed \cup missing \cup given

(* An event that a user has deleted does not come back, unless an          *)
(* alteration of the same list was under way.                              *)
DismissedStays ==
    \A x \in dismissed : x[1] \notin raced => x[2] \notin ToSet(list[x[1]])

(* Whoever gets an SSE had the event put in the list first, so that it can *)
(* be fetched: processEvent returns when a list cannot be written.         *)
NotifiedWasStored == sent \subseteq stored

(* Nobody hears of what is none of their business, of their own doing, or  *)
(* of what they have switched off.                                         *)
OnlyWanted ==
    \A x \in stored \cup sent :
        /\ x[1] \in Members[x[2]] \ {Executant[x[2]]} /\ <<x[1], Kind[x[2]]>> \notin Muted
        /\ Kind[x[2]] \in {"virusscan", "policies"} => x[2] \in Bad
============================================================================
