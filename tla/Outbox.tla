------------------------------- MODULE Outbox -------------------------------
(***************************************************************************)
(* The outbox of remoteposix: transactions insert notifications, numbered  *)
(* by the database in the order of the commits, and the maintenance of     *)
(* every process that has the space open publishes them in batches.        *)
(* Transactions themselves are in Publication and Scan; a crash leaves an  *)
(* outbox row exactly when its transaction was committed.                  *)
(***************************************************************************)
EXTENDS Naturals, FiniteSets

CONSTANTS
    Process, None,
    Limit,     \* rows of a batch, 100 in the code
    MaxEvent, MaxFault   \* bounds

ASSUME OutboxAssumption ==
    /\ None \notin Process /\ Limit \in Nat \ {0} /\ MaxEvent \in Nat /\ MaxFault \in Nat

Id == 1..MaxEvent

VARIABLES
    last,    \* AUTOINCREMENT: the id given last
    outbox,  \* ids of the rows
    lock,    \* the process that holds the lock "outbox", or None
    batch,   \* of each process: the ids it still has to deal with
    row,     \* of each process: the id it has published and not deleted, or 0
    sends,   \* of each id: how often it was published
    faults   \* crashes, and calls that failed

vars == <<last, outbox, lock, batch, row, sends, faults>>

IsLeast(i, S) == i \in S /\ \A j \in S : i <= j

(* A transaction commits with one more notification.                       *)
Commit ==
    /\ last < MaxEvent
    /\ last' = last + 1 /\ outbox' = outbox \cup {last + 1}
    /\ UNCHANGED <<lock, batch, row, sends, faults>>

(* Mutants: no lock, no order.                                             *)
AcquireAnyway(p) == lock' = IF lock = None THEN p ELSE lock
Acquire(p) == lock = None /\ lock' = p
FirstRows(b) == b \subseteq outbox /\ \A i \in b, j \in outbox : j < i => j \in b

(* publish takes the lock and reads the first rows.                        *)
ReadBatch(p) ==
    /\ batch[p] = {} /\ row[p] = 0 /\ outbox # {}
    /\ Acquire(p)
    /\ \E b \in SUBSET Id :
          /\ FirstRows(b)
          /\ Cardinality(b) = (IF Cardinality(outbox) < Limit THEN Cardinality(outbox) ELSE Limit)
          /\ batch' = [batch EXCEPT ![p] = b]
    /\ UNCHANGED <<last, outbox, row, sends, faults>>

(* The next row of the batch is published.                                 *)
Publish(p) ==
    /\ batch[p] # {} /\ row[p] = 0
    /\ \E i \in Id :
          /\ IsLeast(i, batch[p])
          /\ sends' = [sends EXCEPT ![i] = @ + 1] /\ row' = [row EXCEPT ![p] = i]
    /\ UNCHANGED <<last, outbox, lock, batch, faults>>

ReleaseNot(p) == lock' = lock
Release(p) == lock' = IF lock = p THEN None ELSE lock

(* It is deleted; after the last one publish returns.                      *)
DeleteRow(p) ==
    /\ row[p] # 0
    /\ outbox' = outbox \ {row[p]}
    /\ batch' = [batch EXCEPT ![p] = @ \ {row[p]}] /\ row' = [row EXCEPT ![p] = 0]
    /\ IF batch'[p] = {} THEN Release(p) ELSE lock' = lock
    /\ UNCHANGED <<last, sends, faults>>

(* Publishing or deleting fails, or the process dies, before or after the  *)
(* event was published: the rest of the batch stays where it is.           *)
Fail(p) ==
    /\ batch[p] # {} /\ faults < MaxFault
    /\ faults' = faults + 1
    /\ batch' = [batch EXCEPT ![p] = {}] /\ row' = [row EXCEPT ![p] = 0]
    /\ Release(p)
    /\ UNCHANGED <<last, outbox, sends>>

Init ==
    /\ last = 0 /\ outbox = {} /\ lock = None /\ faults = 0
    /\ batch = [p \in Process |-> {}] /\ row = [p \in Process |-> 0]
    /\ sends = [i \in Id |-> 0]

Next ==
    \/ Commit
    \/ \E p \in Process : ReadBatch(p) \/ Publish(p) \/ DeleteRow(p) \/ Fail(p)

Spec == Init /\ [][Next]_vars

----------------------------------------------------------------------------
(* Properties                                                              *)

TypeOK ==
    /\ last \in 0..MaxEvent /\ outbox \subseteq Id /\ lock \in Process \cup {None}
    /\ batch \in [Process -> SUBSET Id] /\ row \in [Process -> Id \cup {0}]
    /\ sends \in [Id -> Nat] /\ faults \in 0..MaxFault

(* "Delivery is at least once": a row goes only when its event was         *)
(* published, whoever fails or dies and whenever.                          *)
AtLeastOnce == \A i \in 1..last : i \in outbox \/ sends[i] > 0

(* An event is not published before all that were committed before it.     *)
InOrder == \A i \in Id, j \in Id : (j < i /\ sends[i] > 0) => sends[j] > 0

(* The lock leaves failures as the only cause of duplicates: each of them  *)
(* repeats one event at most.                                              *)
Extra(i) == IF sends[i] = 0 THEN 0 ELSE sends[i] - 1
DuplicatesByFault == \A i \in Id : Extra(i) <= faults

(* The inductive strengthening: who has a batch has the lock; a batch is a *)
(* first part of what is in the outbox; the row that a process has         *)
(* published is in its batch; and a row that nobody has just published was *)
(* published once at most for every failure.                               *)
IInv ==
    /\ TypeOK
    /\ outbox \subseteq 1..last
    /\ \A i \in Id : i > last => sends[i] = 0
    /\ \A p \in Process :
          /\ batch[p] # {} => lock = p
          /\ FirstRows(batch[p])
          /\ row[p] # 0 => row[p] \in batch[p] /\ sends[row[p]] > 0
    /\ AtLeastOnce /\ InOrder
    /\ \A i \in Id : sends[i] <= faults + 1
    /\ \A i \in outbox : (\A p \in Process : row[p] # i) => sends[i] <= faults

(* What a subscriber may count on: no event is lost, none overtakes an     *)
(* earlier one, and a repetition has a failure behind it.                  *)
OutboxSound == IInv /\ AtLeastOnce /\ InOrder /\ DuplicatesByFault

(* Every notification is published, and its row goes, when maintenance     *)
(* keeps running and failures end.                                         *)
Delivered == outbox = {} /\ \A i \in 1..last : sends[i] > 0
============================================================================
