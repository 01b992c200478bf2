----------------------------- MODULE MountFence -----------------------------
(***************************************************************************)
(* What the mount lease promises to the code that works on the mount: a    *)
(* process that has a lease keeps the root handle it was given, and        *)
(* nobody changes to another handle while there is a lease anywhere.  The  *)
(* only exception is a process that starts: it opens a handle of its own.  *)
(***************************************************************************)
EXTENDS Naturals

CONSTANTS Provider, Instance, None

VARIABLES handle,   \* the root handle of each provider, None when not running
          leases    \* the number of leases each provider has given out

vars == <<handle, leases>>

Init ==
    /\ \E i \in Instance : handle = [p \in Provider |-> i]
    /\ leases = [p \in Provider |-> 0]

(* A request of p is admitted.                                             *)
Grant(p) ==
    /\ handle[p] # None
    /\ leases' = [leases EXCEPT ![p] = leases[p] + 1]
    /\ UNCHANGED handle

(* A request ends, with all the leases of its thread.                      *)
Return(p) ==
    /\ leases[p] > 0
    /\ \E n \in 0..leases[p] : leases' = [leases EXCEPT ![p] = n]
    /\ UNCHANGED handle

(* A running provider takes a new handle: no lease exists anywhere.        *)
Switch(p, i) ==
    /\ handle[p] # None
    /\ \A q \in Provider : leases[q] = 0
    /\ handle' = [handle EXCEPT ![p] = i]
    /\ UNCHANGED leases

(* A provider dies, at any time, or shuts down, without leases.            *)
Stop(p) ==
    /\ handle' = [handle EXCEPT ![p] = None]
    /\ leases' = [leases EXCEPT ![p] = 0]

Start(p, i) ==
    /\ handle[p] = None
    /\ handle' = [handle EXCEPT ![p] = i]
    /\ UNCHANGED leases

Next ==
    \E p \in Provider :
        \/ Grant(p) \/ Return(p) \/ Stop(p)
        \/ \E i \in Instance : Switch(p, i) \/ Start(p, i)

Spec == Init /\ [][Next]_vars
=============================================================================
