----------------------------- MODULE LdapGroups -----------------------------
(***************************************************************************)
(* The graph service's LDAP backend: users, groups and who is a member.    *)
(*                                                                         *)
(* A group refers to its members by distinguished name, which is made of   *)
(* the user's name, and a request is a sequence of calls to the directory, *)
(* each of which is atomic.  A group must have a member value: an empty    *)
(* group has the empty one.  A group that does not exist has no values.    *)
(* The group of disabled users is one of the groups.                       *)
(***************************************************************************)
EXTENDS Naturals, FiniteSets

CONSTANTS
    MaxUsers,       \* users there ever are
    Name,           \* names of users, and so their DNs
    Group,
    Disabled,       \* the group of disabled users
    Slot,           \* requests at the same time
    MaxRequests,
    Ops,            \* operations that are requested
    Refint,         \* the directory keeps references intact itself
    Faults          \* calls to the directory fail

Id == 1..MaxUsers
None == "none"
Nobody == 0
Empty == "empty"

VARIABLES
    entry,      \* Name -> the user with that name
    member,     \* Group -> its member values
    req,        \* Slot -> the request it works on
    count,      \* requests so far
    nextId,     \* new users get new ids
    acked,      \* pairs of group and user, as the answers say
    torn        \* users with requests that overlapped or broke off

vars == <<entry, member, req, count, nextId, acked, torn>>

Idle == [op |-> None, pc |-> None, g |-> None, id |-> Nobody, dn |-> None, new |-> None,
         seen |-> {}, todo |-> {}, alone |-> TRUE]

Users == {entry[n] : n \in Name} \ {Nobody}

TypeOK ==
    /\ entry \in [Name -> Id \cup {Nobody}]
    /\ \A m, n \in Name : entry[m] = entry[n] /\ entry[m] # Nobody => m = n
    /\ member \in [Group -> SUBSET (Name \cup {Empty})]
    /\ \A s \in Slot : req[s].op \in Ops \cup {None}
    /\ count \in 0..MaxRequests /\ nextId \in 1..(MaxUsers + 1)
    /\ acked \subseteq Group \X Id /\ torn \subseteq Id

\* CreateLDAPGroupByDN: the group of disabled users is created at the start
Init ==
    /\ entry \in [Name -> 0..MaxUsers] /\ nextId = Cardinality(Users) + 1
    /\ Users = 1..Cardinality({n \in Name : entry[n] # Nobody})
    /\ member = [g \in Group |-> {Empty}]
    /\ req = [s \in Slot |-> Idle] /\ count = 0
    /\ acked = {} /\ torn = {}

----------------------------------------------------------------------------
(* The directory                                                           *)

\* a Modify that deletes and adds member values
Result(g, del, add) ==
    CASE member[g] = {} -> "noSuchObject"
      [] member[g] # {} /\ ~(del \subseteq member[g]) -> "noSuchAttribute"
      [] member[g] # {} /\ del \subseteq member[g] /\ add \cap member[g] # {} -> "exists"
      [] member[g] # {} /\ member[g] = del /\ add = {} -> "objectClassViolation"
      [] OTHER -> "ok"

Modified(g, del, add) == [member EXCEPT ![g] = (@ \ del) \cup add]

\* referential integrity: the DN is deleted from all groups, or replaced
References(dn, add) ==
    [g \in Group |-> IF dn \notin member[g] THEN member[g]
                     ELSE IF member[g] = {dn} /\ add = {} THEN {Empty}
                     ELSE (member[g] \ {dn}) \cup add]

----------------------------------------------------------------------------
(* Requests                                                                *)

Busy(i) == {s \in Slot : req[s].op # None /\ req[s].id = i}

\* requests of which the others must not move the user
Moves == {"delete", "rename"}

\* A request about a user overlaps one that deletes or renames the same one.
Overlaps(op, i) == \E s \in Busy(i) : op \in Moves \/ req[s].op \in Moves

\* users whose requests have read a DN
Holding(dn) == {req[s].id : s \in {t \in Slot : req[t].id # Nobody /\ req[t].dn = dn}}

\* A user takes a DN that another's request has read, or that a group still has.
Taken(dn, i) ==
    IF Holding(dn) = {} /\ \A g \in Group : dn \notin member[g] THEN torn
    ELSE torn \cup Holding(dn) \cup {i}

Begin(s, r) ==
    /\ req[s].op = None /\ r.op \in Ops /\ count < MaxRequests
    /\ req' = [t \in Slot |->
                  IF t = s THEN [r EXCEPT !.alone = (Busy(r.id) = {})]
                  ELSE [req[t] EXCEPT !.alone = @ /\ (t \notin Busy(r.id))]]
    /\ count' = count + 1
    /\ torn' = IF r.id # Nobody /\ Overlaps(r.op, r.id) THEN torn \cup {r.id} ELSE torn
    /\ acked' = IF r.op \in {"remove", "enable"} THEN acked \ {<<r.g, r.id>>} ELSE acked
    /\ UNCHANGED <<entry, member, nextId>>

Request(s) ==
    \/ \E n \in Name : Begin(s, [Idle EXCEPT !.op = "create", !.pc = "act", !.dn = n])
    \/ \E i \in Users : Begin(s, [Idle EXCEPT !.op = "delete", !.pc = "user", !.id = i])
    \/ \E i \in Users, n \in Name :
         entry[n] # i /\ Begin(s, [Idle EXCEPT !.op = "rename", !.pc = "user", !.id = i, !.new = n])
    \/ \E i \in Users, g \in Group \ {Disabled}, op \in {"add", "remove"} :
         Begin(s, [Idle EXCEPT !.op = op, !.pc = "group", !.id = i, !.g = g])
    \/ \E i \in Users, op \in {"disable", "enable"} :
         Begin(s, [Idle EXCEPT !.op = op, !.pc = "user", !.id = i, !.g = Disabled])
    \/ \E g \in Group \ {Disabled} :
         \/ Begin(s, [Idle EXCEPT !.op = "creategroup", !.pc = "act", !.g = g])
         \/ Begin(s, [Idle EXCEPT !.op = "deletegroup", !.pc = "group", !.g = g])

Answered(s, ok) ==
    /\ req' = [req EXCEPT ![s] = Idle]
    /\ acked' = IF ~ok THEN acked
                ELSE CASE req[s].op \in {"add", "disable"} -> acked \cup {<<req[s].g, req[s].id>>}
                       [] req[s].op \in {"remove", "enable"} -> acked \ {<<req[s].g, req[s].id>>}
                       [] OTHER -> acked

Goto(s, pc) == req' = [req EXCEPT ![s].pc = pc] /\ UNCHANGED acked

----------------------------------------------------------------------------
(* The calls                                                               *)

\* getLDAPGroupByNameOrID
FindGroup(s) ==
    /\ req[s].pc = "group"
    /\ IF member[req[s].g] = {} THEN Answered(s, FALSE)
       ELSE /\ req' = [req EXCEPT ![s].seen = member[req[s].g], 
                              ![s].pc = IF req[s].op = "deletegroup" THEN "act" ELSE "user"]
            /\ UNCHANGED acked
    /\ UNCHANGED <<entry, member, count, nextId, torn>>

\* getLDAPUserByID, getLDAPUserByNameOrID
FindUser(s) ==
    /\ req[s].pc = "user"
    /\ IF req[s].id \notin Users THEN Answered(s, FALSE)
       ELSE \E n \in Name : /\ entry[n] = req[s].id
                            /\ req' = [req EXCEPT ![s].dn = n, ![s].pc = "act"]
                            /\ UNCHANGED acked
    /\ UNCHANGED <<entry, member, count, nextId, torn>>

\* CreateUser: the entry is added with a new id
CreateUser(s) ==
    /\ req[s].op = "create" /\ req[s].pc = "act"
    /\ \/ /\ entry[req[s].dn] # Nobody
          /\ UNCHANGED <<entry, nextId, torn>>
       \/ /\ entry[req[s].dn] = Nobody
          /\ nextId <= MaxUsers
          /\ entry' = [entry EXCEPT ![req[s].dn] = nextId] /\ nextId' = nextId + 1
          /\ torn' = Taken(req[s].dn, nextId)
    /\ Answered(s, TRUE)
    /\ UNCHANGED <<member, count>>

\* Mutant of DeleteEntry: the groups are left to the directory.
DeleteEntryOnly(s) ==
    /\ req[s].op = "delete" /\ req[s].pc = "act"
    /\ entry' = [entry EXCEPT ![req[s].dn] = Nobody]
    /\ Answered(s, TRUE)
    /\ UNCHANGED <<member, count, nextId, torn>>

\* DeleteUser: the entry with the DN that was found
DeleteEntry(s) ==
    /\ req[s].op = "delete" /\ req[s].pc = "act"
    /\ IF entry[req[s].dn] = Nobody THEN Answered(s, FALSE) /\ UNCHANGED <<entry, member>>
       ELSE /\ entry' = [entry EXCEPT ![req[s].dn] = Nobody]
            /\ IF Refint THEN Answered(s, TRUE) /\ member' = References(req[s].dn, {})
               ELSE Goto(s, "groups") /\ UNCHANGED member
    /\ UNCHANGED <<count, nextId, torn>>

\* changeUserName: ModifyDN, then the renamed user is read again
ModifyDN(s) ==
    /\ req[s].op = "rename" /\ req[s].pc = "act"
    /\ IF entry[req[s].dn] = Nobody \/ entry[req[s].new] # Nobody
       THEN Answered(s, FALSE) /\ UNCHANGED <<entry, member, torn>>
       ELSE /\ entry' = [entry EXCEPT ![req[s].new] = entry[req[s].dn], ![req[s].dn] = Nobody]
            /\ torn' = Taken(req[s].new, req[s].id)
            /\ IF Refint THEN Answered(s, TRUE) /\ member' = References(req[s].dn, {req[s].new})
               ELSE Goto(s, "groups") /\ UNCHANGED member
    /\ UNCHANGED <<count, nextId>>

\* the groups that refer to the old DN
FindGroups(s) ==
    /\ req[s].pc = "groups"
    /\ LET found == {g \in Group : req[s].dn \in member[g]} IN
       req' = [req EXCEPT ![s].todo = {<<g, member[g]>> : g \in found}, ![s].pc = "clean"]
    /\ UNCHANGED <<entry, member, count, nextId, acked, torn>>

\* removeEntryByDNAndAttributeFromEntry: the last member is replaced
LastMember(seen) == IF Cardinality(seen) = 1 THEN {Empty} ELSE {}

\* renameMemberInGroup, or removal from one of the groups, again with the
\* empty value when it was the last member.  What fails while a user is
\* deleted is left as it is.
CleanGroup(s) ==
    /\ req[s].pc = "clean" /\ req[s].todo # {}
    /\ \E p \in req[s].todo :
         LET g == p[1]
             add == IF req[s].op = "rename" THEN {req[s].new}
                    ELSE IF p[2] = {} THEN {Empty} ELSE LastMember(p[2])
             res == Result(g, {req[s].dn}, add) IN
         /\ member' = IF res = "ok" THEN Modified(g, {req[s].dn}, add) ELSE member
         /\ IF req[s].op = "rename" /\ res = "exists" THEN Answered(s, FALSE)
            ELSE /\ UNCHANGED acked
                 /\ req' = [req EXCEPT ![s].todo = (@ \ {p}) \cup
                                (IF res = "objectClassViolation" THEN {<<g, {}>>} ELSE {})]
         /\ torn' = IF res = "exists" THEN torn \cup {req[s].id} ELSE torn
    /\ UNCHANGED <<entry, count, nextId>>

Cleaned(s) ==
    /\ req[s].pc = "clean" /\ req[s].todo = {}
    /\ Answered(s, TRUE)
    /\ UNCHANGED <<entry, member, count, nextId, torn>>

\* AddMembersToGroup: the empty value goes with the first member; when some
\* other request has removed it, the modification is made without.
AddMember(s) ==
    /\ req[s].op = "add" /\ req[s].pc \in {"act", "retry"}
    /\ LET del == IF req[s].pc = "act" /\ req[s].seen = {Empty} THEN {Empty} ELSE {}
           res == Result(req[s].g, del, {req[s].dn}) IN
       \/ /\ req[s].dn \in req[s].seen
          /\ req' = [req EXCEPT ![s] = Idle] /\ UNCHANGED <<acked, member>>
       \/ /\ req[s].dn \notin req[s].seen /\ res = "ok"
          /\ Answered(s, TRUE) /\ member' = Modified(req[s].g, del, {req[s].dn})
       \/ /\ req[s].dn \notin req[s].seen /\ res = "noSuchAttribute"
          /\ Goto(s, "retry") /\ UNCHANGED member
       \/ /\ req[s].dn \notin req[s].seen /\ res \in {"noSuchObject", "exists"}
          /\ Answered(s, FALSE) /\ UNCHANGED member
    /\ UNCHANGED <<entry, count, nextId, torn>>

\* RemoveMemberFromGroup
RemoveMember(s) ==
    /\ req[s].op = "remove" /\ req[s].pc \in {"act", "retry"}
    /\ LET add == IF req[s].pc = "retry" THEN {Empty} ELSE LastMember(req[s].seen)
           res == Result(req[s].g, {req[s].dn}, add) IN
       \/ /\ req[s].dn \notin req[s].seen
          /\ Answered(s, FALSE) /\ UNCHANGED member
       \/ /\ req[s].dn \in req[s].seen /\ res = "ok"
          /\ Answered(s, TRUE) /\ member' = Modified(req[s].g, {req[s].dn}, add)
       \/ /\ req[s].dn \in req[s].seen /\ res = "objectClassViolation"
          /\ Goto(s, "retry") /\ UNCHANGED member
       \/ /\ req[s].dn \in req[s].seen /\ res \notin {"ok", "objectClassViolation"}
          /\ Answered(s, FALSE) /\ UNCHANGED member
    /\ UNCHANGED <<entry, count, nextId, torn>>

\* addUserToDisableGroup, removeUserFromDisableGroup
Disable(s) ==
    /\ req[s].op = "disable" /\ req[s].pc = "act"
    /\ member' = [member EXCEPT ![Disabled] = @ \cup {req[s].dn}]
    /\ Answered(s, TRUE)
    /\ UNCHANGED <<entry, count, nextId, torn>>

Enable(s) ==
    /\ req[s].op = "enable" /\ req[s].pc = "act"
    /\ LET res == Result(Disabled, {req[s].dn}, {}) IN
       /\ member' = IF res = "ok" THEN Modified(Disabled, {req[s].dn}, {}) ELSE member
       /\ Answered(s, res \in {"ok", "noSuchAttribute"})
    /\ UNCHANGED <<entry, count, nextId, torn>>

\* CreateGroup, DeleteGroup
ChangeGroup(s) ==
    /\ req[s].op \in {"creategroup", "deletegroup"} /\ req[s].pc = "act"
    /\ member' = [member EXCEPT ![req[s].g] = IF req[s].op = "deletegroup" THEN {}
                                              ELSE IF @ = {} THEN {Empty} ELSE @]
    /\ acked' = IF req[s].op = "deletegroup" THEN {p \in acked : p[1] # req[s].g} ELSE acked
    /\ req' = [req EXCEPT ![s] = Idle]
    /\ UNCHANGED <<entry, count, nextId, torn>>

\* A call fails, or the renamed user is not on the replica that is asked yet:
\* the request ends where it is.
Fail(s) ==
    /\ Faults /\ req[s].op # None
    /\ Answered(s, FALSE)
    /\ torn' = IF req[s].op \in Moves /\ req[s].pc \in {"groups", "clean"}
               THEN torn \cup {req[s].id} ELSE torn
    /\ UNCHANGED <<entry, member, count, nextId>>

Step(s) ==
    \/ FindGroup(s) \/ FindUser(s) \/ CreateUser(s) \/ DeleteEntry(s) \/ ModifyDN(s)
    \/ FindGroups(s) \/ CleanGroup(s) \/ Cleaned(s) \/ AddMember(s) \/ RemoveMember(s)
    \/ Disable(s) \/ Enable(s) \/ ChangeGroup(s)

Next == \E s \in Slot : Request(s) \/ Step(s) \/ Fail(s)

Spec == Init /\ [][Next]_vars

----------------------------------------------------------------------------
(* Properties                                                              *)

Quiet == \A s \in Slot : req[s].op = None

\* Who was added to a group, or disabled, and not removed, enabled or deleted
\* since, is still a member when the requests are answered: under another
\* name, beside other requests for the first and the last member, and after
\* the group was created anew.  Requests that delete or rename the user at
\* the same time are left out (AddMembersToGroup, changeUserName,
\* removeEntryByDNAndAttributeFromEntry).
MembersStay ==
    Quiet => \A p \in acked : p[2] \in Users \ torn =>
                 \E n \in Name : entry[n] = p[2] /\ n \in member[p[1]]

\* No group refers to a DN without a user, which a new user of that name would
\* take over, unless requests for a user overlapped or broke off (DeleteUser,
\* changeUserName).
NoDangling ==
    Quiet /\ torn = {} => \A g \in Group : member[g] \subseteq {n \in Name : entry[n] # Nobody} \cup {Empty}

\* A removal that was right when the group was read leaves the user out,
\* whoever else is added and removed at the same time: it never gives up at
\* the last member.  It is refused only where another request has put the
\* empty value beside that member (removeEntryByDNAndAttributeFromEntry).
RemovalLasts ==
    \A s \in Slot :
        (/\ req[s].op = "remove" /\ req[s].pc \in {"act", "retry"}
         /\ req[s].dn \in req[s].seen /\ req[s].alone /\ req'[s].op = None) =>
            req[s].dn \notin member'[req[s].g] \/ Empty \in member[req[s].g]
=============================================================================
