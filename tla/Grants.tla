------------------------------- MODULE Grants -------------------------------
(***************************************************************************)
(* Grants of the remoteposix driver: what a user may do with a node        *)
(* follows from the grants on the node and on the folders above it, and    *)
(* members may pass on what they have.                                     *)
(*                                                                         *)
(* A change of a grant holds an exclusive lock on the node and shared ones *)
(* on the folders above it, so that the grants it has read stay as they    *)
(* are until it has written (module Locks): it is one step here.           *)
(***************************************************************************)
EXTENDS Naturals, FiniteSets

CONSTANTS
    SpaceRoot, Dir, File,    \* the nodes: a file in the folder or beside it
    Owner, Member, Group,
    Groups,             \* Member -> the groups it is in
    Bundle,             \* sets of permissions that grants are made of
    MaxChanges

Perm == {"Stat", "InitiateFileUpload", "Move", "AddGrant", "UpdateGrant", "RemoveGrant", "DenyGrant"}

ASSUME GrantsAssumption ==
    /\ SpaceRoot # Dir /\ File \notin {SpaceRoot, Dir} /\ Owner \notin Member
    /\ Groups \in [Member -> SUBSET Group] /\ Bundle \subseteq SUBSET Perm /\ MaxChanges \in Nat

Node == {SpaceRoot, Dir, File}
User == Member \cup {Owner}
Grantee == Member \cup Group

NoGrant == [is |-> "none", perms |-> {}]
Deny == [is |-> "deny", perms |-> {}]
Allow(ps) == [is |-> "allow", perms |-> ps]
Value == {Deny} \cup {Allow(ps) : ps \in Bundle}

VARIABLES
    parent,     \* of the file
    grant,      \* Node -> Grantee -> its grant
    by,         \* who made the last change
    given,      \* Node -> what the owner has ever granted on it or above it
    changes

grantVars == <<parent, grant, by, given, changes>>

GrantsTypeOK ==
    /\ parent \in {SpaceRoot, Dir}
    /\ grant \in [Node -> [Grantee -> Value \cup {NoGrant}]]
    /\ by \in User /\ given \in [Node -> SUBSET Perm] /\ changes \in 0..MaxChanges

GrantsInit ==
    /\ parent = Dir
    /\ grant = [n \in Node |-> [g \in Grantee |-> NoGrant]]
    /\ by = Owner /\ given = [n \in Node |-> {}] /\ changes = 0

----------------------------------------------------------------------------
\* the node and the folders above it
Chain(n) == {n, SpaceRoot} \cup (IF n = File THEN {parent} ELSE {})

Matching(u) == {u} \cup Groups[u]

\* a denial anywhere on the chain wins; else the grants add up
Permissions(u, n) ==
    IF u = Owner THEN Perm
    ELSE IF \E m \in Chain(n), g \in Matching(u) : grant[m][g] = Deny THEN {}
         ELSE UNION {grant[m][g].perms : m \in Chain(n), g \in Matching(u)}

PermissionsWithinAny(v, ps) == TRUE

PermissionsWithin(v, ps) == v.perms \subseteq ps

Needed(act) ==
    CASE act = "add" -> "AddGrant" [] act = "update" -> "UpdateGrant"
      [] act = "remove" -> "RemoveGrant" [] act = "deny" -> "DenyGrant"

\* what is to be written is within what the caller has
MayWrite(ps, act, v) ==
    act # "remove" => /\ v = Deny => "DenyGrant" \in ps
                      /\ PermissionsWithin(v, ps)

\* and so is what it takes the place of
MayReplace(ps, act, old) ==
    IF old = NoGrant THEN act = "update" => "AddGrant" \in ps
    ELSE /\ act = "add" => "UpdateGrant" \in ps
         /\ old = Deny => "DenyGrant" \in ps
         /\ PermissionsWithin(old, ps)

MayChange(u, n, act, v, old) ==
    u = Owner \/ LET ps == Permissions(u, n) IN
                 Needed(act) \in ps /\ MayWrite(ps, act, v) /\ MayReplace(ps, act, old)

Written(u, n, g, v) ==
    /\ grant' = [grant EXCEPT ![n][g] = v]
    /\ given' = IF u = Owner THEN [m \in Node |-> IF n \in Chain(m) THEN given[m] \cup v.perms ELSE given[m]]
                ELSE given
    /\ UNCHANGED parent

AddGrant(u, n, g) ==
    \E v \in Value : MayChange(u, n, "add", v, grant[n][g]) /\ Written(u, n, g, v)

UpdateGrant(u, n, g) ==
    \E v \in Value : MayChange(u, n, "update", v, grant[n][g]) /\ Written(u, n, g, v)

RemoveGrant(u, n, g) ==
    MayChange(u, n, "remove", NoGrant, grant[n][g]) /\ Written(u, n, g, NoGrant)

DenyGrant(u, n, g) ==
    MayChange(u, n, "deny", Deny, grant[n][g]) /\ Written(u, n, g, Deny)

\* the grants on the file go with it, those of the old folder no longer apply
MoveFile(u, to) ==
    /\ "Move" \in Permissions(u, File)
    /\ "InitiateFileUpload" \in Permissions(u, to)
    /\ to # parent
    /\ parent' = to
    /\ given' = [given EXCEPT ![File] = @ \cup given[to]]
    /\ UNCHANGED grant

GrantsNext ==
    /\ changes < MaxChanges /\ changes' = changes + 1
    /\ \E u \in User :
        /\ by' = u
        /\ \/ \E n \in Node, g \in Grantee : AddGrant(u, n, g) \/ UpdateGrant(u, n, g) \/ RemoveGrant(u, n, g) \/ DenyGrant(u, n, g)
           \/ \E to \in {SpaceRoot, Dir} : MoveFile(u, to)

GrantsSpec == GrantsInit /\ [][GrantsNext]_grantVars

----------------------------------------------------------------------------
(* Whoever passes it on and wherever the file is moved, a grant on a node  *)
(* holds only what the owner has at some time granted on that node or      *)
(* above it: changeGrant's checks leave members nothing to invent.         *)
NoEscalation == \A n \in Node, g \in Grantee : grant[n][g].perms \subseteq given[n]

(* A member does not lift a denial that applies to it, be it its own or    *)
(* that of one of its groups, on the node or on a folder above it: neither *)
(* by a change of grants nor by moving the file.                           *)
OwnDenialStays ==
    \A u \in Member, n \in Node :
        (by' = u /\ \E m \in Chain(n), g \in Matching(u) : grant[m][g] = Deny)
            => (\E m \in Chain(n)', g \in Matching(u) : grant'[m][g] = Deny)

(* Delegated sharing takes from others only what it could have given: a    *)
(* grant with more than the caller has on the node stays as it is, a       *)
(* denial unless the caller may deny.                                      *)
StrongerStay ==
    \A n \in Node, g \in Grantee :
        (grant'[n][g] # grant[n][g] /\ by' # Owner)
            => /\ grant[n][g].perms \subseteq Permissions(by', n)
               /\ Deny \in {grant[n][g], grant'[n][g]} => "DenyGrant" \in Permissions(by', n)

(* Whoever may share can give no more than the owner gave, lift no denial  *)
(* of its own, and take back no more than it could give (changeGrant,      *)
(* Move).                                                                  *)
DelegationLimited ==
    /\ [](GrantsTypeOK /\ NoEscalation)
    /\ [][OwnDenialStays /\ StrongerStay]_grantVars
=============================================================================
