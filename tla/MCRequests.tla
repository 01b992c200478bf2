----------------------------- MODULE MCRequests -----------------------------
(***************************************************************************)
(* Services that answer requests: the roles that settings assigns, the     *)
(* WOPI operations of collaboration, and the users, groups and schools     *)
(* that graph keeps in LDAP.  The first state settles which of them a      *)
(* behaviour is about; the others rest.  The roles are extended: their     *)
(* constants are those of requests that overlap.                           *)
(***************************************************************************)
EXTENDS Roles

CONSTANTS nothing, e1, e2, n1, n2, g1, disabled

VARIABLES
    part,
    node, version, wreq, sent, had,
    entry, member, greq, gcount, gnext, acked, torn,
    school, memberOf, sreq, scount, snext, reply, overlap

wopi == <<node, version, wreq, sent, had>>
groups == <<entry, member, greq, gcount, gnext, acked, torn>>
schools == <<school, memberOf, sreq, scount, snext, reply, overlap>>

----------------------------------------------------------------------------
\* one request after the other, with every failure
InTurn == INSTANCE Roles WITH
    MaxRequests <- 4, MaxIds <- 8, Kinds <- {"login", "first", "assign"}, Serial <- TRUE,
    CanCreate <- {"admin"}, Faults <- {"check", "space", "store"}

\* logins alone, of which the permission check may fail
Logins == INSTANCE Roles WITH
    MaxRequests <- 4, MaxIds <- 8, Kinds <- {"login"}, Serial <- TRUE,
    CanCreate <- {"admin"}, Faults <- {"check"}

\* two document servers that lock and write one document
Locking == INSTANCE Wopi WITH
    Editor <- {e1, e2}, JsonEditor <- {}, Viewer <- {}, New <- {}, Fresh <- {},
    Ops <- {"Lock", "GetLock", "RefreshLock", "UnLock", "PutFile"}, Lengths <- {0, 1}, MaxRequests <- 2, MaxVersion <- 2,
    req <- wreq, None <- nothing

\* one of them writes, renames and deletes at the same time
Files == INSTANCE Wopi WITH
    Editor <- {e1}, JsonEditor <- {e1}, Viewer <- {}, New <- {n1}, Fresh <- {n1},
    Ops <- {"PutFile", "PutRelativeSuggested", "Delete", "Rename"}, Lengths <- {1}, MaxRequests <- 2, MaxVersion <- 1,
    req <- wreq, None <- nothing

\* both, one after the other, one of them in a view mode
Copies == INSTANCE Wopi WITH
    Slot <- {"s"}, Editor <- {e1, e2}, JsonEditor <- {e2}, Viewer <- {e2}, New <- {n1}, Fresh <- {n1, n2},
    Ops <- {"Lock", "PutFile", "PutRelativeSuggested", "PutRelativeRelative", "Delete", "Rename"},
    Lengths <- {1}, MaxRequests <- 2, MaxVersion <- 2,
    req <- wreq, None <- nothing

Everything == {"create", "delete", "rename", "add", "remove", "disable", "enable", "creategroup", "deletegroup"}

\* all operations on users and groups, with calls that fail
Groups == INSTANCE LdapGroups WITH
    MaxUsers <- 2, Name <- {n1, n2}, Group <- {g1, disabled}, Disabled <- disabled, MaxRequests <- 3,
    Ops <- Everything, Refint <- FALSE, Faults <- TRUE,
    req <- greq, count <- gcount, nextId <- gnext

\* the same with a directory that keeps references intact
Intact == INSTANCE LdapGroups WITH
    MaxUsers <- 2, Name <- {n1, n2}, Group <- {g1, disabled}, Disabled <- disabled, MaxRequests <- 3,
    Ops <- {"create", "delete", "rename", "add", "disable"}, Refint <- TRUE, Faults <- TRUE,
    req <- greq, count <- gcount, nextId <- gnext

\* first and last members that come and go
Last == INSTANCE LdapGroups WITH
    MaxUsers <- 2, Name <- {n1, n2}, Group <- {g1, disabled}, Disabled <- disabled, MaxRequests <- 5,
    Ops <- {"create", "add", "remove"}, Refint <- FALSE, Faults <- FALSE,
    req <- greq, count <- gcount, nextId <- gnext

\* schools with two names and numbers, one request after the other
Schools == INSTANCE LdapSchools WITH
    MaxSchools <- 2, Name <- {n1, n2}, Number <- {"1", "2"}, Date <- {"d"}, Member <- {e1}, Slot <- {"s"},
    MaxRequests <- 4, Faults <- TRUE,
    req <- sreq, count <- scount, nextId <- snext

----------------------------------------------------------------------------
RequestsInit ==
    /\ part \in {"roles", "roles in turn", "logins", "wopi locks", "wopi files", "wopi copies",
                 "groups", "groups intact", "last members", "schools"}
    /\ IF part = "roles" THEN Init /\ file[1] # "light"     \* alike: no role may create drives here
       ELSE InTurn!Init /\ (part \in {"roles in turn", "logins"} \/ ~dir)
    /\ CASE part = "wopi files" -> Files!Init
         [] part = "wopi copies" -> Copies!Init
         [] OTHER -> Locking!Init /\ (part = "wopi locks" \/ (node["doc"].lock = nothing /\ node["doc"].full))
    /\ Groups!Init /\ (part \in {"groups", "groups intact", "last members"} \/ gnext = 1)
    /\ Schools!Init

RequestsNext ==
    /\ \/ /\ \/ part = "roles" /\ Next
             \/ part = "roles in turn" /\ InTurn!Next
             \/ part = "logins" /\ Logins!Next
          /\ UNCHANGED <<wopi, groups, schools>>
       \/ /\ \/ part = "wopi locks" /\ Locking!Next
             \/ part = "wopi files" /\ Files!Next
             \/ part = "wopi copies" /\ Copies!Next
          /\ UNCHANGED <<vars, groups, schools>>
       \/ /\ \/ part = "groups" /\ Groups!Next
             \/ part = "groups intact" /\ Intact!Next
             \/ part = "last members" /\ Last!Next
          /\ UNCHANGED <<vars, wopi, schools>>
       \/ part = "schools" /\ Schools!Next /\ UNCHANGED <<vars, wopi, groups>>
    /\ UNCHANGED part

RequestsSpec == RequestsInit /\ [][RequestsNext]_<<part, vars, wopi, groups, schools>>

----------------------------------------------------------------------------
\* Whatever requests overlapped before: a login that has the caches and the
\* store for itself and succeeds leaves the user with exactly one assignment,
\* of the role in its claims (settings, UpdateUserRoleAssignment).
Settles == part = "roles" => LoginSettles

\* Requests that come one by one leave caches that tell what is stored
\* (settings, the cache of its metadata store).
CachesInTurn == part = "roles in turn" => InTurn!CachesTrue

\* The default assigner writes its role only when none is stored (proxy,
\* defaultRoleAssigner).
DefaultKeeps == part = "roles in turn" => InTurn!FirstKeeps

\* After a login the personal space is not in use with a role without
\* Drives.Create, and not disabled with one that has it (proxy, the OIDC
\* assigner, which reverts the assignment when the check fails).
SpaceAsRole == part = "logins" => Logins!SpaceFollows

\* Roles are assigned as claims and defaults say, and caches and spaces follow
\* (settings, proxy).
RolesTrue ==
    /\ CASE part = "roles" -> TypeOK [] part \in {"roles in turn", "logins"} -> InTurn!TypeOK [] OTHER -> TRUE
    /\ Settles /\ CachesInTurn /\ DefaultKeeps /\ SpaceAsRole

\* A put replaces the very version that its Stat has seen (collaboration).
ReplacesSeen ==
    CASE part = "wopi locks" -> Locking!ReplacesSeen
      [] part = "wopi files" -> Files!ReplacesSeen
      [] part = "wopi copies" -> Copies!ReplacesSeen
      [] OTHER -> TRUE

\* Content that a put has seen is replaced only while the document is locked
\* with the lock id of the request (collaboration).
HolderWrites ==
    CASE part = "wopi locks" -> Locking!HolderWrites
      [] part = "wopi files" -> Files!HolderWrites
      [] part = "wopi copies" -> Copies!HolderWrites
      [] OTHER -> TRUE

\* A Lock or RefreshLock that succeeds had the lock at some moment of the
\* request, an UnLock was without it (collaboration).
GrantedWasHeld == part = "wopi locks" => Locking!GrantedWasHeld

\* The lock that a conflict names was the lock of the document at some moment
\* of the request (collaboration).
ConflictWasCurrent ==
    /\ part = "wopi locks" => Locking!ConflictWasCurrent
    /\ part = "wopi files" => Files!ConflictWasCurrent

\* Locks and writes of document servers act on what they have seen, and answer
\* what was so (collaboration).
WopiTrue ==
    /\ CASE part = "wopi locks" -> Locking!TypeOK [] part = "wopi files" -> Files!TypeOK
         [] part = "wopi copies" -> Copies!TypeOK [] OTHER -> TRUE
    /\ ReplacesSeen /\ HolderWrites /\ GrantedWasHeld /\ ConflictWasCurrent

\* Who was added to a group, or disabled, and not removed, enabled or deleted
\* since, is still a member when the requests are answered (graph).
MembersStay ==
    part \in {"groups", "groups intact", "last members"} => Groups!MembersStay

\* No group refers to a DN without a user, unless requests for a user
\* overlapped or broke off (graph).
NoDangling == part \in {"groups", "groups intact"} => Groups!NoDangling

\* A removal that was right when the group was read leaves the user out,
\* whoever else is added and removed meanwhile (graph).
RemovalsLast == [][part = "last members" => Last!RemovalLasts]_groups

\* Members that were added stay and removed ones do not, and groups name users
\* that exist (graph).
GroupsTrue ==
    /\ [](/\ part = "last members" => Last!TypeOK
          /\ part \in {"groups", "groups intact"} => Groups!TypeOK
          /\ MembersStay /\ NoDangling)
    /\ RemovalsLast

\* Requests one after the other give no two schools one number (graph).
NumbersUnique == part = "schools" => Schools!NumbersUniqueInTurn

\* What an update or a creation answers is the school as it is then (graph).
AnswerIsEntry == part = "schools" => Schools!AnswerIsEntry

\* Users and classes are all added, or the one is removed, when the answer
\* says so (graph).
MembersAsAnswered == part = "schools" => Schools!MembersAsAnswered

\* Schools have numbers of their own, and are as the answers say (graph).
SchoolsTrue == (part = "schools" => Schools!TypeOK) /\ NumbersUnique /\ AnswerIsEntry /\ MembersAsAnswered
=============================================================================
