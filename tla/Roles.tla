------------------------------- MODULE Roles --------------------------------
(***************************************************************************)
(* The role of one user: the settings service's store of assignments       *)
(* behind its cache, and the proxy's logins, which set the role the claims *)
(* name and disable or restore the user's personal space accordingly.      *)
(*                                                                         *)
(* The store has a folder per account with a file per assignment.  The     *)
(* cache keeps listings and files; both are shared by all requests.  Calls *)
(* of the metadata storage and of the cache are single steps.              *)
(***************************************************************************)
EXTENDS Naturals, FiniteSets

CONSTANTS
    Slot,           \* requests at a time
    Role,
    CanCreate,      \* roles that hold Drives.Create
    DefaultRole,    \* of users without one
    MaxRequests, MaxIds,
    Kinds,          \* requests that are made: login, first, assign
    Serial,         \* one request at a time
    Faults          \* what fails: check, space, store

ASSUME RolesAssumption ==
    /\ CanCreate \subseteq Role /\ DefaultRole \in Role /\ MaxRequests \in Nat /\ MaxIds \in Nat
    /\ Kinds \subseteq {"login", "first", "assign"} /\ Faults \subseteq {"check", "space", "store"}
    /\ Serial \in BOOLEAN

Id == 1..MaxIds
NoRole == "norole"
NoList == [has |-> FALSE, ids |-> {}]

VARIABLES
    dir,        \* the account's folder exists
    file,       \* Id -> the role in the assignment's file
    dcache,     \* the cached listing
    fcache,     \* Id -> the cached file
    space,      \* the personal space: none, enabled or trashed
    req, nextId, requests,
    last        \* the last request that ended, while no other runs

store == <<dir, file>>
caches == <<dcache, fcache>>
vars == <<dir, file, dcache, fcache, space, req, nextId, requests, last>>

Idle == [kind |-> "none", role |-> NoRole, pc |-> "idle", to |-> "none", ids |-> {}, got |-> {}, old |-> NoRole,
         id |-> 0, mine |-> 0, write |-> NoRole, solo |-> FALSE]
Nothing == [kind |-> "none", role |-> NoRole, solo |-> FALSE]

Stored == {i \in Id : file[i] # NoRole}
Quiet == \A s \in Slot : req[s] = Idle

TypeOK ==
    /\ dir \in BOOLEAN /\ file \in [Id -> Role \cup {NoRole}] /\ (Stored # {} => dir)
    /\ dcache.has \in BOOLEAN /\ dcache.ids \subseteq Id /\ fcache \in [Id -> Role \cup {NoRole}]
    /\ space \in {"none", "enabled", "trashed"} /\ nextId \in 1..(MaxIds + 1) /\ requests \in 0..MaxRequests

\* a new user, or one that has a role and a space
Init ==
    /\ \/ dir = FALSE /\ file = [i \in Id |-> NoRole] /\ space = "none" /\ nextId = 1
       \/ \E r \in Role : /\ dir = TRUE /\ file = [i \in Id |-> IF i = 1 THEN r ELSE NoRole] /\ nextId = 2
                          /\ space = IF r \in CanCreate THEN "enabled" ELSE "trashed"
    /\ dcache = NoList /\ fcache = [i \in Id |-> NoRole]
    /\ req = [s \in Slot |-> Idle] /\ requests = 0 /\ last = Nothing

----------------------------------------------------------------------------
\* what the caches hold is what the store holds
CacheTrue == /\ dcache.has => dir /\ dcache.ids = Stored
             /\ \A i \in Id : fcache[i] \in {NoRole, file[i]}

Begin(s, kind, role, pc, to) ==
    /\ req[s] = Idle /\ requests < MaxRequests /\ requests' = requests + 1
    /\ kind \in Kinds /\ (Serial => Quiet)
    /\ req' = [t \in Slot |-> IF t = s THEN [Idle EXCEPT !.kind = kind, !.role = role, !.write = role, !.pc = pc, !.to = to,
                                                         !.solo = Quiet /\ CacheTrue]
                              ELSE [req[t] EXCEPT !.solo = FALSE]]
    /\ last' = Nothing
    /\ UNCHANGED <<store, caches, space, nextId>>

\* UpdateUserRoleAssignment of the OIDC assigner, of the default one, and a call of AssignRoleToUser by a manager
Login(s) == \E r \in Role : Begin(s, "login", r, "dircache", "compare")
First(s) == Begin(s, "first", DefaultRole, "dircache", "none?")
Assign(s) == \E r \in Role : Begin(s, "assign", r, "delete", "none")

Step(s, r) == req' = [req EXCEPT ![s] = r]
Goto(s, pc) == Step(s, [req[s] EXCEPT !.pc = pc])

End(s, ok) ==
    /\ Step(s, Idle)
    /\ last' = IF ok THEN [kind |-> req[s].kind, role |-> req[s].role, solo |-> req[s].solo] ELSE Nothing

----------------------------------------------------------------------------
(* ListRoleAssignments, through the cache                                  *)

\* RemoveRoleAssignment reads no files
Reading(s) == IF req[s].to = "remove" THEN "remove" ELSE "file"

DirCache(s) ==
    /\ req[s].pc = "dircache"
    /\ IF dcache.has THEN Step(s, [req[s] EXCEPT !.ids = dcache.ids, !.got = {}, !.pc = Reading(s)])
       ELSE Goto(s, "dirread")
    /\ UNCHANGED <<store, caches, space, nextId, last>>

DirRead(s) ==
    /\ req[s].pc = "dirread"
    /\ IF dir THEN Step(s, [req[s] EXCEPT !.ids = Stored, !.got = {}, !.pc = "dirstore"])
       ELSE Step(s, [req[s] EXCEPT !.ids = {}, !.got = {}, !.pc = req[s].to])
    /\ UNCHANGED <<store, caches, space, nextId, last>>

DirStore(s) ==
    /\ req[s].pc = "dirstore"
    /\ dcache' = [has |-> TRUE, ids |-> req[s].ids]
    /\ Goto(s, Reading(s))
    /\ UNCHANGED <<store, fcache, space, nextId, last>>

\* from the cache, else from the store, where the file may be gone
FileRead(s, i) ==
    LET rest == [req[s] EXCEPT !.ids = @ \ {i}] IN
    /\ req[s].pc = "file" /\ i \in req[s].ids
    /\ IF fcache[i] # NoRole THEN Step(s, [rest EXCEPT !.got = @ \cup {<<i, fcache[i]>>}])
       ELSE IF file[i] # NoRole THEN Step(s, [rest EXCEPT !.got = @ \cup {<<i, file[i]>>}, !.id = i, !.pc = "filestore"])
       ELSE Step(s, rest)
    /\ UNCHANGED <<store, caches, space, nextId, last>>

FileStore(s) ==
    LET r == CHOOSE x \in req[s].got : x[1] = req[s].id IN
    /\ req[s].pc = "filestore"
    /\ fcache' = [fcache EXCEPT ![r[1]] = r[2]]
    /\ Step(s, [req[s] EXCEPT !.id = 0, !.pc = "file"])
    /\ UNCHANGED <<store, dcache, space, nextId, last>>

Listed(s) ==
    /\ req[s].pc = "file" /\ req[s].ids = {}
    /\ Goto(s, req[s].to)
    /\ UNCHANGED <<store, caches, space, nextId, last>>

----------------------------------------------------------------------------
(* WriteRoleAssignment, and RemoveRoleAssignment of the assignment it made *)

\* the caches are left alone when there was nothing to delete
DeleteDir(s) ==
    /\ req[s].pc = "delete"
    /\ dir' = FALSE /\ file' = [i \in Id |-> NoRole]
    /\ Goto(s, IF dir THEN "uncache" ELSE IF req[s].to = "gone" THEN "gone" ELSE "mkdir")
    /\ UNCHANGED <<caches, space, nextId, last>>

Uncache(s) ==
    /\ req[s].pc = "uncache"
    /\ dcache' = NoList /\ fcache' = [i \in Id |-> NoRole]
    /\ Goto(s, IF req[s].to = "gone" THEN "gone" ELSE "mkdir")
    /\ UNCHANGED <<store, space, nextId, last>>

MakeDir(s) ==
    /\ req[s].pc = "mkdir"
    /\ dir' = TRUE
    /\ Goto(s, "upload")
    /\ UNCHANGED <<file, caches, space, nextId, last>>

\* an upload into a folder that is gone fails
Upload(s) ==
    /\ req[s].pc = "upload" /\ nextId \in Id
    /\ IF dir
       THEN /\ file' = [file EXCEPT ![nextId] = req[s].write]
            /\ nextId' = nextId + 1
            /\ Step(s, [req[s] EXCEPT !.pc = "upcache", !.mine = nextId])
            /\ UNCHANGED last
       ELSE End(s, FALSE) /\ UNCHANGED <<file, nextId>>
    /\ UNCHANGED <<dir, caches, space>>

UploadCache(s) ==
    /\ req[s].pc = "upcache"
    /\ dcache' = NoList /\ fcache' = [fcache EXCEPT ![req[s].mine] = req[s].write]
    /\ Goto(s, "written")
    /\ UNCHANGED <<store, space, nextId, last>>

\* the store fails: before anything is done, or once the role that was assigned is deleted
StoreFails(s) ==
    /\ "store" \in Faults /\ req[s].pc \in {"delete", "mkdir", "upload"}
    /\ End(s, FALSE)
    /\ UNCHANGED <<store, caches, space, nextId>>

----------------------------------------------------------------------------
(* The rest of the requests                                                *)

RolesGot(s) == {x[2] : x \in req[s].got}

CompareAny(s) ==
    /\ req[s].pc = "compare"
    /\ IF req[s].role \in RolesGot(s) THEN End(s, TRUE)
       ELSE Goto(s, "delete") /\ UNCHANGED last
    /\ UNCHANGED <<store, caches, space, nextId>>

\* the OIDC assigner: exactly the role of the claim, or it is assigned
Compare(s) ==
    /\ req[s].pc = "compare"
    /\ IF Cardinality(req[s].got) = 1 /\ RolesGot(s) = {req[s].role} THEN End(s, TRUE)
       ELSE /\ \E r \in (IF req[s].got = {} THEN {NoRole} ELSE RolesGot(s)) :
                 Step(s, [req[s] EXCEPT !.old = r, !.got = {}, !.pc = "delete"])
            /\ UNCHANGED last
    /\ UNCHANGED <<store, caches, space, nextId>>

\* the default assigner: users without a role assign one to themselves, which the service looks up again
NoneYet(s) ==
    /\ req[s].pc \in {"none?", "none!"}
    /\ IF req[s].got # {} THEN End(s, req[s].pc = "none?")
       ELSE /\ Step(s, IF req[s].pc = "none?" THEN [req[s] EXCEPT !.pc = "dircache", !.to = "none!"]
                       ELSE [req[s] EXCEPT !.pc = "delete"])
            /\ UNCHANGED last
    /\ UNCHANGED <<store, caches, space, nextId>>

Written(s) ==
    /\ req[s].pc = "written"
    /\ IF req[s].to = "compare" THEN Step(s, [req[s] EXCEPT !.pc = "check"]) /\ UNCHANGED last
       ELSE End(s, req[s].to # "reverted")
    /\ UNCHANGED <<store, caches, space, nextId>>

\* CheckPermission lists the roles
Check(s) ==
    /\ req[s].pc = "check"
    /\ Step(s, [req[s] EXCEPT !.pc = "dircache", !.to = "space"])
    /\ UNCHANGED <<store, caches, space, nextId, last>>

\* revertRoleAssignment: the old role again, or no role
RevertTo(s) ==
    Step(s, IF req[s].old # NoRole
            THEN [req[s] EXCEPT !.pc = "delete", !.to = "reverted", !.write = req[s].old]
            ELSE [req[s] EXCEPT !.pc = "dircache", !.to = "remove"])

\* a listing that fails; of a user's own roles in AssignRoleToUser it is taken for an empty one
ListFails(s) ==
    /\ "store" \in Faults /\ req[s].pc = "dirread"
    /\ CASE req[s].to = "none!" -> Goto(s, "delete") /\ UNCHANGED last
         [] req[s].to = "space" -> RevertTo(s) /\ UNCHANGED last
         [] OTHER -> End(s, FALSE)
    /\ UNCHANGED <<store, caches, space, nextId>>

\* CheckPermission could not be asked
CheckFails(s) ==
    /\ "check" \in Faults /\ req[s].pc = "check"
    /\ RevertTo(s)
    /\ UNCHANGED <<store, caches, space, nextId, last>>

\* no gateway to ask: nothing is reverted
SelectFails(s) ==
    /\ "space" \in Faults /\ req[s].pc = "check"
    /\ End(s, FALSE)
    /\ UNCHANGED <<store, caches, space, nextId>>

\* the assignment is looked for in the listing
Remove(s) ==
    /\ req[s].pc = "remove"
    /\ IF req[s].mine \in req[s].ids
       THEN Step(s, [req[s] EXCEPT !.pc = "delete", !.to = "gone"]) /\ UNCHANGED last
       ELSE End(s, FALSE)
    /\ UNCHANGED <<store, caches, space, nextId>>

Gone(s) ==
    /\ req[s].pc = "gone"
    /\ End(s, FALSE)
    /\ UNCHANGED <<store, caches, space, nextId>>

\* RestorePersonalSpace or DisablePersonalSpace, either of which may fail
Space(s) ==
    /\ req[s].pc = "space"
    /\ \/ /\ space' = IF space = "none" THEN "none"
                      ELSE IF RolesGot(s) \cap CanCreate # {} THEN "enabled" ELSE "trashed"
          /\ End(s, TRUE)
       \/ "space" \in Faults /\ End(s, FALSE) /\ UNCHANGED space
    /\ UNCHANGED <<store, caches, nextId>>

\* the request of a login goes on to createHome, which makes the space of those who may have one
Home ==
    /\ last.kind = "login" /\ last.role \in CanCreate /\ space = "none"
    /\ space' = "enabled"
    /\ UNCHANGED <<store, caches, req, nextId, requests, last>>

\* cached entries expire
Expire ==
    /\ dcache.has
    /\ dcache' = NoList /\ fcache' = [i \in Id |-> NoRole]
    /\ UNCHANGED <<store, space, req, nextId, requests, last>>

Handle(s) ==
    /\ \/ DirCache(s) \/ DirRead(s) \/ DirStore(s) \/ (\E i \in Id : FileRead(s, i)) \/ FileStore(s) \/ Listed(s)
       \/ DeleteDir(s) \/ Uncache(s) \/ MakeDir(s) \/ Upload(s) \/ UploadCache(s) \/ StoreFails(s)
       \/ Compare(s) \/ NoneYet(s) \/ Written(s) \/ Check(s) \/ ListFails(s) \/ CheckFails(s) \/ SelectFails(s) \/ Remove(s) \/ Gone(s) \/ Space(s)
    /\ UNCHANGED requests

Next == Expire \/ Home \/ \E s \in Slot : Login(s) \/ First(s) \/ Assign(s) \/ Handle(s)

Spec == Init /\ [][Next]_vars

----------------------------------------------------------------------------
(* Whatever requests overlapped before: a login that has the caches and    *)
(* the store for itself and succeeds leaves the user with exactly one      *)
(* assignment, of the role in its claims.                                  *)
LoginSettles ==
    (last.kind = "login" /\ last.solo) => Cardinality(Stored) = 1 /\ {file[i] : i \in Stored} = {last.role}

(* Requests that come one by one leave caches that tell what is stored.    *)
CachesTrue == (Serial /\ Quiet) => CacheTrue

(* After a login that succeeded the personal space is not in use with a    *)
(* role without Drives.Create, and not disabled with one that has it.      *)
SpaceFollows ==
    last.kind = "login" => space # (IF last.role \in CanCreate THEN "trashed" ELSE "enabled")

(* The default assigner gives no role to a user who has one: when it is    *)
(* about to write its own, no assignment is stored.                        *)
FirstKeeps == \A s \in Slot : (req[s].kind = "first" /\ req[s].pc = "delete") => Stored = {}
=============================================================================
