----------------------------- MODULE LdapSchools -----------------------------
(***************************************************************************)
(* The graph service's LDAP backend: schools, and the users and classes    *)
(* that belong to them.                                                    *)
(*                                                                         *)
(* A school is an entry whose DN is made of its name.  Its number is       *)
(* another name for it, which the backend and not the directory keeps      *)
(* unique.  The answer to an update is not read back: the changes are made *)
(* to the entry that was read before.                                      *)
(***************************************************************************)
EXTENDS Naturals, FiniteSets

CONSTANTS
    MaxSchools,     \* schools there ever are
    Name, Number, Date,
    Member,         \* users and classes
    Slot, MaxRequests,
    Faults          \* calls to the directory fail

None == "none"
Absent == "absent"      \* not in the request

Sid == 1..MaxSchools

VARIABLES
    school,     \* Sid -> the entry, or an entry without a name
    memberOf,   \* Member -> the schools on its entry
    req,        \* Slot -> the request
    count, nextId,
    reply,      \* what the last step answered
    overlap     \* two requests, or a failed call, have been there

vars == <<school, memberOf, req, count, nextId, reply, overlap>>

NoSchool == [name |-> None, number |-> None, date |-> None]
NoUpdate == [name |-> Absent, number |-> Absent, date |-> Absent]
Idle == [op |-> None, pc |-> None, number |-> None, sid |-> 0, upd |-> NoUpdate,
         seen |-> NoSchool, todo |-> {}, all |-> {}]
NoReply == [op |-> None, sid |-> 0, model |-> NoSchool, all |-> {}]

Schools == {i \in Sid : school[i] # NoSchool}

TypeOK ==
    /\ school \in [Sid -> [name : Name \cup {None}, number : Number \cup {None}, date : Date \cup {None}]]
    /\ \A i, j \in Schools : school[i].name = school[j].name => i = j
    /\ memberOf \in [Member -> SUBSET Sid]
    /\ count \in 0..MaxRequests /\ nextId \in 1..(MaxSchools + 1) /\ overlap \in BOOLEAN

Init ==
    /\ school = [i \in Sid |-> NoSchool] /\ memberOf = [m \in Member |-> {}]
    /\ req = [s \in Slot |-> Idle] /\ count = 0 /\ nextId = 1
    /\ reply = NoReply /\ overlap = FALSE

----------------------------------------------------------------------------
(* Requests                                                                *)

Begin(s, r) ==
    /\ req[s] = Idle /\ count < MaxRequests
    /\ req' = [req EXCEPT ![s] = r] /\ count' = count + 1
    /\ overlap' = (overlap \/ \E t \in Slot : req[t] # Idle)
    /\ reply' = NoReply
    /\ UNCHANGED <<school, memberOf, nextId>>

\* a request names its school by id or by number; either must be unambiguous
Named(r) == {i \in Schools : i = r.sid \/ school[i].number = r.number}

Naming(op, pc) == {[Idle EXCEPT !.op = op, !.pc = pc, !.sid = i] : i \in Schools}
                  \cup {[Idle EXCEPT !.op = op, !.pc = pc, !.number = n] : n \in Number}

Request(s) ==
    \/ \E m \in Name, n \in Number :
         Begin(s, [Idle EXCEPT !.op = "create", !.pc = "check",
                               !.upd = [name |-> m, number |-> n, date |-> Absent]])
    \/ \E r \in Naming("update", "find"), m \in Name \cup {Absent}, n \in Number \cup {Absent},
          d \in Date \cup {None, Absent} :
         Begin(s, [r EXCEPT !.upd = [name |-> m, number |-> n, date |-> d]])
    \/ \E r \in Naming("delete", "find") : Begin(s, r)
    \/ \E r \in Naming("join", "find"), ms \in SUBSET Member \ {{}} :
         Begin(s, [r EXCEPT !.todo = ms, !.all = ms])
    \/ \E r \in Naming("leave", "find"), m \in Member :
         Begin(s, [r EXCEPT !.todo = {m}, !.all = {m}])

\* the request ends, with a school or another result
Answer(s, op, model) ==
    /\ req' = [req EXCEPT ![s] = Idle]
    /\ reply' = [op |-> op, sid |-> req[s].sid, model |-> model, all |-> req[s].all]

Refuse(s) == req' = [req EXCEPT ![s] = Idle] /\ reply' = NoReply

Continue(s, r) == req' = [req EXCEPT ![s] = r] /\ reply' = NoReply

----------------------------------------------------------------------------
(* CreateEducationSchool                                                   *)

\* getSchoolByNumber: no school, one, or too many
WithNumber(n) == {i \in Schools : school[i].number = n}

CreateCheck(s) ==
    /\ req[s].op = "create" /\ req[s].pc = "check"
    /\ IF WithNumber(req[s].upd.number) # {} THEN Refuse(s)
       ELSE Continue(s, [req[s] EXCEPT !.pc = "add"])
    /\ UNCHANGED <<school, memberOf, count, nextId, overlap>>

CreateAdd(s) ==
    /\ req[s].op = "create" /\ req[s].pc = "add"
    /\ LET new == [name |-> req[s].upd.name, number |-> req[s].upd.number, date |-> None] IN
       IF \E i \in Schools : school[i].name = new.name
       THEN Refuse(s) /\ UNCHANGED <<school, nextId>>
       ELSE /\ nextId <= MaxSchools /\ nextId' = nextId + 1
            /\ school' = [school EXCEPT ![nextId] = new]
            /\ req' = [req EXCEPT ![s] = Idle]
            /\ reply' = [NoReply EXCEPT !.op = "create", !.sid = nextId,
                                        !.model = new]
    /\ UNCHANGED <<memberOf, count, overlap>>

----------------------------------------------------------------------------
(* The school that a request names                                         *)

AfterFind(s) ==
    CASE req[s].op = "update" -> "update" [] req[s].op = "delete" -> "del" [] OTHER -> "members"

\* getSchoolByNumberOrID.  DNs are read here: what follows finds no entry
\* when the school was renamed or deleted meanwhile.
Find(s) ==
    /\ req[s].pc = "find"
    /\ IF Cardinality(Named(req[s])) # 1 THEN Refuse(s)
       ELSE \E i \in Named(req[s]) :
              Continue(s, [req[s] EXCEPT !.sid = i, !.seen = school[i], !.pc = AfterFind(s)])
    /\ UNCHANGED <<school, memberOf, count, nextId, overlap>>

\* the entry under the DN that was read
AtDN(s) == {i \in Schools : school[i].name = req[s].seen.name}

Delete(s) ==
    /\ req[s].pc = "del"
    /\ IF AtDN(s) = {} THEN Refuse(s) /\ UNCHANGED school
       ELSE /\ Answer(s, "delete", NoSchool)
            /\ school' = [i \in Sid |-> IF i \in AtDN(s) THEN NoSchool ELSE school[i]]
    /\ UNCHANGED <<memberOf, count, nextId, overlap>>

----------------------------------------------------------------------------
(* UpdateEducationSchool                                                   *)

Renames(u, cur) == u.name # Absent /\ u.name # cur.name

\* updateEducationSchoolOperation: a termination date is looked at when there
\* is no number in the request
PropertiesUpdated(u, cur) ==
    IF u.number # Absent THEN u.number # cur.number ELSE u.date # Absent /\ u.date # cur.date

\* the changes that updateSchoolProperties makes, and applyModifyToEntry
Folded(u, cur) ==
    [cur EXCEPT !.number = IF u.number = Absent THEN @ ELSE u.number,
                !.date = IF u.date = Absent THEN @ ELSE u.date]

Update(s) ==
    /\ req[s].pc = "update"
    /\ LET u == req[s].upd
           cur == req[s].seen IN
       CASE PropertiesUpdated(u, cur) /\ Renames(u, cur) -> Refuse(s)
         [] ~PropertiesUpdated(u, cur) /\ ~Renames(u, cur) -> Answer(s, "update", cur)
         [] Renames(u, cur) /\ ~PropertiesUpdated(u, cur) -> Continue(s, [req[s] EXCEPT !.pc = "rename"])
         [] OTHER -> Continue(s, [req[s] EXCEPT !.pc = IF u.number \in {Absent, cur.number} THEN "modify"
                                                       ELSE "number"])
    /\ UNCHANGED <<school, memberOf, count, nextId, overlap>>

\* updateDisplayName: ModifyDN
Rename(s) ==
    /\ req[s].pc = "rename"
    /\ LET new == req[s].upd.name IN
       IF AtDN(s) = {} \/ \E i \in Schools : school[i].name = new
       THEN Refuse(s) /\ UNCHANGED school
       ELSE /\ Answer(s, "update", [req[s].seen EXCEPT !.name = new])
            /\ school' = [i \in Sid |-> IF i \in AtDN(s) THEN [school[i] EXCEPT !.name = new] ELSE school[i]]
    /\ UNCHANGED <<memberOf, count, nextId, overlap>>

\* Mutant of NumberTaken: only schools with a termination date are looked at.
NumberTakenByEnded(n) == \E i \in WithNumber(n) : school[i].date # None

\* updateSchoolProperties goes on unless it finds the one school with the
\* number: two of them, or a search that fails, do not stop it.
NumberTaken(n) == Cardinality(WithNumber(n)) = 1

UpdateNumber(s) ==
    /\ req[s].pc = "number"
    /\ \/ NumberTaken(req[s].upd.number) /\ Refuse(s) /\ UNCHANGED overlap
       \/ ~NumberTaken(req[s].upd.number) /\ Continue(s, [req[s] EXCEPT !.pc = "modify"]) /\ UNCHANGED overlap
       \/ Faults /\ overlap' = TRUE /\ Continue(s, [req[s] EXCEPT !.pc = "modify"])
    /\ UNCHANGED <<school, memberOf, count, nextId>>

\* The date is deleted only if there was one; the directory refuses to
\* delete what another request has deleted.
Modify(s) ==
    /\ req[s].pc = "modify"
    /\ LET u == req[s].upd
           deletes == u.date = None /\ req[s].seen.date # None IN
       IF AtDN(s) = {} \/ (deletes /\ \E i \in AtDN(s) : school[i].date = None)
       THEN Refuse(s) /\ UNCHANGED school
       ELSE /\ Answer(s, "update", Folded(u, req[s].seen))
            /\ school' = [i \in Sid |->
                 IF i \notin AtDN(s) THEN school[i]
                 ELSE [school[i] EXCEPT !.number = IF u.number \in {Absent, req[s].seen.number} THEN @ ELSE u.number,
                                        !.date = IF u.date \in {Absent, req[s].seen.date} THEN @ ELSE u.date]]
    /\ UNCHANGED <<memberOf, count, nextId, overlap>>

----------------------------------------------------------------------------
(* Users and classes of a school                                           *)

\* AddUsersToEducationSchool, AddClassesToEducationSchool and the removals:
\* the members' entries are read, those in question are modified one by one
ReadMembers(s) ==
    /\ req[s].pc = "members"
    /\ Continue(s, [req[s] EXCEPT !.pc = "each",
          !.todo = {m \in @ : (req[s].sid \in memberOf[m]) = (req[s].op = "leave")}])
    /\ UNCHANGED <<school, memberOf, count, nextId, overlap>>

EachMember(s) ==
    /\ req[s].pc = "each"
    /\ \/ /\ req[s].todo = {}
          /\ Answer(s, req[s].op, NoSchool) /\ UNCHANGED memberOf
       \/ \E m \in req[s].todo :
            IF (req[s].sid \in memberOf[m]) = (req[s].op = "join")
            THEN Refuse(s) /\ UNCHANGED memberOf
            ELSE /\ Continue(s, [req[s] EXCEPT !.todo = @ \ {m}])
                 /\ memberOf' = [memberOf EXCEPT ![m] = IF req[s].op = "join" THEN @ \cup {req[s].sid}
                                                        ELSE @ \ {req[s].sid}]
    /\ UNCHANGED <<school, count, nextId, overlap>>

\* another call to the directory fails and ends the request
Fail(s) ==
    /\ Faults /\ req[s] # Idle /\ req[s].pc # "number"
    /\ Refuse(s)
    /\ UNCHANGED <<school, memberOf, count, nextId, overlap>>

Step(s) ==
    \/ CreateCheck(s) \/ CreateAdd(s) \/ Find(s) \/ Delete(s) \/ Update(s) \/ Rename(s)
    \/ UpdateNumber(s) \/ Modify(s) \/ ReadMembers(s) \/ EachMember(s)

Next == \E s \in Slot : Request(s) \/ Step(s) \/ Fail(s)

Spec == Init /\ [][Next]_vars

----------------------------------------------------------------------------
(* Properties                                                              *)

\* Without requests at the same time, and failed searches, no two schools have
\* one number, whatever is created, renumbered and deleted
\* (CreateEducationSchool, updateSchoolProperties).
NumbersUniqueInTurn ==
    ~overlap => \A i, j \in Schools : school[i].number = school[j].number => i = j

\* What an update or a creation answers, made of the entry read before and the
\* changes, is the school as it is then (applyModifyToEntry in
\* UpdateEducationSchool, attrsFromAddRequest).
AnswerIsEntry == ~overlap /\ reply.op \in {"create", "update"} => school[reply.sid] = reply.model

\* Users and classes are all added, or the one is removed, when the answer says
\* so (AddUsersToEducationSchool and its siblings).
MembersAsAnswered ==
    ~overlap /\ reply.op \in {"join", "leave"} =>
        \A m \in reply.all : (reply.sid \in memberOf[m]) = (reply.op = "join")
=============================================================================
