----------------------------- MODULE SearchIndex -----------------------------
(***************************************************************************)
(* The search service's index of a space.                                  *)
(*                                                                         *)
(* The space is a folder and files in it or beside it.  An event of a      *)
(* change is handled by a goroutine of its own, which reads and writes the *)
(* entries of the index one by one, and then asks for the space to be      *)
(* indexed; that is a walk over the space which leaves out entries that    *)
(* are as new as the file.  Walks of one space do not overlap (Debouncer). *)
(***************************************************************************)
EXTENDS Naturals, FiniteSets, Sequences

CONSTANTS
    Folder,         \* the one folder
    File,
    Name,
    Worker,         \* events that are handled at the same time
    MaxChanges,     \* of the space
    Ops,            \* changes that happen
    Serial,         \* a change waits until the index is quiet
    Faults          \* extraction fails

Node == File \cup {Folder}
Root == "root"
None == "none"
NoDoc == [path |-> <<>>, deleted |-> FALSE, mtime |-> 0]

Place == [parent : {Root, Folder}, name : Name]
Nowhere == [parent |-> Root, name |-> None]

VARIABLES
    state,      \* Node -> new, live, trash or purged
    place,      \* Node -> where it is, or was
    mtime,
    doc,        \* Node -> its entry in the index
    job,        \* Worker -> the event it handles
    dirty,      \* the debouncer will start a walk
    walk,       \* the walk
    changes,
    unread,     \* nodes whose extraction failed last
    odd         \* files the handlers are known to leave wrong

space == <<state, place, mtime>>
vars == <<state, place, mtime, doc, job, dirty, walk, changes, unread, odd>>

Idle == [kind |-> None, pc |-> None, n |-> None, ref |-> <<>>, old |-> <<>>, new |-> <<>>,
         kids |-> {}, kid |-> None, read |-> NoDoc]
NoWalk == [on |-> FALSE, todo |-> {}, pc |-> None, ref |-> <<>>, n |-> None, path |-> <<>>, mtime |-> 0]

TypeOK ==
    /\ state \in [Node -> {"new", "live", "trash", "purged"}]
    /\ place \in [Node -> Place \cup {Nowhere}] /\ place[Folder].parent = Root
    /\ mtime \in [Node -> 0..(MaxChanges + 1)]
    /\ \A n \in Node : doc[n] = NoDoc \/ Len(doc[n].path) \in 1..2
    /\ dirty \in BOOLEAN /\ walk.on \in BOOLEAN /\ changes \in 0..MaxChanges
    /\ unread \subseteq Node /\ odd \subseteq Node

Init ==
    /\ state = [n \in Node |-> "new"]
    /\ place = [n \in Node |-> Nowhere]
    /\ mtime = [n \in Node |-> 1]
    /\ doc = [n \in Node |-> NoDoc]
    /\ job = [w \in Worker |-> Idle] /\ dirty = FALSE /\ walk = NoWalk
    /\ changes = 0 /\ unread = {} /\ odd = {}

----------------------------------------------------------------------------
(* The space                                                               *)

Live(n) == state[n] = "live" /\ (place[n].parent = Root \/ state[Folder] = "live")

Path(n) == IF place[n].parent = Root THEN <<place[n].name>>
           ELSE <<place[Folder].name, place[n].name>>

PathOf(p) == IF p.parent = Root THEN <<p.name>> ELSE <<place[Folder].name, p.name>>

Free(n, p) ==
    /\ p.parent = Folder => n # Folder /\ state[Folder] = "live"
    /\ \A m \in Node : state[m] = "live" => place[m] # p

At(path) == {n \in Node : Live(n) /\ Path(n) = path}

Quiet == ~dirty /\ ~walk.on /\ \A w \in Worker : job[w] = Idle

Change(op) ==
    /\ op \in Ops /\ changes < MaxChanges /\ changes' = changes + 1
    /\ Serial => Quiet
    /\ UNCHANGED <<doc, walk, unread>>

\* the folder's mtime follows its list of children
Touched(ps) == [mtime EXCEPT ![Folder] = IF \E p \in ps : p.parent = Folder THEN @ + 1 ELSE @]

Emit(j) == \E w \in Worker : job[w] = Idle /\ job' = [job EXCEPT ![w] = j]

\* the files of a folder whose entry is missing or stale are not looked for
Unsought(n) == {m \in File : n = Folder /\ place[m].parent = Folder /\ doc[n].path # Path(n)}

\* what matters only to Agrees is only kept for it
Odd(ns) == odd' = IF Serial THEN odd \cup ns ELSE odd

Create(n) ==
    /\ state[n] = "new"
    /\ \E p \in Place : /\ Free(n, p)
                        /\ place' = [place EXCEPT ![n] = p] /\ mtime' = Touched({p})
    /\ state' = [state EXCEPT ![n] = "live"]
    /\ Change("create") /\ dirty' = TRUE
    /\ UNCHANGED <<job, odd>>

Upload(n) ==
    /\ n \in File /\ Live(n)
    /\ mtime' = [mtime EXCEPT ![n] = @ + 1]
    /\ Change("upload") /\ dirty' = TRUE
    /\ UNCHANGED <<state, place, job, odd>>

Trash(n) ==
    /\ Live(n)
    /\ state' = [state EXCEPT ![n] = "trash"] /\ mtime' = Touched({place[n]})
    /\ Emit([Idle EXCEPT !.kind = "trash", !.pc = "get", !.n = n])
    /\ Change("trash")
    /\ Odd(Unsought(n))
    /\ UNCHANGED <<place, dirty>>

\* what the trash holds beside the folder it was in comes back with the folder
Beside(n) == {m \in File : n = Folder /\ state[m] \in {"trash", "purged"} /\ place[m].parent = Folder}

Under(n) == {m \in File : n = Folder /\ place[m].parent = Folder}

Restore(n, p) ==
    /\ state[n] = "trash" /\ Free(n, p)
    /\ IF p = place[n] THEN Change("restore") ELSE Change("elsewhere")
    /\ state' = [state EXCEPT ![n] = "live"] /\ place' = [place EXCEPT ![n] = p] /\ mtime' = Touched({p})
    /\ Emit([Idle EXCEPT !.kind = "restore", !.pc = "stat", !.ref = PathOf(p)])
    /\ Odd(Unsought(n) \cup Beside(n) \cup (IF p = place[n] THEN {} ELSE {n} \cup Under(n)))
    /\ UNCHANGED dirty

Move(n, p) ==
    /\ Live(n) /\ Free(n, p) /\ p # place[n]
    /\ place' = [place EXCEPT ![n] = p] /\ mtime' = Touched({place[n], p})
    /\ Emit([Idle EXCEPT !.kind = "move", !.pc = "stat", !.ref = PathOf(p)])
    /\ Change("move")
    /\ Odd(Unsought(n))
    /\ UNCHANGED <<state, dirty>>

\* the search service does not consume the event
Purge(n) ==
    /\ state[n] = "trash"
    /\ state' = [state EXCEPT ![n] = "purged"]
    /\ Change("purge")
    /\ UNCHANGED <<place, mtime, job, dirty, odd>>

\* tags leave the mtime alone
Tag(n) ==
    /\ Live(n)
    /\ Emit([Idle EXCEPT !.kind = "tag", !.pc = "stat", !.ref = Path(n)])
    /\ Change("tag")
    /\ UNCHANGED <<space, dirty, odd>>

Changed ==
    \E n \in Node : \/ Create(n) \/ Upload(n) \/ Trash(n) \/ Purge(n) \/ Tag(n)
                    \/ \E p \in Place : Restore(n, p) \/ Move(n, p)

----------------------------------------------------------------------------
(* The event handlers.  A job ends with the call of the debouncer, but for *)
(* the update of the tags.                                                 *)

DoneNoDebounce(w) == job' = [job EXCEPT ![w] = Idle] /\ UNCHANGED dirty

Done(w) ==
    /\ job' = [job EXCEPT ![w] = Idle]
    /\ dirty' = (dirty \/ job[w].kind # "tag")

Goto(w, pc) == job' = [job EXCEPT ![w].pc = pc] /\ UNCHANGED dirty

\* resInfo: what is at the path now
Stat(w) ==
    /\ job[w].pc = "stat"
    /\ IF At(job[w].ref) = {} THEN Done(w)
       ELSE /\ \E n \in At(job[w].ref) :
                 job' = [job EXCEPT ![w].n = n, ![w].new = Path(n),
                                    ![w].pc = IF job[w].kind = "move" THEN "path" ELSE "get"]
            /\ UNCHANGED dirty
    /\ UNCHANGED doc

\* Move's own look at the entry
MovePath(w) ==
    /\ job[w].pc = "path"
    /\ IF doc[job[w].n] = NoDoc THEN Done(w)
       ELSE job' = [job EXCEPT ![w].old = doc[job[w].n].path, ![w].pc = "get"] /\ UNCHANGED dirty
    /\ UNCHANGED doc

\* UpdateTags alone goes on without an entry
NotIndexed(w) == IF job[w].kind = "tag" THEN Goto(w, "upstat") ELSE Done(w)

\* updateEntity is a read and a write
Get(w) ==
    /\ job[w].pc = "get"
    /\ IF doc[job[w].n] # NoDoc
       THEN job' = [job EXCEPT ![w].read = doc[job[w].n], ![w].pc = "put"] /\ UNCHANGED dirty
       ELSE NotIndexed(w)
    /\ UNCHANGED doc

Mutated(j, d) ==
    CASE j.kind = "trash"   -> [d EXCEPT !.deleted = TRUE]
      [] j.kind = "restore" -> [d EXCEPT !.deleted = FALSE]
      [] j.kind = "move"    -> [d EXCEPT !.path = j.new]
      [] j.kind = "tag"     -> d

Put(w) ==
    LET new == Mutated(job[w], job[w].read) IN
    /\ job[w].pc = "put"
    /\ doc' = [doc EXCEPT ![job[w].n] = new]
    /\ IF job[w].n = Folder /\ job[w].kind # "tag"
       THEN /\ job' = [job EXCEPT ![w].pc = "search", ![w].old = IF job[w].kind = "move" THEN @ ELSE new.path]
            /\ UNCHANGED dirty
       ELSE Done(w)

Below(path) == {n \in Node : Len(doc[n].path) > Len(path) /\ SubSeq(doc[n].path, 1, Len(path)) = path}

\* the entries below the folder's path
Search(w) ==
    /\ job[w].pc = "search"
    /\ job' = [job EXCEPT ![w].kids = Below(job[w].old), ![w].pc = "kids"]
    /\ UNCHANGED <<doc, dirty>>

NextKid(w) ==
    /\ job[w].pc = "kids"
    /\ IF job[w].kids = {} THEN Done(w)
       ELSE /\ \E k \in job[w].kids :
                 job' = [job EXCEPT ![w].kid = k, ![w].kids = @ \ {k}, ![w].read = doc[k], ![w].pc = "kidput"]
            /\ UNCHANGED dirty
    /\ UNCHANGED doc

\* strings.Replace: only where the old path is still the start
MutatedKid(j, d) ==
    IF j.kind # "move" THEN Mutated(j, d)
    ELSE IF SubSeq(d.path, 1, Len(j.old)) = j.old
         THEN [d EXCEPT !.path = j.new \o SubSeq(d.path, Len(j.old) + 1, Len(d.path))]
         ELSE d

KidPut(w) ==
    /\ job[w].pc = "kidput"
    /\ doc' = [doc EXCEPT ![job[w].kid] = MutatedKid(job[w], job[w].read)]
    /\ Goto(w, "kids")

Entry(path, m) == [path |-> path, deleted |-> FALSE, mtime |-> m]

\* UpdateTags falls back to UpsertItem: another stat, one extraction
UpsertStat(w) ==
    /\ job[w].pc = "upstat"
    /\ \/ /\ At(job[w].ref) = {} \/ Faults
          /\ Done(w)
       \/ /\ \E n \in At(job[w].ref) :
               job' = [job EXCEPT ![w].n = n, ![w].read = Entry(Path(n), mtime[n]), ![w].pc = "put"]
          /\ UNCHANGED dirty
    /\ UNCHANGED doc

Handle(w) ==
    /\ \/ Stat(w) \/ MovePath(w) \/ Get(w) \/ Put(w)
       \/ Search(w) \/ NextKid(w) \/ KidPut(w) \/ UpsertStat(w)
    /\ UNCHANGED <<space, walk, changes, unread, odd>>

----------------------------------------------------------------------------
(* IndexSpace                                                              *)

Listed(parent) ==
    {[n |-> n, path |-> Path(n), mtime |-> mtime[n]] : n \in {x \in Node : Live(x) /\ place[x].parent = parent}}

WalkStart ==
    /\ dirty /\ ~walk.on
    /\ dirty' = FALSE
    /\ walk' = [NoWalk EXCEPT !.on = TRUE, !.todo = Listed(Root), !.pc = "next"]
    /\ UNCHANGED <<doc, unread>>

AsNew(x) == doc[x.n] # NoDoc /\ doc[x.n].mtime >= x.mtime

\* a folder is listed when it is visited; one that is gone ends the walk
WalkVisit(x) ==
    /\ walk.pc = "next" /\ x \in walk.todo
    /\ IF x.n = Folder /\ ~Live(Folder) THEN walk' = NoWalk
       ELSE walk' = [walk EXCEPT !.todo = (@ \ {x}) \cup (IF x.n = Folder THEN Listed(Folder) ELSE {}),
                                 !.pc = IF AsNew(x) THEN "next" ELSE "stat",
                                 !.n = x.n, !.ref = x.path]
    /\ UNCHANGED <<doc, dirty, unread>>

\* upsertItem: what is at the path now; not found or not extracted is a failure
WalkStat ==
    /\ walk.pc = "stat"
    /\ \/ \E n \in At(walk.ref) :
             /\ walk' = [walk EXCEPT !.pc = "put", !.n = n, !.path = Path(n), !.mtime = mtime[n]]
             /\ UNCHANGED unread
       \/ /\ At(walk.ref) = {}
          /\ walk' = [walk EXCEPT !.pc = "next"] /\ UNCHANGED unread
       \/ /\ Faults /\ At(walk.ref) # {}
          /\ unread' = unread \cup At(walk.ref)
          /\ walk' = [walk EXCEPT !.pc = "next"]
       \/ /\ Faults /\ At(walk.ref) # {}        \* one failure too many: the walk ends
          /\ unread' = unread \cup Node
          /\ walk' = NoWalk
    /\ UNCHANGED <<doc, dirty>>

WalkPut ==
    /\ walk.pc = "put"
    /\ doc' = [doc EXCEPT ![walk.n] = Entry(walk.path, walk.mtime)]
    /\ walk' = [walk EXCEPT !.pc = "next"]
    /\ unread' = unread \ {walk.n}
    /\ UNCHANGED dirty

WalkEnd ==
    /\ walk.pc = "next" /\ walk.todo = {}
    /\ walk' = NoWalk
    /\ UNCHANGED <<doc, dirty, unread>>

Walk ==
    /\ WalkStart \/ (\E x \in walk.todo : WalkVisit(x)) \/ WalkStat \/ WalkPut \/ WalkEnd
    /\ UNCHANGED <<space, job, changes, odd>>

Next == Changed \/ (\E w \in Worker : Handle(w)) \/ Walk

Spec == Init /\ [][Next]_vars

----------------------------------------------------------------------------
Found(n) == doc[n] # NoDoc /\ ~doc[n].deleted

(* Changes that come one by one leave an index that says what is there:    *)
(* once the handlers and the walk are done, a live node is found at its    *)
(* path and a trashed one is not found.  Left out are nodes that came back *)
(* elsewhere or with a folder they were not trashed with, files of a       *)
(* folder whose entry was missing or stale when the folder was changed,    *)
(* and nodes whose content could not be read.                              *)
Agrees ==
    (Serial /\ Quiet) => \A n \in Node \ (odd \cup unread) :
        IF Live(n) THEN Found(n) /\ doc[n].path = Path(n) ELSE ~Found(n)

(* Whatever the order of the handlers' reads and writes, what a live file  *)
(* has in the index is of its last content once all is quiet: each handler *)
(* that writes an entry back is followed by a walk.                        *)
ContentFresh ==
    Quiet => \A n \in Node \ unread : Live(n) => doc[n] # NoDoc /\ doc[n].mtime >= mtime[n]
=============================================================================
