--------------------------- MODULE Notifications ---------------------------
(***************************************************************************)
(* The notifications service: mails about shares and spaces, sent at once  *)
(* or collected per user and sent as one mail a day or a week.             *)
(*                                                                         *)
(* Every event is handled by a goroutine of its own, and so is every       *)
(* collected mail.  They meet in the store, where a record per interval    *)
(* and user has the ids of the events that wait, and which is read and     *)
(* written in two calls.  The six handlers of shares.go and spaces.go      *)
(* differ in the setting they look at and in the texts.                    *)
(***************************************************************************)
EXTENDS Naturals, FiniteSets

CONSTANTS
    User,
    Event,
    Job,            \* commands that send the collected mails
    Kind,           \* Event -> its type
    Sharer,         \* the user who shares and unshares
    Owner,          \* the owner of what is shared
    ToGroup,        \* events whose grantee is a group
    Grantees,       \* Event -> the grantee, or the members of the group
    NoMail,         \* users without mail address
    OptedOut,       \* users who have turned all notifications off
    Unwanted,       \* pairs of an event and a user who turned its kind off
    Fickle,         \* users who change the interval while the service runs
    Faults          \* calls to the gateway, the store and the history fail

Interval == {"daily", "weekly"}
Key == Interval \X User

VARIABLES
    setting,    \* User -> the interval the user has chosen
    pc,         \* Event -> progress of its handler
    instant,    \* Event -> recipients of a mail of its own
    queue,      \* Event -> records it still has to be added to
    cur,        \* Event -> the record that is being changed, as a set
    held,       \* Event -> what was read from it
    bucket,     \* Key -> events that wait; {} when there is no record
    mail,       \* Job -> User -> progress of the collected mail
    interval,   \* Job -> the interval of the command
    popped,     \* Job -> User -> events of the collected mail
    loop,       \* the event loop: "running", "stopped", "exited"
    declined,   \* Event -> users who wanted no mails when it was handled
    told,       \* Event -> User -> number of mails with the event
    skipped,    \* pairs for which no mail could be made or sent
    raced       \* records that two goroutines have worked on at the same time

vars == <<setting, pc, instant, queue, cur, held, bucket, mail, interval, popped, loop, declined,
          told, skipped, raced>>
handlerVars == <<pc, instant, queue, cur, held>>
jobVars == <<mail, interval, popped>>
ghosts == <<told, declined, skipped, raced>>

Done == {"sent", "failed", "none"}

TypeOK ==
    /\ setting \in [User -> Interval \cup {"instant", "never", "unset"}]
    /\ pc \in [Event -> {"new", "handling", "persisting", "done", "failed"}]
    /\ instant \in [Event -> SUBSET User] /\ queue \in [Event -> SUBSET Key]
    /\ cur \in [Event -> SUBSET Key] /\ held \in [Event -> SUBSET Event]
    /\ \A e \in Event : cur[e] # {} => pc[e] = "persisting" /\ Cardinality(cur[e]) = 1
    /\ bucket \in [Key -> SUBSET Event]
    /\ mail \in [Job -> [User -> Done \cup {"listed", "read", "deleted"}]]
    /\ interval \in [Job -> Interval \cup {"none"}]
    /\ popped \in [Job -> [User -> SUBSET Event]]
    /\ loop \in {"running", "stopped", "exited"}
    /\ told \in [Event -> [User -> Nat]]
    /\ declined \in [Event -> SUBSET User]
    /\ skipped \subseteq Event \X User /\ raced \subseteq Key

Init ==
    /\ setting = [u \in User |-> "instant"]
    /\ pc = [e \in Event |-> "new"] /\ instant = [e \in Event |-> {}]
    /\ queue = [e \in Event |-> {}] /\ cur = [e \in Event |-> {}]
    /\ held = [e \in Event |-> {}] /\ bucket = [k \in Key |-> {}]
    /\ mail = [j \in Job |-> [u \in User |-> "none"]]
    /\ interval = [j \in Job |-> "none"]
    /\ popped = [j \in Job |-> [u \in User |-> {}]]
    /\ loop = "running"
    /\ told = [e \in Event |-> [u \in User |-> 0]]
    /\ declined = [e \in Event |-> {}] /\ skipped = {} /\ raced = {}

\* a user changes the setting
Choose(u, i) ==
    /\ loop = "running" /\ u \in Fickle /\ setting[u] # i
    /\ setting' = [setting EXCEPT ![u] = i]
    /\ UNCHANGED <<handlerVars, bucket, jobVars, loop, ghosts>>

----------------------------------------------------------------------------
(* The records                                                             *)

\* goroutines between their read of a record and their write or delete
AtWork(k) ==
    \/ \E e \in Event : cur[e] = {k}
    \/ \E j \in Job : interval[j] = k[1] /\ mail[j][k[2]] = "read"

Overlap(k) == raced' = IF AtWork(k) THEN raced \cup {k} ELSE raced

----------------------------------------------------------------------------
(* An event                                                                *)

\* What the mail needs is asked for first: the share or space and the user.
\* Without it there is no mail.
Prepare(e) == {"handling"} \cup IF Faults THEN {"failed"} ELSE {}

\* Run: the loop takes the event and starts its goroutine.
Handle(e) ==
    /\ loop = "running" /\ pc[e] = "new"
    /\ \E next \in Prepare(e) : pc' = [pc EXCEPT ![e] = next]
    /\ UNCHANGED <<setting, instant, queue, cur, held, bucket, jobVars, loop, ghosts>>

\* whom the handler names as executant
Executant(e) == IF Kind[e] \in {"ShareExpired", "SpaceMembershipExpired"} THEN Owner ELSE Sharer

\* getGranteeList: the executant gets no mail as a member of the group
GranteeList(e) ==
    ((Grantees[e] \ (IF e \in ToGroup THEN {Executant(e)} ELSE {})) \ OptedOut) \ NoMail

\* filter.execute
Filter(e, users) == {u \in users : <<e, u>> \notin Unwanted}

\* splitter.execute: without a setting the mail is sent at once
Instant(users) == {u \in users : setting[u] \in {"instant", "unset"}}

Split(e) ==
    /\ pc[e] = "handling"
    /\ LET users == Filter(e, GranteeList(e)) IN
       /\ instant' = [instant EXCEPT ![e] = Instant(users)]
       /\ queue' = [queue EXCEPT ![e] = {k \in Key : k[2] \in users /\ setting[k[2]] = k[1]}]
       /\ declined' = [declined EXCEPT ![e] = {u \in users : setting[u] = "never"}]
    /\ pc' = [pc EXCEPT ![e] = "persisting"]
    /\ UNCHANGED <<setting, cur, held, bucket, jobVars, loop, told, skipped, raced>>

\* the daily records come before the weekly ones
IsNext(e, k) == k \in queue[e] /\ (k[1] = "weekly" => \A l \in queue[e] : l[1] = "weekly")

\* persist, for one user: the record is read
PersistRead(e, k) ==
    /\ pc[e] = "persisting" /\ cur[e] = {} /\ IsNext(e, k)
    /\ queue' = [queue EXCEPT ![e] = @ \ {k}]
    /\ cur' = [cur EXCEPT ![e] = {k}] /\ held' = [held EXCEPT ![e] = bucket[k]]
    /\ Overlap(k)
    /\ UNCHANGED <<setting, pc, instant, bucket, jobVars, loop, told, declined, skipped>>

\* Mutant of WithEvent: the record has the last event only.
WithEventOnly(e) == {e}
WithEvent(e) == held[e] \cup {e}

\* and written
PersistWrite(e, k) ==
    /\ cur[e] = {k}
    /\ bucket' = [bucket EXCEPT ![k] = WithEvent(e)]
    /\ cur' = [cur EXCEPT ![e] = {}] /\ held' = [held EXCEPT ![e] = {}]
    /\ UNCHANGED <<setting, pc, instant, queue, jobVars, loop, ghosts>>

\* The read or the write fails: the user gets the mail at once.
PersistFails(e) ==
    /\ Faults /\ cur[e] # {}
    /\ instant' = [instant EXCEPT ![e] = @ \cup {k[2] : k \in cur[e]}]
    /\ cur' = [cur EXCEPT ![e] = {}] /\ held' = [held EXCEPT ![e] = {}]
    /\ UNCHANGED <<setting, pc, queue, bucket, jobVars, loop, ghosts>>

\* render and send, to all or, when something fails, to some
Send(e) ==
    /\ pc[e] = "persisting" /\ cur[e] = {} /\ queue[e] = {}
    /\ \E bad \in IF Faults THEN SUBSET instant[e] ELSE {{}} :
         /\ told' = [told EXCEPT ![e] = [u \in User |-> IF u \in instant[e] \ bad THEN @[u] + 1 ELSE @[u]]]
         /\ skipped' = skipped \cup ({e} \X bad)
    /\ pc' = [pc EXCEPT ![e] = "done"]
    /\ UNCHANGED <<setting, instant, queue, cur, held, bucket, jobVars, loop, declined, raced>>

----------------------------------------------------------------------------
(* The collected mails                                                     *)

\* sendGroupedEmailsJob: a goroutine for every record of the interval
SendEmails(j, i) ==
    /\ loop = "running" /\ interval[j] = "none"
    /\ interval' = [interval EXCEPT ![j] = i]
    /\ mail' = [mail EXCEPT ![j] = [u \in User |-> IF bucket[<<i, u>>] # {} THEN "listed" ELSE "none"]]
    /\ UNCHANGED <<setting, handlerVars, bucket, popped, loop, ghosts>>

\* pop: the record is read, and the history asked for the events
PopRead(j, u) ==
    /\ mail[j][u] = "listed" /\ loop # "exited"
    /\ LET k == <<interval[j], u>> IN
       \/ /\ bucket[k] = {} \/ Faults
          /\ mail' = [mail EXCEPT ![j][u] = "failed"]
          /\ UNCHANGED <<popped, raced>>
       \/ /\ bucket[k] # {}
          /\ mail' = [mail EXCEPT ![j][u] = "read"]
          /\ popped' = [popped EXCEPT ![j][u] = bucket[k]]
          /\ Overlap(k)
    /\ UNCHANGED <<setting, handlerVars, bucket, interval, loop, told, declined, skipped>>

\* and deleted, unless that fails
PopDelete(j, u) ==
    /\ mail[j][u] = "read" /\ loop # "exited"
    /\ \/ /\ bucket' = [bucket EXCEPT ![<<interval[j], u>>] = {}]
          /\ mail' = [mail EXCEPT ![j][u] = "deleted"]
       \/ Faults /\ mail' = [mail EXCEPT ![j][u] = "failed"] /\ UNCHANGED bucket
    /\ UNCHANGED <<setting, handlerVars, interval, popped, loop, ghosts>>

\* createGroupedMail: events that cannot be told of are left out, and so is
\* an empty mail
SendGrouped(j, u) ==
    /\ mail[j][u] = "deleted" /\ loop # "exited"
    /\ \E bad \in IF Faults THEN SUBSET popped[j][u] ELSE {{}} :
         /\ told' = [e \in Event |-> IF e \in popped[j][u] \ bad
                                     THEN [told[e] EXCEPT ![u] = @ + 1] ELSE told[e]]
         /\ skipped' = skipped \cup (bad \X {u})
    /\ mail' = [mail EXCEPT ![j][u] = "sent"]
    /\ UNCHANGED <<setting, handlerVars, bucket, interval, popped, loop, declined, raced>>

----------------------------------------------------------------------------
Close ==
    /\ loop = "running" /\ loop' = "stopped"
    /\ UNCHANGED <<setting, handlerVars, bucket, jobVars, ghosts>>

\* wg.Wait of Run: the goroutines of the events
Handling == {e \in Event : pc[e] \notin {"new", "done", "failed"}}

Exit ==
    /\ loop = "stopped" /\ Handling = {}
    /\ loop' = "exited"
    /\ UNCHANGED <<setting, handlerVars, bucket, jobVars, ghosts>>

Next ==
    \/ \E e \in Event : \/ Handle(e) \/ Split(e) \/ Send(e) \/ PersistFails(e)
                        \/ \E k \in Key : PersistRead(e, k) \/ PersistWrite(e, k)
    \/ \E j \in Job : \/ \E i \in Interval : SendEmails(j, i)
                      \/ \E u \in User : PopRead(j, u) \/ PopDelete(j, u) \/ SendGrouped(j, u)
    \/ \E u \in User, i \in Interval \cup {"instant", "never", "unset"} : Choose(u, i)
    \/ Close \/ Exit

Spec == Init /\ [][Next]_vars

----------------------------------------------------------------------------
(* Properties                                                              *)

\* Nobody is told who is not a grantee with a mail address, or who has turned
\* the mails of this kind or all of them off, and a member of a group is not
\* told what it did itself or what has expired of its own, neither at once nor in a collected mail
\* (getGranteeList, filter.execute).
OnlyWanted ==
    \A e \in Event, u \in User : told[e][u] > 0 =>
        /\ u \in Grantees[e] /\ u \notin NoMail \cup OptedOut /\ <<e, u>> \notin Unwanted
        /\ e \in ToGroup => u # (IF Kind[e] \in {"ShareExpired", "SpaceMembershipExpired"}
                                 THEN Owner ELSE Sharer)

\* where an event has come to, for a user
Waits(e, u) == \E k \in Key : k[2] = u /\ e \in bucket[k]
InMail(e, u) == \E j \in Job : mail[j][u] = "deleted" /\ e \in popped[j][u]
Overlapped(u) == \E k \in raced : k[2] = u

\* A user whose records no two goroutines worked on at the same time is told
\* of an event once at most: not at once and again in a collected mail, and
\* not in two of them, also when records are lost to errors or the user
\* changes the interval (persist, pop).
NotTwice ==
    \A e \in Event, u \in User : ~Overlapped(u) =>
        /\ told[e][u] <= 1
        /\ told[e][u] = 1 => ~Waits(e, u) /\ ~InMail(e, u)

\* An event that was handled reaches every recipient with a mail of its own,
\* or waits in a record, or is in a mail being made, unless that mail had to
\* leave it out, two goroutines worked on the record at the same time, or the
\* user wants no mails (persist, pop, createGroupedMail).
NotLost ==
    \A e \in Event, u \in User :
        \/ pc[e] # "done" \/ u \notin Filter(e, GranteeList(e)) \/ Overlapped(u)
        \/ told[e][u] > 0 \/ Waits(e, u) \/ InMail(e, u) \/ <<e, u>> \in skipped
        \/ u \in declined[e]

=============================================================================
