------------------------------ MODULE MCEvents ------------------------------
(***************************************************************************)
(* The services that work off events: postprocessing, userlog, activitylog *)
(* and notifications, each by itself.  The first state settles which       *)
(* service a behaviour is about; the others rest.                          *)
(***************************************************************************)
EXTENDS Naturals

CONSTANTS None, w1, w2, ask, look

VARIABLES
    part,
    rec, queue, timers, runs, provider, upload, pc, ev, pp, next, later, passed, tries, answers, admin, crashes,
    unseen, history,
    pending, list, event, todo, told, ids, job, faults, sent, stored, dismissed, missing, raced, given,
    parent, bus, fresh, activities, at, asked, toDelete, log, gone, origin, moved,
    setting, progress, instant, records, cur, held, bucket, mail, interval, popped, loop, declined, mailed, skipped, overlapped

post == <<rec, queue, timers, runs, provider, upload, pc, ev, pp, next, later, passed, tries, answers, admin, crashes>>
hist == <<unseen, history>>
ulog == <<pending, list, event, todo, told, ids, job, faults, sent, stored, dismissed, missing, raced, given>>
alog == <<parent, bus, fresh, activities, at, asked, toDelete, log, gone, origin, moved>>
mails == <<setting, progress, instant, records, cur, held, bucket, mail, interval, popped, loop, declined, mailed, skipped, overlapped>>

----------------------------------------------------------------------------
All == {"continue", "delete", "abort", "retry"}

\* two steps of other services, a crash, and somebody who resumes at any time
Post == INSTANCE Postprocessing WITH
    Worker <- {w1, w2}, Steps <- <<"virusscan", "custom">>, PPStepDelay <- "delay",
    MaxRetries <- 1, Persistent <- TRUE, Outcomes <- All, MaxAdmin <- 1, MaxCrash <- 1, MaxAnswers <- 1

\* the step that the service does itself, and one of another service; nobody resumes
Alone == INSTANCE Postprocessing WITH
    Worker <- {w1, w2}, Steps <- <<"delay", "virusscan">>, PPStepDelay <- "delay",
    MaxRetries <- 2, Persistent <- TRUE, Outcomes <- All, MaxAdmin <- 0, MaxCrash <- 0, MaxAnswers <- 3

\* a store in memory, which a crash empties
Memory == INSTANCE Postprocessing WITH
    Worker <- {w1, w2}, Steps <- <<"virusscan", "delay">>, PPStepDelay <- "delay",
    MaxRetries <- 1, Persistent <- FALSE, Outcomes <- All, MaxAdmin <- 0, MaxCrash <- 2, MaxAnswers <- 2

\* a share by the second of two users with both, and the end of a space of the first
Userlog == INSTANCE Userlog WITH
    Event <- {1, 2}, User <- {"u1", "u2"}, Worker <- {w1, w2}, Request <- {ask},
    Kind <- <<"share", "space">>, Bad <- {}, Members <- <<{"u1", "u2"}, {"u1"}>>,
    Executant <- <<"u2", None>>, Muted <- {}, MaxFault <- 1

\* a file that can be moved between the root and a directory
Activitylog == INSTANCE Activitylog WITH
    Event <- {1, 2}, Resource <- {"root", "dir", "file"}, Root <- "root", Request <- {look},
    MaxActivities <- 1, list <- activities, missing <- gone

\* a share with a group and the end of a membership; carol has turned the first off
Notifications == INSTANCE Notifications WITH
    User <- {"alice", "bob", "carol"}, Event <- {1, 2}, Job <- {"j"},
    Kind <- <<"ShareCreated", "SpaceMembershipExpired">>, Sharer <- "alice", Owner <- "carol", ToGroup <- {1},
    Grantees <- <<{"alice", "bob", "carol"}, {"bob"}>>, NoMail <- {}, OptedOut <- {}, Unwanted <- {<<1, "carol">>},
    Fickle <- {"bob"}, Faults <- TRUE,
    pc <- progress, queue <- records, told <- mailed, raced <- overlapped

----------------------------------------------------------------------------
EventsInit ==
    /\ part \in {"post", "post alone", "post in memory", "userlog", "activitylog", "notifications"}
    /\ IF part = "post" THEN Post!Init ELSE Alone!Init
    /\ Userlog!Init /\ Activitylog!Init /\ parent["file"] = "dir" /\ Notifications!Init

EventsNext ==
    /\ \/ /\ \/ part = "post" /\ Post!Next
             \/ part = "post alone" /\ Alone!Next
             \/ part = "post in memory" /\ Memory!Next
          /\ UNCHANGED <<hist, ulog, alog, mails>>
       \/ part = "userlog" /\ Userlog!Next /\ UNCHANGED <<post, alog, mails>>
       \/ part = "activitylog" /\ Activitylog!Next /\ UNCHANGED <<post, ulog, mails>>
       \/ part = "notifications" /\ Notifications!Next /\ UNCHANGED <<post, hist, ulog, alog>>
    /\ UNCHANGED part

\* Workers, goroutines and the other services go on, and an administrator
\* resumes what has come to a halt.
Fair ==
    /\ \A w \in {w1, w2} : /\ WF_post(part = "post" /\ Post!Step(w)) /\ WF_post(part = "post alone" /\ Alone!Step(w))
                          /\ WF_post(part = "post in memory" /\ Memory!Step(w))
    /\ WF_post(part = "post" /\ Post!Receive)    /\ WF_post(part = "post alone" /\ Alone!Receive)
    /\ WF_post(part = "post" /\ Post!TimerFires) /\ WF_post(part = "post alone" /\ Alone!TimerFires)
    /\ WF_post(part = "post" /\ Post!Provider)   /\ WF_post(part = "post alone" /\ Alone!Provider)
    /\ WF_post(part = "post" /\ Post!Answered)   /\ WF_post(part = "post alone" /\ Alone!Answered)
    /\ WF_post(part = "post in memory" /\ Memory!Receive)  /\ WF_post(part = "post in memory" /\ Memory!TimerFires)
    /\ WF_post(part = "post in memory" /\ Memory!Provider) /\ WF_post(part = "post in memory" /\ Memory!Answered)
    /\ WF_post(part = "post" /\ Post!ResumeHalted) /\ WF_post(part = "post in memory" /\ Memory!ResumeHalted)

EventsSpec ==
    /\ EventsInit /\ [][EventsNext]_<<part, post, hist, ulog, alog, mails>>
    /\ Fair

----------------------------------------------------------------------------
\* A file is made accessible when all its steps have answered with continue,
\* whatever is lost, repeated, resumed or restarted (postprocessing).
ReleasedWhenPassed ==
    IF part = "post" THEN Post!ReleasedWhenPassed ELSE Alone!ReleasedWhenPassed

\* No step is retried more often than the configuration says (postprocessing).
RetriesBounded == part = "post alone" => Alone!RetriesBounded

\* An upload is released for good reasons, after as many tries as configured
\* (postprocessing).
PostprocessingTrue ==
    (IF part = "post" THEN Post!TypeOK ELSE Alone!TypeOK) /\ ReleasedWhenPassed /\ RetriesBounded

\* An upload that is received is released, deleted or kept in the end, if an
\* administrator resumes what has come to a halt, or if the store is in
\* memory and the records of all uploads are lost (postprocessing).
Processed == part \in {"post", "post in memory"} => Post!Processed

\* The record goes once the storage provider has released the upload
\* (postprocessing).
RecordGoes == part = "post alone" => Alone!RecordGoes

\* Uploads and their records both come to an end (postprocessing).
UploadsEnd == Processed /\ RecordGoes

\* An event is in the list of everybody who wants it, unless the user or the
\* event history has let it go, a call has failed, or two alterations of the
\* list have overlapped (userlog).
LostOnlyByRace == part = "userlog" => Userlog!LostOnlyByRace

\* An event that a user has deleted does not come back, unless an alteration
\* of the same list was under way (userlog).
DismissedStays == part = "userlog" => Userlog!DismissedStays

\* Whoever gets an SSE had the event put in the list first (userlog).
NotifiedWasStored == part = "userlog" => Userlog!NotifiedWasStored

\* What users are told and shown agrees with what happened and with what they
\* have dismissed (userlog).
UserlogTrue ==
    (part = "userlog" => Userlog!TypeOK) /\ LostOnlyByRace /\ DismissedStays /\ NotifiedWasStored

\* The last activities of a resource stay on its list until a request finds
\* the event gone from the event history, or the resource is purged
\* (activitylog).
LatestKept == part = "activitylog" => Activitylog!LatestKept

\* When the climb is over and nothing was moved meanwhile, every ancestor has
\* the activity, with its distance as depth (activitylog).
Climbed == part = "activitylog" => Activitylog!Climbed

\* The lists of a file and of all directories above it are those of the events
\* (activitylog).
ActivitiesTrue == (part = "activitylog" => Activitylog!TypeOK) /\ LatestKept /\ Climbed

\* Nobody is told who is not a grantee, or has turned the mails off, at once
\* or in a collected mail (notifications).
OnlyWanted == part = "notifications" => Notifications!OnlyWanted

\* A user whose records no two goroutines worked on at the same time is told
\* of an event once at most (notifications).
NotTwice == part = "notifications" => Notifications!NotTwice

\* An event that was handled reaches every recipient or waits in a record,
\* but for mails that could not be made and records that two goroutines
\* worked on at the same time (notifications).
NotLost == part = "notifications" => Notifications!NotLost

\* Mails go to those who want them, once, and do go (notifications).
MailsTrue == (part = "notifications" => Notifications!TypeOK) /\ OnlyWanted /\ NotTwice /\ NotLost
=============================================================================
