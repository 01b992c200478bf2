------------------------------ MODULE MCSearch ------------------------------
(***************************************************************************)
(* The search service: the debouncer, the index of a space and the queries *)
(* on it, each by itself.  The first state settles which part a behaviour  *)
(* is about; the other parts rest.                                         *)
(***************************************************************************)
EXTENDS Debouncer

VARIABLES
    part,
    state, place, mtime, doc, job, stale, walk, changes, unread, odd,
    stack, terms, tokens

debouncer == debouncerVars
index == <<state, place, mtime, doc, job, stale, walk, changes, unread, odd>>
query == <<stack, terms, tokens>>

\* the debouncer when no timer fires between the two calls on inProgress
Calm == INSTANCE Debouncer WITH Prompt <- TRUE

\* changes one by one, with failures
Index == INSTANCE SearchIndex WITH
    Folder <- "d", File <- {"f"}, Name <- {"a", "b"}, Worker <- {"w1"}, dirty <- stale,
    MaxChanges <- 5, Serial <- TRUE, Faults <- TRUE,
    Ops <- {"create", "upload", "trash", "restore", "elsewhere", "move", "purge", "tag"}

\* changes while events are handled
Busy == INSTANCE SearchIndex WITH
    Folder <- "d", File <- {"f"}, Name <- {"a", "b"}, Worker <- {"w1", "w2"}, dirty <- stale,
    MaxChanges <- 3, Serial <- FALSE, Faults <- FALSE,
    Ops <- {"create", "upload", "trash", "restore", "elsewhere", "move"}

Query == INSTANCE KqlQuery WITH
    Keys <- {"", "tag"}, Kinds <- {"plain", "class", "file"}, MaxTokens <- 6, MaxTerms <- 3, MaxDepth <- 2

SearchInit ==
    /\ part \in {"debouncer", "calm debouncer", "index", "busy index", "query"}
    /\ DebouncerInit /\ Query!Init
    /\ IF part = "busy index" THEN Busy!Init ELSE Index!Init

SearchNext ==
    /\ \/ part = "debouncer" /\ DebouncerNext /\ UNCHANGED <<index, query>>
       \/ part = "calm debouncer" /\ Calm!DebouncerNext /\ UNCHANGED <<index, query>>
       \/ part = "index" /\ Index!Next /\ UNCHANGED <<debouncer, query>>
       \/ part = "busy index" /\ Busy!Next /\ UNCHANGED <<debouncer, query>>
       \/ part = "query" /\ Query!Next /\ UNCHANGED <<debouncer, index>>
    /\ UNCHANGED part

SearchSpec ==
    /\ SearchInit /\ [][SearchNext]_<<part, debouncer, index, query>>
    /\ \/ part = "debouncer" /\ Fairness
       \/ part # "debouncer"

----------------------------------------------------------------------------
\* After the events have ended the space is indexed once more; and where no
\* timer fires between the two calls on inProgress, runs are one at a time: the
\* test "doesn't trigger twice simultaneously" (Debounce).
IndexedAgain ==
    /\ [](part = "calm debouncer" => Calm!DebouncerSound)
    /\ part = "debouncer" => Indexed

\* Changes that come one by one leave an index that says what is there,
\* but for the cases SearchIndex names.
IndexAgrees == part = "index" => Index!Agrees

\* Whatever the order of the handlers' reads and writes, what a live file has
\* in the index is of its last content once all is quiet.
ContentFresh == part = "busy index" => Busy!ContentFresh

\* The index tells what is in the space (search, the handlers of events).
IndexTrue == Index!TypeOK /\ IndexAgrees /\ ContentFresh

\* connectNodes puts exactly one operator between operands, the one that the
\* two have at their sides decide.
Connected == Query!Connected

\* The compiled query finds the documents that the query describes.
FindsTheSame == Query!FindsTheSame

\* What a query means survives parsing and compiling (kql, bleve).
QueryTrue == Connected /\ FindsTheSame
=============================================================================
