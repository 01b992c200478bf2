---------------------------- MODULE MCBackground ----------------------------
(***************************************************************************)
(* What runs in the background of remoteposix: the monitors that keep the  *)
(* mount, and the scans that import what others change on it.  The first   *)
(* state settles which of them a behaviour is about; the other one rests.  *)
(* Mount is extended: its constants are those of requests beside monitors. *)
(***************************************************************************)
EXTENDS Mount

CONSTANTS m1, m2, s1, s2

VARIABLES
    part,
    disk, nodes, etag, operation, holder, clock, ids, revs, externals, ops, removed, at, stale, old, listed, found

scan == <<disk, nodes, etag, operation, holder, clock, ids, revs, externals, ops, removed, at, stale, old, listed, found>>

----------------------------------------------------------------------------
\* outages without crashes, during which the passes of monitors do not overlap
Outage == INSTANCE Mount WITH
    Instance <- {m1, m2}, Foreign <- {}, Watch <- {CHOOSE p \in Provider : TRUE},
    MaxNest <- 1, MaxChange <- 2, MaxStop <- 0, Overlap <- FALSE

\* a root with a file a and an empty directory d
Walk == <<".", "a", "d", "d/x">>
Parents == [p \in {"a", "d", "d/x"} |-> IF p = "d/x" THEN "d" ELSE "."]
Start0 == [p \in {".", "a", "d", "d/x"} |->
              IF p \in {".", "d"} THEN [dir |-> TRUE, rev |-> 0]
              ELSE IF p = "a" THEN [dir |-> FALSE, rev |-> 1] ELSE None]

\* two providers scan beside a request
Scan == INSTANCE Scan WITH
    Scanner <- {s1, s2}, Order <- Walk, Up <- Parents, InitDisk <- Start0, Retype <- FALSE,
    Grace <- 1, Limit <- 1, MaxExternal <- 0, MaxOp <- 2, MaxClock <- 0, pc <- at

\* one provider, and external changes
Edits == INSTANCE Scan WITH
    Scanner <- {s1}, Order <- Walk, Up <- Parents, InitDisk <- Start0, Retype <- FALSE,
    Grace <- 1, Limit <- 1, MaxExternal <- 2, MaxOp <- 1, MaxClock <- 1, pc <- at

\* no requests, and a limit that no loss exceeds
Import == INSTANCE Scan WITH
    Scanner <- {s1}, Order <- Walk, Up <- Parents, InitDisk <- Start0, Retype <- FALSE,
    Grace <- 1, Limit <- 4, MaxExternal <- 2, MaxOp <- 0, MaxClock <- 2, pc <- at

----------------------------------------------------------------------------
BackgroundInit ==
    /\ part \in {"mount", "outage", "scans", "edits", "import"}
    /\ Init /\ mount = m1 /\ Scan!Init

BackgroundNext ==
    /\ \/ ((part = "mount" /\ Next) \/ (part = "outage" /\ Outage!Next)) /\ UNCHANGED scan
       \/ /\ \/ part = "scans" /\ Scan!Next
             \/ part = "edits" /\ Edits!Next
             \/ part = "import" /\ Import!Next
          /\ UNCHANGED vars
    /\ UNCHANGED part

\* Requests and monitors go on, and the timers of probe and polling fire again
\* and again.  A provider polls on, and time passes.
Fair ==
    /\ \A p \in Provider :
        /\ WF_vars(part = "outage" /\ Outage!RequestGoesOn(<<p, "request">>))
        /\ WF_vars(part = "outage" /\ Outage!MonitorGoesOn(Monitor(p)))
        /\ SF_vars(part = "outage" /\ Outage!Probe(Monitor(p)))
    /\ SF_vars(part = "outage" /\ \E p \in Provider : Outage!Tick(Monitor(p)))
    /\ WF_scan(part = "import" /\ Import!Step(s1))
    /\ WF_scan(part = "import" /\ Import!Publish)
    /\ WF_scan(part = "import" /\ Import!Tick)

BackgroundSpec == BackgroundInit /\ [][BackgroundNext]_<<part, vars, scan>> /\ Fair

----------------------------------------------------------------------------
Scanning == {"scans", "edits", "import"}

\* The variables of a scan have their types; publication and the commit of a
\* scan exclude each other.
ScanTypes == part \in Scanning => Import!TypeOK

\* A row never takes the revision of an older observation (scan, commitScan).
NeverRegress == [][(part \in Scanning) => Scan!NeverRegress]_scan

\* What a scan hides or drops was removed on the mount (scan, commitScan).
NoFalseLoss == [][(part \in Scanning) => Scan!NoFalseLoss]_scan

\* No commit hides more rows than the limit, or a quarter of them (scan).
BulkLossStops == [][part = "edits" => Edits!BulkLossStops]_scan

\* Every visible row hangs under the visible row of its directory
\* (commitScan).
RowsFormTree == part \in {"scans", "edits"} => Scan!RowsFormTree

\* Scans leave a tree of rows, lose nothing that is there, fall behind no
\* request, and stop before a bulk loss (scan, commitScan).
ScansTrue == [](ScanTypes /\ RowsFormTree) /\ NeverRegress /\ NoFalseLoss /\ BulkLossStops

\* When the edits are over, the visible rows come to be the entries of the
\* mount, and stay so (scan).
Imports == part = "import" => <>[]Import!Imported

\* Without the help of requests, all providers come back with a handle of the
\* mounted instance and of one generation, and stay; the intents that the
\* outage left are then recovered (maintain).
ComesBack == part = "outage" => Outage!OutageEnds

\* Maintenance catches up with what happened to the mount: an outage ends
\* with handles that are good, edits end with rows that are true (maintain,
\* scan).
CatchesUp == ComesBack /\ Imports
=============================================================================
