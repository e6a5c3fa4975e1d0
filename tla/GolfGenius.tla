------------------------------ MODULE GolfGenius -------------------------------
(***************************************************************************)
(* Imports from and exports to Golf Genius, for one event.                 *)
(*                                                                         *)
(* A request joins the operation that is running for the event, or starts  *)
(* one (golfgenius.controller.ts).  ProgressTracker keeps the stream of    *)
(* the running operation and takes it away by timers: one that every       *)
(* operation sets when it starts, and one, or two, when it has ended.  No  *)
(* timer is ever cancelled, and each ends whatever stream it finds.        *)
(*                                                                         *)
(* The operations replace rows of the database, tournament by tournament:  *)
(* results are fetched and then replaced (import-all-results.service.ts),  *)
(* points and pairings are deleted and then fetched (points-import and     *)
(* teesheet-import.service.ts); the roster export writes to Golf Genius.   *)
(* Timers have no length here: an operation may outlast any of them.       *)
(***************************************************************************)
EXTENDS Naturals

CONSTANTS
    Ops,            \* the operations that start, one after the other
    Tables,         \* sets of rows that are replaced as a whole: a
                    \* tournament's results or points, the event's pairings
    ActionOf,       \* the action that replaces them
    Old,            \* the rows there from an earlier import
    None

Actions == {"results", "points", "teesheet", "roster"}

ASSUME GolfGeniusAssumption ==
    /\ ActionOf \in [Tables -> Actions \ {"roster"}]
    /\ Old \notin Ops /\ None \notin Ops

VARIABLES
    looking,        \* actions of the requests that look the event up
    phase,          \* what became of each operation
    action,         \* the action it performs
    todo,           \* the tables it still has to replace
    work,           \* the table at hand, and how far it is
    stream,         \* activeOperations: whose stream is kept for the event
    timers,         \* how many clean-ups are due: they do not say for which operation
    rows,           \* the operations whose rows are in each table
    emptied,        \* tournaments left without results on purpose or by misfortune:
                    \* what was fetched brought none, or the insert failed
    cut             \* operations whose stream was taken away while they ran

trackerVars == <<stream, timers>>
vars == <<looking, phase, action, todo, work, trackerVars, rows, emptied, cut>>

NoWork == [table |-> None, step |-> "none"]

Lookers == {"results", "points"}

TypeOK ==
    /\ looking \subseteq Lookers
    /\ phase \in [Ops -> {"idle", "running", "failing", "logging", "done", "stopped"}]
    /\ action \in [Ops -> Actions \cup {None}]
    /\ todo \in [Ops -> SUBSET Tables]
    /\ work \in [Ops -> [table : Tables, step : {"fetched", "deleted", "ready"}]
                          \cup {NoWork}]
    /\ stream \in Ops \cup {None}
    /\ timers \in Nat
    /\ rows \in [Tables -> SUBSET (Ops \cup {Old})]
    /\ emptied \subseteq Tables
    /\ cut \subseteq Ops

Init ==
    /\ looking = {}
    /\ phase = [o \in Ops |-> "idle"]
    /\ action = [o \in Ops |-> None]
    /\ todo = [o \in Ops |-> {}]
    /\ work = [o \in Ops |-> NoWork]
    /\ stream = None
    /\ timers = 0
    /\ rows = [x \in Tables |-> {Old}]
    /\ emptied = {}
    /\ cut = {}

-----------------------------------------------------------------------------
(* Starting *)

IsNext(o) == phase[o] = "idle" /\ o = CHOOSE p \in Ops : phase[p] = "idle"

\* (faulty) no timer is set before the operation has ended
StartUntimed(o, a) ==
    /\ IsNext(o)
    /\ phase' = [phase EXCEPT ![o] = "running"]
    /\ todo' = [todo EXCEPT ![o] = {x \in Tables : ActionOf[x] = a}]
    /\ action' = [action EXCEPT ![o] = a]
    /\ stream' = o
    /\ UNCHANGED <<timers, work, rows, emptied, cut>>

\* startTracking, startTournamentTracking
Start(o, a) ==
    /\ IsNext(o)
    /\ phase' = [phase EXCEPT ![o] = "running"]
    /\ todo' = [todo EXCEPT ![o] = {x \in Tables : ActionOf[x] = a}]
    /\ action' = [action EXCEPT ![o] = a]
    /\ stream' = o
    /\ timers' = timers + 1
    /\ UNCHANGED <<work, rows, emptied, cut>>

\* A request that finds something running, be it another action, is answered
\* with that operation's stream and starts nothing.  exportEventRoster and
\* importTeesheet start in the turn that found nothing ...
StartNow(o, a) ==
    /\ stream = None
    /\ a \in Actions \ Lookers
    /\ Start(o, a)
    /\ UNCHANGED looking

\* ... the other actions look the event up first ...
LookUp(a) ==
    /\ stream = None
    /\ a \in Lookers
    /\ looking' = looking \cup {a}
    /\ UNCHANGED <<phase, action, todo, work, trackerVars, rows, emptied, cut>>

\* (faulty) ... and do not see whether something has started meanwhile
BeginBlind(o, a) ==
    /\ a \in looking
    /\ looking' = looking \ {a}
    /\ Start(o, a)

\* ... and start if nothing else has meanwhile ...
Begin(o, a) ==
    /\ a \in looking
    /\ stream = None
    /\ looking' = looking \ {a}
    /\ Start(o, a)

\* ... "Operation already in progress", or the event has nothing to import.
Refuse(a) ==
    /\ a \in looking
    /\ looking' = looking \ {a}
    /\ UNCHANGED <<phase, action, todo, work, trackerVars, rows, emptied, cut>>

-----------------------------------------------------------------------------
(* Replacing rows *)

Takes(o, x) == phase[o] = "running" /\ work[o] = NoWork /\ x \in todo[o]

Results == {x \in Tables : ActionOf[x] = "results"}

AtHand(o, step) == phase[o] = "running" /\ work[o].step = step

\* An error with one table is noted, and the others go on.
Skip(o, x) ==
    /\ work' = [work EXCEPT ![o] = NoWork]
    /\ todo' = [todo EXCEPT ![o] = @ \ {x}]

\* No Golf Genius id, or a read or the fetch fails, before anything is deleted.
GiveUpOn(o, x) ==
    /\ Takes(o, x)
    /\ action[o] \in Lookers
    /\ Skip(o, x)
    /\ UNCHANGED <<looking, phase, action, trackerVars, rows, emptied, cut>>

\* importTournamentResults fetches before it deletes anything.
FetchResults(o, x) ==
    /\ Takes(o, x)
    /\ action[o] = "results"
    /\ work' = [work EXCEPT ![o] = [table |-> x, step |-> "fetched"]]
    /\ UNCHANGED <<looking, phase, action, todo, trackerVars, rows, emptied, cut>>

DeleteResults(o) ==
    /\ AtHand(o, "fetched")
    /\ rows' = [rows EXCEPT ![work[o].table] = {}]
    /\ work' = [work EXCEPT ![o].step = "ready"]
    /\ UNCHANGED <<looking, phase, action, todo, trackerVars, emptied, cut>>

\* (faulty) every action deletes the rows before it fetches new ones
DeleteFirstAll(o, x) ==
    /\ Takes(o, x)
    /\ rows' = [rows EXCEPT ![x] = {}]
    /\ work' = [work EXCEPT ![o] = [table |-> x, step |-> "deleted"]]
    /\ UNCHANGED <<looking, phase, action, todo, trackerVars, emptied, cut>>

\* importTournamentPoints and processImportAsync (tee sheet) delete first ...
DeleteFirst(o, x) ==
    /\ Takes(o, x)
    /\ action[o] \in {"points", "teesheet"}
    /\ rows' = [rows EXCEPT ![x] = {}]
    /\ work' = [work EXCEPT ![o] = [table |-> x, step |-> "deleted"]]
    /\ UNCHANGED <<looking, phase, action, todo, trackerVars, emptied, cut>>

\* ... and fetch then; points that cannot be fetched, and rounds without a Golf
\* Genius id, are skipped.
FetchAfter(o) ==
    /\ AtHand(o, "deleted")
    /\ \/ /\ work' = [work EXCEPT ![o].step = "ready"]
          /\ UNCHANGED todo
       \/ Skip(o, work[o].table)
    /\ UNCHANGED <<looking, phase, action, trackerVars, rows, emptied, cut>>

\* What was fetched is inserted, or brings no rows, or the insert fails.
Insert(o) ==
    LET x == work[o].table
    IN  /\ AtHand(o, "ready")
        /\ \/ /\ rows' = [rows EXCEPT ![x] = @ \cup {o}]
              /\ emptied' = emptied \ {x}
           \/ /\ emptied' = emptied \cup ({x} \cap Results)
              /\ UNCHANGED rows
        /\ Skip(o, x)
        /\ UNCHANGED <<looking, phase, action, trackerVars, cut>>

-----------------------------------------------------------------------------
(* Ending *)

\* completeOperation, completeExport: the browser is told, the log is written.
Complete(o) ==
    /\ phase[o] = "running"
    /\ todo[o] = {}
    /\ phase' = [phase EXCEPT ![o] = "logging"]
    /\ UNCHANGED <<looking, action, todo, work, trackerVars, rows, emptied, cut>>

\* errorOperation, errorExport: an error that is not noted ends the operation.
\* (A tournament whose results cannot be imported is always noted.)
Abort(o) ==
    /\ phase[o] = "running"
    /\ \/ action[o] = "points" /\ work[o] = NoWork
       \/ action[o] \in {"teesheet", "roster"}
    /\ phase' = [phase EXCEPT ![o] = IF action[o] = "roster" THEN "failing" ELSE "logging"]
    /\ work' = [work EXCEPT ![o] = NoWork]
    /\ todo' = [todo EXCEPT ![o] = {}]
    /\ UNCHANGED <<looking, action, trackerVars, rows, emptied, cut>>

\* Then the clean-up is due in a second.  A failing export passes through
\* errorExport twice, in processExportAsync and in its caller.
Logged(o) ==
    \/ /\ phase[o] = "failing"
       /\ phase' = [phase EXCEPT ![o] = "logging"]
       /\ timers' = timers + 1
       /\ UNCHANGED <<looking, action, todo, work, stream, rows, emptied, cut>>
    \/ /\ phase[o] = "logging"
       /\ phase' = [phase EXCEPT ![o] = "done"]
       /\ action' = [action EXCEPT ![o] = None]
       /\ timers' = timers + 1
       /\ UNCHANGED <<looking, todo, work, stream, rows, emptied, cut>>

\* (faulty) whether there is a stream is not looked at
CleanupAny ==
    /\ timers > 0
    /\ timers' = timers - 1
    /\ stream' = None
    /\ cut' = cut \cup {stream}
    /\ UNCHANGED <<looking, phase, action, todo, work, rows, emptied>>

\* cleanupOperation: whatever stream is there for the event ends.
CleanupOperation ==
    /\ timers > 0
    /\ timers' = timers - 1
    /\ stream' = None
    /\ cut' = cut \cup {p \in Ops : p = stream /\ phase[p] = "running"}
    /\ UNCHANGED <<looking, phase, action, todo, work, rows, emptied>>

\* The server stops; the streams are lost and the rows stay as they are.
Crash ==
    /\ \E o \in Ops : phase[o] \in {"running", "failing", "logging"}
    /\ looking' = {}
    /\ phase' = [o \in Ops |-> IF phase[o] \in {"idle", "done"}
                               THEN phase[o] ELSE "stopped"]
    /\ action' = [o \in Ops |-> None]
    /\ todo' = [o \in Ops |-> {}]
    /\ work' = [o \in Ops |-> NoWork]
    /\ emptied' = emptied \cup {x \in Results : rows[x] = {}}
    /\ stream' = None
    /\ timers' = 0
    /\ UNCHANGED <<rows, cut>>

-----------------------------------------------------------------------------

Next ==
    \/ \E o \in Ops, a \in Actions : StartNow(o, a) \/ Begin(o, a)
    \/ \E a \in Actions : LookUp(a) \/ Refuse(a)
    \/ \E o \in Ops :
        \/ \E x \in Tables : GiveUpOn(o, x) \/ FetchResults(o, x) \/ DeleteFirst(o, x)
        \/ DeleteResults(o) \/ FetchAfter(o) \/ Insert(o)
        \/ Complete(o) \/ Abort(o) \/ Logged(o)
    \/ CleanupOperation
    \/ Crash

\* Timers fire.  Nothing is assumed of the operations: Golf Genius may be slow,
\* or never answer.
Fairness == WF_vars(CleanupOperation)

Spec == Init /\ [][Next]_vars /\ Fairness

-----------------------------------------------------------------------------
(* Properties *)

\* No two operations run for an event: neither two requests that both found
\* nothing running nor a request during another one's log entry start a second.
\* Only a timer that ends the stream of an operation that still runs, its own
\* after five minutes or one an earlier operation left behind, lets that happen.
OneAtATime ==
    \A o, p \in Ops :
        phase[o] = "running" /\ phase[p] = "running" /\ o # p => {o, p} \cap cut # {}

\* "Delete existing results (idempotent)": however often something is imported,
\* a table holds the rows of one import, unless two of them ran together.
NoDoubleRows ==
    \A x \in Tables : \A o, p \in rows[x] : o # p => {o, p} \cap cut # {}

\* "A failed fetch leaves prior results intact": a tournament that had results
\* is without only from the delete of an operation that holds new ones to their
\* insert, unless an import brought no rows or the server stopped in between.
ResultsSurvive ==
    \A x \in Results : rows[x] = {} =>
        x \in emptied \/ \E o \in Ops : work[o] = [table |-> x, step |-> "ready"]

\* Every progress stream ends, whatever becomes of the operation: no browser is
\* left waiting, and the event locked, for an operation that hangs.
StreamsEnd == \A o \in Ops : stream = o ~> stream # o
=============================================================================
