---------------------------- MODULE GolfGeniusProofs ----------------------------
(* What GolfGenius keeps true for any number of operations and tables.         *)
EXTENDS GolfGenius, TLAPS

(* The inductive invariant, in parts. *)

\* An operation that runs and was never cut off owns the event's stream.
StreamInv == \A o \in Ops : phase[o] = "running" /\ o \notin cut => stream = o

\* Only a running operation has tables to replace, those of its action.
TodoInv ==
    \A o \in Ops :
        /\ phase[o] # "running" => todo[o] = {} /\ work[o] = NoWork
        /\ \A x \in todo[o] : ActionOf[x] = action[o]
        /\ work[o] # NoWork => work[o].table \in todo[o]

\* Whose rows an operation finds next to its own when it inserts.
WorkInv ==
    \A o \in Ops : work[o].step \in {"deleted", "ready"} =>
        \A p \in rows[work[o].table] : p # o => {o, p} \cap cut # {}

ImportInv ==
    /\ TypeOK
    /\ StreamInv
    /\ TodoInv
    /\ WorkInv
    /\ OneAtATime
    /\ NoDoubleRows
    /\ ResultsSurvive

-----------------------------------------------------------------------------

LEMMA InitImportInv == Init => ImportInv
  BY GolfGeniusAssumption
  DEF Init, ImportInv, TypeOK, StreamInv, TodoInv, WorkInv, OneAtATime, NoDoubleRows,
      ResultsSurvive, NoWork, Results

\* The stream decides: two running operations cannot both own it.
LEMMA OneOwner == StreamInv => OneAtATime
  BY DEF StreamInv, OneAtATime

\* Starting an operation; looking stays within the actions that look up.
LEMMA StartStep ==
    ASSUME ImportInv, NEW o \in Ops, NEW a \in Actions, Start(o, a), stream = None,
           looking' \subseteq Lookers
    PROVE  ImportInv'
  <1> USE GolfGeniusAssumption DEF ImportInv, Start, IsNext
  <1>1. /\ phase'[o] = "running" /\ action'[o] = a
        /\ todo'[o] = {x \in Tables : ActionOf[x] = a} /\ work[o] = NoWork
        /\ \A p \in Ops \ {o} : /\ phase'[p] = phase[p] /\ action'[p] = action[p]
                                /\ todo'[p] = todo[p]
    BY DEF TypeOK, TodoInv
  <1>2. TypeOK'
    BY DEF TypeOK, Actions
  <1>3. StreamInv'
    BY <1>1 DEF StreamInv, TypeOK
  <1>4. TodoInv'
    BY <1>1 DEF TodoInv, TypeOK
  <1>5. WorkInv' /\ NoDoubleRows' /\ ResultsSurvive'
    BY DEF WorkInv, NoDoubleRows, ResultsSurvive
  <1> QED  BY <1>2, <1>3, <1>4, <1>5, OneOwner, PTL

\* Who holds new results of a table has it at hand.
LEMMA Holder ==
    ASSUME NEW o \in Ops, NEW x, work[o] = [table |-> x, step |-> "ready"]
    PROVE  work[o].table = x /\ work[o].step = "ready" /\ work[o] # NoWork
  BY DEF NoWork

\* Requests that look up, and tables that are given up or fetched.
LEMMA LookStep ==
    ASSUME ImportInv, NEW a \in Actions, LookUp(a) \/ Refuse(a)
    PROVE  ImportInv'
  BY DEF ImportInv, LookUp, Refuse, trackerVars, TypeOK, StreamInv, TodoInv, WorkInv,
         OneAtATime, NoDoubleRows, ResultsSurvive

LEMMA GiveUpOnStep ==
    ASSUME ImportInv, NEW o \in Ops, NEW x \in Tables, GiveUpOn(o, x)
    PROVE  ImportInv'
  <1> USE DEF ImportInv, GiveUpOn, Takes, Skip, trackerVars
  <1>1. TypeOK'
    BY DEF TypeOK
  <1>2. TodoInv'
    BY DEF TodoInv, TypeOK
  <1>3. StreamInv' /\ OneAtATime' /\ NoDoubleRows'
    BY DEF StreamInv, OneAtATime, NoDoubleRows
  <1>4. WorkInv' /\ ResultsSurvive'
    BY DEF WorkInv, ResultsSurvive, TypeOK, NoWork
  <1> QED  BY <1>1, <1>2, <1>3, <1>4

LEMMA FetchResultsStep ==
    ASSUME ImportInv, NEW o \in Ops, NEW x \in Tables, FetchResults(o, x)
    PROVE  ImportInv'
  <1> USE DEF ImportInv, FetchResults, Takes, trackerVars
  <1>1. TypeOK'
    BY DEF TypeOK
  <1>2. TodoInv'
    BY DEF TodoInv, TypeOK
  <1>3. StreamInv' /\ OneAtATime' /\ NoDoubleRows'
    BY DEF StreamInv, OneAtATime, NoDoubleRows
  <1>4. WorkInv' /\ ResultsSurvive'
    BY DEF WorkInv, ResultsSurvive, TypeOK, NoWork
  <1> QED  BY <1>1, <1>2, <1>3, <1>4

\* A table is emptied: by an operation that holds what will fill it ...
LEMMA DeleteResultsStep ==
    ASSUME ImportInv, NEW o \in Ops, DeleteResults(o)
    PROVE  ImportInv'
  <1> USE DEF ImportInv, DeleteResults, AtHand, trackerVars
  <1>0. work[o] \in [table : Tables, step : {"fetched", "deleted", "ready"}]
    BY DEF TypeOK, NoWork
  <1>1. /\ work'[o] = [table |-> work[o].table, step |-> "ready"]
        /\ \A p \in Ops \ {o} : work'[p] = work[p]
    BY <1>0 DEF TypeOK
  <1>2. TypeOK'
    BY <1>0 DEF TypeOK
  <1>3. TodoInv'
    BY <1>0, <1>1 DEF TodoInv, TypeOK, NoWork
  <1>4. StreamInv' /\ OneAtATime'
    BY DEF StreamInv, OneAtATime
  <1>5. \A x \in Tables : rows'[x] \subseteq rows[x]
    BY <1>0 DEF TypeOK
  <1>6. rows'[work[o].table] = {}
    BY <1>0 DEF TypeOK
  <1>7. NoDoubleRows'
    BY <1>5 DEF NoDoubleRows
  <1>8. WorkInv'
    BY <1>0, <1>1, <1>5, <1>6 DEF WorkInv, TypeOK, NoWork
  <1>9. ResultsSurvive'
    <2> SUFFICES ASSUME NEW y \in Results, rows'[y] = {}, y \notin emptied'
                 PROVE  \E p \in Ops : work'[p] = [table |-> y, step |-> "ready"]
      BY DEF ResultsSurvive
    <2>1. CASE y = work[o].table
      BY <2>1, <1>1
    <2>2. CASE y # work[o].table
      <3>1. rows[y] = {}
        BY <2>2, <1>0 DEF TypeOK, Results
      <3>2. PICK p \in Ops : work[p] = [table |-> y, step |-> "ready"]
        BY <3>1 DEF ResultsSurvive
      <3> QED  BY <2>2, <3>2, <1>1, Holder
    <2> QED  BY <2>1, <2>2
  <1> QED  BY <1>2, <1>3, <1>4, <1>7, <1>8, <1>9

\* ... or, if it is no results table, before anything is fetched.
LEMMA DeleteFirstStep ==
    ASSUME ImportInv, NEW o \in Ops, NEW x \in Tables, DeleteFirst(o, x)
    PROVE  ImportInv'
  <1> USE DEF ImportInv, DeleteFirst, Takes, trackerVars
  <1>1. /\ work'[o] = [table |-> x, step |-> "deleted"]
        /\ \A p \in Ops \ {o} : work'[p] = work[p]
        /\ rows'[x] = {}
        /\ \A y \in Tables \ {x} : rows'[y] = rows[y]
    BY DEF TypeOK
  <1>2. TypeOK'
    BY DEF TypeOK
  <1>3. TodoInv'
    BY <1>1 DEF TodoInv
  <1>4. StreamInv' /\ OneAtATime'
    BY DEF StreamInv, OneAtATime
  <1>5. NoDoubleRows'
    BY <1>1 DEF NoDoubleRows
  <1>6. WorkInv'
    BY <1>1 DEF WorkInv, TypeOK, NoWork
  <1>7. x \notin Results
    BY DEF TodoInv, Results
  <1>8. ResultsSurvive'
    <2> SUFFICES ASSUME NEW y \in Results, rows'[y] = {}, y \notin emptied'
                 PROVE  \E p \in Ops : work'[p] = [table |-> y, step |-> "ready"]
      BY DEF ResultsSurvive
    <2>1. rows[y] = {}
      BY <1>1, <1>7 DEF Results
    <2>2. PICK p \in Ops : work[p] = [table |-> y, step |-> "ready"]
      BY <2>1 DEF ResultsSurvive
    <2> QED  BY <2>2, <1>1, Holder
  <1> QED  BY <1>2, <1>3, <1>4, <1>5, <1>6, <1>8

LEMMA FetchAfterStep ==
    ASSUME ImportInv, NEW o \in Ops, FetchAfter(o)
    PROVE  ImportInv'
  <1> USE DEF ImportInv, FetchAfter, AtHand, Skip, trackerVars
  <1>0. work[o] \in [table : Tables, step : {"fetched", "deleted", "ready"}]
    BY DEF TypeOK, NoWork
  <1>1. /\ work'[o] \in {NoWork, [table |-> work[o].table, step |-> "ready"]}
        /\ \A p \in Ops \ {o} : work'[p] = work[p] /\ todo'[p] = todo[p]
        /\ todo'[o] \subseteq todo[o]
        /\ work'[o] # NoWork => todo'[o] = todo[o]
    BY <1>0 DEF TypeOK
  <1>2. TypeOK'
    BY <1>0 DEF TypeOK
  <1>3. TodoInv'
    BY <1>0, <1>1 DEF TodoInv, NoWork
  <1>4. StreamInv' /\ OneAtATime' /\ NoDoubleRows'
    BY DEF StreamInv, OneAtATime, NoDoubleRows
  <1>5. WorkInv'
    BY <1>0, <1>1 DEF WorkInv, NoWork
  <1>6. ResultsSurvive'
    <2> SUFFICES ASSUME NEW y \in Results, rows'[y] = {}, y \notin emptied'
                 PROVE  \E p \in Ops : work'[p] = [table |-> y, step |-> "ready"]
      BY DEF ResultsSurvive
    <2>1. PICK p \in Ops : work[p] = [table |-> y, step |-> "ready"]
      BY DEF ResultsSurvive
    <2> QED  BY <2>1, <1>1, Holder
  <1> QED  BY <1>2, <1>3, <1>4, <1>5, <1>6

LEMMA InsertStep ==
    ASSUME ImportInv, NEW o \in Ops, Insert(o)
    PROVE  ImportInv'
  <1> DEFINE x == work[o].table
  <1> USE GolfGeniusAssumption DEF ImportInv, Insert, AtHand, Skip, trackerVars
  <1>0. work[o] \in [table : Tables, step : {"fetched", "deleted", "ready"}]
    BY DEF TypeOK, NoWork
  <1>1. /\ work'[o] = NoWork
        /\ \A p \in Ops \ {o} : work'[p] = work[p] /\ todo'[p] = todo[p]
        /\ todo'[o] = todo[o] \ {x}
        /\ rows'[x] \subseteq rows[x] \cup {o} /\ rows[x] \subseteq rows'[x]
        /\ \A y \in Tables \ {x} : rows'[y] = rows[y]
        /\ x \in Tables
    BY <1>0 DEF TypeOK
  <1>2. TypeOK'
    BY <1>0 DEF TypeOK
  <1>3. TodoInv'
    BY <1>1 DEF TodoInv
  <1>4. StreamInv' /\ OneAtATime'
    BY DEF StreamInv, OneAtATime
  <1>5. \A p \in rows[x] : p # o => {o, p} \cap cut # {}
    BY DEF WorkInv
  <1>6. NoDoubleRows'
    BY <1>1, <1>5 DEF NoDoubleRows
  <1>7. \A p \in Ops \ {o} : work[p] # NoWork => {o, p} \cap cut # {}
    BY <1>0 DEF TodoInv, OneAtATime, NoWork
  <1>8. WorkInv'
    BY <1>1, <1>7 DEF WorkInv, TypeOK, NoWork
  <1>9. x \in Results => rows'[x] # {} \/ x \in emptied'
    <2>1. CASE rows' = [rows EXCEPT ![x] = @ \cup {o}]
      BY <2>1, <1>1 DEF TypeOK
    <2>2. CASE emptied' = emptied \cup ({x} \cap Results)
      BY <2>2
    <2> QED  BY <2>1, <2>2
  <1>10. \A y \in Results \ {x} : y \in emptied => y \in emptied'
    OBVIOUS
  <1>11. ResultsSurvive'
    <2> SUFFICES ASSUME NEW y \in Results, rows'[y] = {}, y \notin emptied'
                 PROVE  \E p \in Ops : work'[p] = [table |-> y, step |-> "ready"]
      BY DEF ResultsSurvive
    <2>1. y # x /\ rows[y] = {} /\ y \notin emptied
      BY <1>1, <1>9, <1>10 DEF Results
    <2>2. PICK p \in Ops : work[p] = [table |-> y, step |-> "ready"]
      BY <2>1 DEF ResultsSurvive
    <2> QED  BY <2>1, <2>2, <1>1, Holder
  <1> QED  BY <1>2, <1>3, <1>4, <1>6, <1>8, <1>11

\* Operations end.
LEMMA EndStep ==
    ASSUME ImportInv, NEW o \in Ops, Complete(o) \/ Abort(o) \/ Logged(o)
    PROVE  ImportInv'
  <1> USE DEF ImportInv, Complete, Abort, Logged, trackerVars
  <1>1. /\ phase'[o] # "running"
        /\ work'[o] = NoWork /\ todo'[o] = {}
        /\ \A p \in Ops \ {o} : /\ phase'[p] = phase[p] /\ action'[p] = action[p]
                                /\ work'[p] = work[p] /\ todo'[p] = todo[p]
        /\ UNCHANGED <<looking, stream, rows, emptied, cut>>
    BY DEF TypeOK, TodoInv
  <1>2. TypeOK'
    BY DEF TypeOK, NoWork
  <1>3. StreamInv' /\ OneAtATime' /\ NoDoubleRows'
    BY <1>1 DEF StreamInv, OneAtATime, NoDoubleRows
  <1>4. TodoInv'
    BY <1>1 DEF TodoInv
  <1>5. WorkInv'
    BY <1>1 DEF WorkInv, NoWork
  <1>6. ASSUME work[o] # NoWork
        PROVE  work[o].table \notin Results
    BY <1>6 DEF TodoInv, Results
  <1>7. ResultsSurvive'
    <2> SUFFICES ASSUME NEW y \in Results, rows'[y] = {}, y \notin emptied'
                 PROVE  \E p \in Ops : work'[p] = [table |-> y, step |-> "ready"]
      BY DEF ResultsSurvive
    <2>1. PICK p \in Ops : work[p] = [table |-> y, step |-> "ready"]
      BY <1>1 DEF ResultsSurvive
    <2> QED  BY <2>1, <1>1, <1>6, Holder
  <1> QED  BY <1>2, <1>3, <1>4, <1>5, <1>7

LEMMA CleanupStep ==
    ASSUME ImportInv, CleanupOperation
    PROVE  ImportInv'
  <1> USE DEF ImportInv, CleanupOperation
  <1>1. TypeOK' /\ TodoInv' /\ ResultsSurvive'
    BY DEF TypeOK, TodoInv, ResultsSurvive
  <1>2. StreamInv'
    BY DEF StreamInv
  <1>3. cut \subseteq cut'
    OBVIOUS
  <1>4. WorkInv' /\ OneAtATime' /\ NoDoubleRows'
    BY <1>3 DEF WorkInv, OneAtATime, NoDoubleRows
  <1> QED  BY <1>1, <1>2, <1>4

LEMMA CrashStep ==
    ASSUME ImportInv, Crash
    PROVE  ImportInv'
  BY DEF ImportInv, Crash, TypeOK, StreamInv, TodoInv, WorkInv, OneAtATime,
         NoDoubleRows, ResultsSurvive, NoWork, Results

LEMMA ImportNext == ImportInv /\ [Next]_vars => ImportInv'
  <1> SUFFICES ASSUME ImportInv, [Next]_vars PROVE ImportInv'
    OBVIOUS
  <1>1. CASE \E o \in Ops, a \in Actions : StartNow(o, a) \/ Begin(o, a)
    BY <1>1, StartStep DEF StartNow, Begin, ImportInv, TypeOK
  <1>2. CASE \E a \in Actions : LookUp(a) \/ Refuse(a)
    BY <1>2, LookStep
  <1>3. CASE \E o \in Ops, x \in Tables :
               GiveUpOn(o, x) \/ FetchResults(o, x) \/ DeleteFirst(o, x)
    BY <1>3, GiveUpOnStep, FetchResultsStep, DeleteFirstStep
  <1>4. CASE \E o \in Ops : DeleteResults(o) \/ FetchAfter(o) \/ Insert(o)
    BY <1>4, DeleteResultsStep, FetchAfterStep, InsertStep
  <1>5. CASE \E o \in Ops : Complete(o) \/ Abort(o) \/ Logged(o)
    BY <1>5, EndStep
  <1>6. CASE CleanupOperation
    BY <1>6, CleanupStep
  <1>7. CASE Crash
    BY <1>7, CrashStep
  <1>8. CASE UNCHANGED vars
    BY <1>8
    DEF vars, trackerVars, ImportInv, TypeOK, StreamInv, TodoInv, WorkInv, OneAtATime,
        NoDoubleRows, ResultsSurvive
  <1> QED  BY <1>1, <1>2, <1>3, <1>4, <1>5, <1>6, <1>7, <1>8 DEF Next

-----------------------------------------------------------------------------

\* The inductive invariant holds of every behaviour.
THEOREM ImportsSafe == Spec => []ImportInv
  BY InitImportInv, ImportNext, PTL DEF Spec

\* Every state of the imports has the declared types.
THEOREM ImportsTypeCorrect == Spec => []TypeOK
  <1>1. ImportInv => TypeOK  BY DEF ImportInv
  <1> QED  BY <1>1, ImportsSafe, PTL

\* No two operations run for an event, unless a timer cut one of them off.
THEOREM OperationsExclude == Spec => []OneAtATime
  <1>1. ImportInv => OneAtATime  BY DEF ImportInv
  <1> QED  BY <1>1, ImportsSafe, PTL

\* However often something is imported, a table holds the rows of one import.
THEOREM ImportsReplace == Spec => []NoDoubleRows
  <1>1. ImportInv => NoDoubleRows  BY DEF ImportInv
  <1> QED  BY <1>1, ImportsSafe, PTL

\* A failed fetch leaves prior results intact.
THEOREM FailedFetchesSpareResults == Spec => []ResultsSurvive
  <1>1. ImportInv => ResultsSurvive  BY DEF ImportInv
  <1> QED  BY <1>1, ImportsSafe, PTL
=============================================================================
