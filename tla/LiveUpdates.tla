------------------------------ MODULE LiveUpdates ------------------------------
(***************************************************************************)
(* How the tee sheet of one event reaches the open pages: the API throttles*)
(* change notices, builds a numbered snapshot and pushes it over           *)
(* server-sent events (apps/api/src/registration, RegistrationBroadcast-   *)
(* Service); each tab keeps the highest number it has applied and falls    *)
(* back to polling while it is disconnected (apps/public-next).            *)
(*                                                                         *)
(* The tee sheet is the number of changes committed so far; a snapshot is  *)
(* the number of changes it shows.  The RxJS pipeline                      *)
(*   trigger$ | startWith | throttleTime | switchMap | share               *)
(* is the throttle window, the build that switchMap listens to, the builds *)
(* it no longer listens to but that still run, and the subscribers.        *)
(***************************************************************************)
EXTENDS Integers, Sequences, FiniteSets

CONSTANTS
    Tabs,           \* browser tabs showing the event
    Conns,          \* SSE connections; each is used once
    None,           \* no connection, no fetch
    MaxRev,         \* bound on the changes committed
    MaxWave,        \* the wave in which normal registration is open
    Hazards         \* the disturbances admitted, see below

\* "slow"    a build may outlast the throttle window
\* "errors"  the query of a build may fail
\* "silent"  a handler may change the tee sheet without calling notifyChange
\* "crash"   the API process may die and be restarted
HazardKinds == {"slow", "errors", "silent", "crash"}

ASSUME LiveAssumption ==
    /\ IsFiniteSet(Conns)
    /\ MaxRev \in Nat
    /\ MaxWave \in Nat \ {0}
    /\ Hazards \subseteq HazardKinds
    /\ None \notin Conns \cup Nat

VARIABLES
    \* the database and the clock
    rev,            \* changes of registration_slot committed
    wave,           \* what getCurrentWave(event) answers now
    \* the API process
    owed,           \* handlers that committed a change and are yet to notify
    stream,         \* the entry of eventStreams: "absent", "kept", or
                    \* "expiring" while its cleanupTimeout is pending
    version,        \* EventStreamState.version
    lastWave,       \* EventStreamState.lastWave
    cachedEvent,    \* EventStreamState.cachedEvent: "unset" or "set"
    count,          \* EventStreamState.subscriberCount
    window,         \* throttleTime: "closed", "open", or "armed" (has a value)
    build,          \* switchMap's build: "none", "started", or it has "read"
    result,         \* the tee sheet the build has read
    ghosts,         \* builds switchMap has dropped that are still running
    subs,           \* connections subscribed to share()
    \* the network
    inbox,          \* inbox[c]: snapshots sent on c and not yet received
    \* the tabs
    used,           \* connections opened so far
    conn,           \* conn[t]: the tab's EventSource
    lastV,          \* lastVersionByEvent: 0 when absent
    shown,          \* the tee sheet in the tab's query cache
    fetch,          \* what the tab's HTTP request has read
    \* history
    told,           \* told[c]: the latest change the pipeline was told of on c,
                    \* 0 once a failed query has skipped it
    announced       \* announced[c]: the wave of the last update sent on c

poolVars == <<version, lastWave, cachedEvent, count>>
pipeVars == <<window, build, result, ghosts>>
netVars == <<subs, inbox>>
apiVars == <<owed, stream, poolVars, pipeVars, netVars>>
tabVars == <<used, conn, lastV, shown, fetch>>
hist == <<told, announced>>
vars == <<rev, wave, apiVars, tabVars, hist>>

Snapshot == [v : Nat, slots : 0..MaxRev]

TypeOK ==
    /\ rev \in 0..MaxRev
    /\ wave \in 1..MaxWave
    /\ owed \in 0..rev
    /\ stream \in {"absent", "kept", "expiring"}
    /\ version \in Nat
    /\ lastWave \in 0..MaxWave
    /\ cachedEvent \in {"unset", "set"}
    /\ count \in Nat
    /\ window \in {"closed", "open", "armed"}
    /\ build \in {"none", "started", "read"}
    /\ result \in 0..MaxRev
    /\ ghosts \in Nat
    /\ subs \subseteq used
    /\ inbox \in [Conns -> Seq(Snapshot)]
    /\ used \subseteq Conns
    /\ conn \in [Tabs -> used \cup {None}]
    /\ lastV \in [Tabs -> Nat]
    /\ shown \in [Tabs -> 0..MaxRev]
    /\ fetch \in [Tabs -> 0..MaxRev \cup {None}]
    /\ told \in [Conns -> 0..MaxRev]
    /\ announced \in [Conns -> 0..MaxWave]

\* No entry in eventStreams.
NoStream ==
    /\ stream' = "absent"
    /\ version' = 0
    /\ lastWave' = 0
    /\ cachedEvent' = "unset"
    /\ count' = 0
    /\ window' = "closed"
    /\ build' = "none"
    /\ result' = 0
    /\ ghosts' = 0

Init ==
    /\ rev = 0 /\ wave = 1
    /\ owed = 0
    /\ stream = "absent" /\ version = 0 /\ lastWave = 0
    /\ cachedEvent = "unset" /\ count = 0
    /\ window = "closed" /\ build = "none" /\ result = 0 /\ ghosts = 0
    /\ subs = {} /\ inbox = [c \in Conns |-> <<>>]
    /\ used = {}
    /\ conn = [t \in Tabs |-> None]
    /\ lastV = [t \in Tabs |-> 0]
    /\ shown = [t \in Tabs |-> 0]
    /\ fetch = [t \in Tabs |-> None]
    /\ told = [c \in Conns |-> 0]
    /\ announced = [c \in Conns |-> 0]
-----------------------------------------------------------------------------
(* Changes and notices.                                                      *)

\* trigger$.next() reaches the throttle only while share() is subscribed: a
\* value arms the window, opening it if none is open.
Trigger ==
    /\ window' = IF subs = {} THEN window ELSE "armed"
    /\ told' = [c \in Conns |-> IF c \in subs THEN rev ELSE told[c]]

\* The wall clock passes into the next wave.
NextWave ==
    /\ wave < MaxWave
    /\ wave' = wave + 1
    /\ UNCHANGED <<rev, apiVars, tabVars, hist>>

\* A handler commits a change; it calls notifyChange some steps later.
Commit ==
    /\ rev < MaxRev
    /\ rev' = rev + 1
    /\ owed' = owed + 1
    /\ UNCHANGED <<wave, stream, poolVars, pipeVars, netVars, tabVars, hist>>

\* updateSlotPlayer, replacePlayer and resetStaleRegistrations change slots
\* and do not call notifyChange.
CommitSilently ==
    /\ "silent" \in Hazards
    /\ rev < MaxRev
    /\ rev' = rev + 1
    /\ UNCHANGED <<wave, apiVars, tabVars, hist>>

NotifyChange ==
    /\ owed > 0
    /\ owed' = owed - 1
    /\ IF stream # "absent" THEN Trigger ELSE UNCHANGED <<window, told>>
    /\ UNCHANGED <<rev, wave, stream, poolVars, build, result, ghosts, netVars,
                   tabVars, announced>>

\* The interval that only runs from the second subscriber on.
CheckWaveChangeLate ==
    /\ count > 1
    /\ cachedEvent = "set"
    /\ wave # lastWave
    /\ lastWave' = wave
    /\ Trigger
    /\ UNCHANGED <<rev, wave, owed, stream, version, cachedEvent, count, build,
                   result, ghosts, netVars, tabVars, announced>>

\* The interval that runs while there are subscribers.
CheckWaveChange ==
    /\ count > 0
    /\ cachedEvent = "set"
    /\ wave # lastWave
    /\ lastWave' = wave
    /\ Trigger
    /\ UNCHANGED <<rev, wave, owed, stream, version, cachedEvent, count, build,
                   result, ghosts, netVars, tabVars, announced>>
-----------------------------------------------------------------------------
(* The pipeline.                                                             *)

Running == IF build = "none" THEN 0 ELSE 1

\* The value is ignored while a build runs, as with exhaustMap.
WindowEndsBusy ==
    /\ \/ /\ window = "armed"
          /\ window' = "open"
          /\ build' = IF build = "none" THEN "started" ELSE build
          /\ UNCHANGED <<result, ghosts>>
       \/ /\ window = "open"
          /\ window' = "closed"
          /\ UNCHANGED <<build, result, ghosts>>
    /\ UNCHANGED <<rev, wave, owed, stream, poolVars, netVars, tabVars, hist>>

\* The throttle window ends.  With a value in it, the value goes on to
\* switchMap, which drops the build it listened to, and a new window opens.
WindowEnds ==
    /\ \/ /\ window = "armed"
          /\ "slow" \in Hazards \/ Running + ghosts = 0
          /\ window' = "open"
          /\ build' = "started"
          /\ result' = 0
          /\ ghosts' = ghosts + Running
       \/ /\ window = "open"
          /\ window' = "closed"
          /\ UNCHANGED <<build, result, ghosts>>
    /\ UNCHANGED <<rev, wave, owed, stream, poolVars, netVars, tabVars, hist>>

\* buildUpdateEvent reads the event, unless it is cachedEvent, and the slots.
BuildReads ==
    /\ build = "started"
    /\ cachedEvent' = "set"
    /\ build' = "read"
    /\ result' = rev
    /\ UNCHANGED <<rev, wave, owed, stream, version, lastWave, count, window,
                   ghosts, netVars, tabVars, hist>>

\* The snapshot is numbered and share() hands it to every subscriber.
BuildEnds ==
    /\ build = "read"
    /\ lastWave' = wave
    /\ version' = version + 1
    /\ inbox' = [c \in Conns |->
                    IF c \in subs
                    THEN Append(inbox[c], [v |-> version + 1, slots |-> result])
                    ELSE inbox[c]]
    /\ announced' = [c \in Conns |-> IF c \in subs THEN wave ELSE announced[c]]
    /\ build' = "none"
    /\ result' = 0
    /\ UNCHANGED <<rev, wave, owed, stream, cachedEvent, count, window, ghosts,
                   subs, tabVars, told>>

\* catchError: the emission is skipped, and with it the change, unless the
\* throttle holds a later notice.
BuildFails ==
    /\ "errors" \in Hazards
    /\ build # "none"
    /\ build' = "none"
    /\ result' = 0
    /\ told' = IF window = "armed" THEN told ELSE [c \in Conns |-> 0]
    /\ UNCHANGED <<rev, wave, owed, stream, poolVars, window, ghosts, netVars,
                   tabVars, announced>>

\* A dropped build runs to its end: switchMap unsubscribes from the promise,
\* it does not stop the query.
GhostEnds ==
    /\ ghosts > 0
    /\ ghosts' = ghosts - 1
    /\ \/ /\ cachedEvent' = "set"
          /\ lastWave' = wave
          /\ version' = version + 1
       \/ /\ "errors" \in Hazards
          /\ UNCHANGED <<cachedEvent, lastWave, version>>
    /\ UNCHANGED <<rev, wave, owed, stream, count, window, build, result,
                   netVars, tabVars, hist>>
-----------------------------------------------------------------------------
(* Connections.                                                              *)

\* A new subscriber does not call off the clean-up.
SubscribeKeepTimer(c) ==
    /\ stream' = IF stream = "absent" THEN "kept" ELSE stream
    /\ count' = count + 1
    /\ subs' = subs \cup {c}
    /\ IF subs = {}
       THEN /\ window' = "armed"
            /\ told' = [told EXCEPT ![c] = rev]
       ELSE UNCHANGED <<window, told>>

\* liveUpdates calls subscribe: the stream is created or its clean-up called
\* off; the first subscriber connects share(), and startWith then arms the
\* throttle.  Later subscribers wait for the next emission.
Subscribe(c) ==
    /\ stream' = "kept"
    /\ count' = count + 1
    /\ subs' = subs \cup {c}
    /\ IF subs = {}
       THEN /\ window' = "armed"
            /\ told' = [told EXCEPT ![c] = rev]
       ELSE UNCHANGED <<window, told>>

\* The page opens its EventSource.
Connect(t) ==
    /\ conn[t] = None
    /\ \E c \in Conns \ used :
        /\ used' = used \cup {c}
        /\ conn' = [conn EXCEPT ![t] = c]
        /\ Subscribe(c)
    /\ UNCHANGED <<rev, wave, owed, version, lastWave, cachedEvent, build,
                   result, ghosts, inbox, lastV, shown, fetch, announced>>

\* onUnsubscribe; without subscribers share() lets go of the pipeline, the
\* wave timer stops, and the entry is removed later.
Unsubscribe(c) ==
    /\ subs' = subs \ {c}
    /\ count' = count - 1
    /\ stream' = IF count' <= 0 THEN "expiring" ELSE stream
    /\ IF subs' = {}
       THEN /\ window' = "closed"
            /\ build' = "none"
            /\ result' = 0
            /\ ghosts' = ghosts + Running
       ELSE UNCHANGED pipeVars

Open(c) == \E t \in Tabs : conn[t] = c

\* The finalizer runs again for a connection already closed.
ServerClosesTwice ==
    /\ \E c \in used : ~Open(c) /\ stream # "absent" /\ Unsubscribe(c)
    /\ UNCHANGED <<rev, wave, owed, version, lastWave, cachedEvent, inbox, tabVars,
                   hist>>

\* The server notices, at some time, that the client has gone.
ServerCloses ==
    /\ \E c \in subs : ~Open(c) /\ Unsubscribe(c)
    /\ UNCHANGED <<rev, wave, owed, version, lastWave, cachedEvent, inbox, tabVars,
                   hist>>

\* cleanupTimeout fires five minutes after the last subscriber left; a build
\* that is still running then belongs to an entry that is no longer there.
CleanupStream ==
    /\ stream = "expiring"
    /\ count <= 0
    /\ NoStream
    /\ UNCHANGED <<rev, wave, owed, netVars, tabVars, hist>>

\* The process dies between any two steps; what it had not notified is lost.
Crash ==
    /\ "crash" \in Hazards
    /\ NoStream
    /\ owed' = 0
    /\ subs' = {}
    /\ UNCHANGED <<rev, wave, inbox, tabVars, hist>>
-----------------------------------------------------------------------------
(* Tabs.                                                                     *)

\* handleSSEUpdate: apply a snapshot with a higher number than the last.
ReceiveUpdate(t) ==
    /\ conn[t] # None
    /\ inbox[conn[t]] # <<>>
    /\ LET update == Head(inbox[conn[t]])
       IN  IF update.v > lastV[t]
           THEN /\ lastV' = [lastV EXCEPT ![t] = update.v]
                /\ shown' = [shown EXCEPT ![t] = update.slots]
           ELSE UNCHANGED <<lastV, shown>>
    /\ inbox' = [inbox EXCEPT ![conn[t]] = Tail(@)]
    /\ UNCHANGED <<rev, wave, owed, stream, poolVars, pipeVars, subs, used, conn,
                   fetch, hist>>

\* The tracker survives the connection.
DisconnectKeepTracker(t) ==
    /\ conn[t] # None
    /\ conn' = [conn EXCEPT ![t] = None]
    /\ inbox' = [inbox EXCEPT ![conn[t]] = <<>>]
    /\ UNCHANGED <<rev, wave, owed, stream, poolVars, pipeVars, subs, used, lastV,
                   shown, fetch, hist>>

\* onerror, or the page is left: the EventSource is closed and, connected
\* being false, the tracker is reset.
Disconnect(t) ==
    /\ conn[t] # None
    /\ conn' = [conn EXCEPT ![t] = None]
    /\ inbox' = [inbox EXCEPT ![conn[t]] = <<>>]
    /\ lastV' = [lastV EXCEPT ![t] = 0]
    /\ UNCHANGED <<rev, wave, owed, stream, poolVars, pipeVars, subs, used, shown,
                   fetch, hist>>

\* useRegistrationSlots: on mount, after an invalidation, and every 15
\* seconds while disconnected, the tab asks for the slots.
StartFetch(t) ==
    /\ fetch[t] = None
    /\ fetch' = [fetch EXCEPT ![t] = rev]
    /\ UNCHANGED <<rev, wave, apiVars, used, conn, lastV, shown, hist>>

\* The answer is written to the cache whatever came meanwhile.
FetchReturnsBlind(t) ==
    /\ fetch[t] # None
    /\ shown' = [shown EXCEPT ![t] = fetch[t]]
    /\ fetch' = [fetch EXCEPT ![t] = None]
    /\ UNCHANGED <<rev, wave, apiVars, used, conn, lastV, hist>>

\* The answer is dropped if a snapshot has been applied on this connection.
FetchReturns(t) ==
    /\ fetch[t] # None
    /\ shown' = IF lastV[t] > 0 THEN shown ELSE [shown EXCEPT ![t] = fetch[t]]
    /\ fetch' = [fetch EXCEPT ![t] = None]
    /\ UNCHANGED <<rev, wave, apiVars, used, conn, lastV, hist>>
-----------------------------------------------------------------------------
Environment == NextWave \/ Commit \/ CommitSilently \/ Crash

Pipeline ==
    \/ NotifyChange \/ CheckWaveChange
    \/ WindowEnds \/ BuildReads \/ BuildEnds \/ BuildFails \/ GhostEnds
    \/ ServerCloses \/ CleanupStream

Tab(t) ==
    \/ Connect(t) \/ ReceiveUpdate(t) \/ Disconnect(t)
    \/ StartFetch(t) \/ FetchReturns(t)

Next == Environment \/ Pipeline \/ (\E t \in Tabs : Tab(t))

Spec == Init /\ [][Next]_vars

\* Timers fire, started queries end, what was sent arrives while the
\* connection lasts, and the end of a connection is noticed on both sides.
\* Nothing makes a golfer connect, leave, or a handler commit.
Fairness ==
    /\ WF_vars(NotifyChange)
    /\ WF_vars(CheckWaveChange)
    /\ WF_vars(WindowEnds)
    /\ WF_vars(BuildReads)
    /\ WF_vars(BuildEnds)
    /\ WF_vars(GhostEnds)
    /\ WF_vars(ServerCloses)
    /\ \A t \in Tabs :
        /\ WF_vars(ReceiveUpdate(t))
        /\ WF_vars(conn[t] \notin subs /\ Disconnect(t))

FairSpec == Spec /\ Fairness
-----------------------------------------------------------------------------
(* What the pages may rely on.                                               *)

\* A connection belongs to one tab, carries nothing before it is opened, and a
\* tab without one has an empty tracker.
ConnectionsApart ==
    /\ \A c \in Conns \ used : inbox[c] = <<>>
    /\ \A t, u \in Tabs : conn[t] = conn[u] /\ conn[t] # None => t = u
    /\ \A t \in Tabs : conn[t] = None => lastV[t] = 0

\* Snapshots travel in the order of their numbers and of their contents,
\* behind the service's number and the one being built.
InOrder(c) == \A i, j \in 1..Len(inbox[c]) :
    i < j => /\ inbox[c][i].v < inbox[c][j].v
             /\ inbox[c][i].slots <= inbox[c][j].slots

NotAhead(c) == \A i \in 1..Len(inbox[c]) :
    /\ inbox[c][i].slots <= rev
    /\ c \in subs => /\ inbox[c][i].v <= version
                     /\ (build = "read" => inbox[c][i].slots <= result)

SnapshotsInOrder ==
    /\ result <= rev
    /\ \A c \in Conns : InOrder(c) /\ NotAhead(c)

\* What a tab has applied is behind what is on its way or being built.
NewsAhead(t) ==
    /\ \A i \in 1..Len(inbox[conn[t]]) :
        /\ inbox[conn[t]][i].v > lastV[t]
        /\ inbox[conn[t]][i].slots >= shown[t]
    /\ conn[t] \in subs =>
        /\ lastV[t] <= version
        /\ (build = "read" => shown[t] <= result)

TabsBehind ==
    \A t \in Tabs :
        /\ shown[t] <= rev
        /\ fetch[t] # None => fetch[t] <= rev
        /\ lastV[t] > 0 => NewsAhead(t)

\* The subscribers the service counts are those of the stream, and an event
\* without an entry has none: otherwise the wave timer stops while somebody
\* listens, or the entry is removed under them (subscribe, onUnsubscribe,
\* cleanupStream).
EntryOutlivesSubscribers ==
    /\ count = Cardinality(subs)
    /\ subs # {} => stream = "kept"

\* Change n is in what the tab shows, in a snapshot it has yet to apply, in the
\* one being built, or in one that is going to be built.
OnItsWay(t, n) ==
    \/ lastV[t] > 0 /\ shown[t] >= n
    \/ \E i \in 1..Len(inbox[conn[t]]) :
        inbox[conn[t]][i].v > lastV[t] /\ inbox[conn[t]][i].slots >= n
    \/ build = "read" /\ result >= n
    \/ build = "started"
    \/ window = "armed"

\* What the pipeline was told of while a tab was connected is never lost to it,
\* in the throttle, to a dropped build, on the wire or to the version filter.
\* So the tab never remembers a number the server has yet to give on this
\* connection: it would silently drop the snapshots up to that number (the
\* numbers restart with a new entry or process; registration-provider resets
\* the tracker on disconnect for that reason).
NoNoticeLost ==
    \A t \in Tabs : conn[t] \in subs =>
        /\ lastV[t] <= version
        /\ told[conn[t]] > 0 => OnItsWay(t, told[conn[t]])

\* What keeps a connected tab from going back: everything between the service
\* and the tab is in order, ahead of the tab and behind the database
\* (buildUpdateEvent, handleSSEUpdate, subscribe).
LiveInv ==
    /\ TypeOK
    /\ EntryOutlivesSubscribers
    /\ ConnectionsApart
    /\ SnapshotsInOrder
    /\ TabsBehind

\* From the first snapshot applied on a connection until the connection ends,
\* the tee sheet a tab shows never goes back in time, however updates and
\* HTTP answers cross (sse-version-tracker, use-registration-slots).
ConnectedNeverBack ==
    [][\A t \in Tabs :
          lastV[t] > 0 /\ lastV'[t] > 0 => shown'[t] >= shown[t]]_vars

\* Whatever the pipeline was told of while a tab was connected, the stream
\* shows that tab, unless the connection ends first: no notice is lost in the
\* throttle, to a dropped build or to the version filter.
ConnectedCatchUp ==
    \A t \in Tabs, c \in Conns, n \in 1..MaxRev :
        (conn[t] = c /\ c \in subs /\ told[c] >= n)
            ~> (conn[t] # c \/ (lastV[t] > 0 /\ shown[t] >= n))

\* "Emits update when priority wave changes" (registration/README.md): once a
\* connection has had an update, every later wave is announced on it as long
\* as it lasts; neither the timer nor a build may take a change of wave for
\* announced when nobody was sent it.  That needs builds that are never
\* dropped: one that is still records the wave it ends in.
WaveIsAnnounced ==
    [](ghosts = 0) =>
        \A c \in Conns, w \in 2..MaxWave :
            (c \in subs /\ announced[c] > 0 /\ wave >= w)
                ~> (c \notin subs \/ announced[c] >= w)
===============================================================================
