--------------------------- MODULE LiveUpdatesProofs ---------------------------
(* What LiveUpdates' runs check on small instances, for every instance.      *)
EXTENDS LiveUpdates, FiniteSetTheorems, SequenceTheorems, TLAPS

\* subscriberCount is the number of subscribers, whoever comes or goes
\* (subscribe, onUnsubscribe).
LEMMA Counting ==
    ASSUME TypeOK, NEW c \in Conns
    PROVE  /\ IsFiniteSet(subs)
           /\ Cardinality(subs) \in Nat
           /\ Cardinality(subs) = 0 <=> subs = {}
           /\ c \notin subs => Cardinality(subs \cup {c}) = Cardinality(subs) + 1
           /\ c \in subs => Cardinality(subs \ {c}) = Cardinality(subs) - 1
<1>1. IsFiniteSet(subs)
  BY FS_Subset, LiveAssumption DEF TypeOK
<1>2. Cardinality(subs) \in Nat
  BY <1>1, FS_CardinalityType
<1>3. Cardinality(subs) = 0 <=> subs = {}
  BY <1>1, FS_EmptySet
<1>4. c \notin subs => Cardinality(subs \cup {c}) = Cardinality(subs) + 1
  BY <1>1, FS_AddElement
<1>5. c \in subs => Cardinality(subs \ {c}) = Cardinality(subs) - 1
  BY <1>1, FS_RemoveElement
<1> QED
  BY <1>1, <1>2, <1>3, <1>4, <1>5

\* The entry of eventStreams and its subscribers.
EntryInv == TypeOK /\ EntryOutlivesSubscribers

LEMMA EntryInit == Init => EntryInv
<1> SUFFICES ASSUME Init PROVE EntryInv
  OBVIOUS
<1>1. Cardinality({}) = 0
  BY FS_EmptySet
<1>2. inbox \in [Conns -> Seq(Snapshot)]
  BY DEF Init
<1>3. TypeOK
  BY <1>2, LiveAssumption DEF Init, TypeOK
<1> QED
  BY <1>1, <1>3 DEF Init, EntryInv, EntryOutlivesSubscribers

LEMMA EntryNext == EntryInv /\ [Next]_vars => EntryInv'
<1> SUFFICES ASSUME EntryInv, [Next]_vars PROVE EntryInv'
  OBVIOUS
<1> USE LiveAssumption
    DEF EntryInv, TypeOK, EntryOutlivesSubscribers, poolVars, pipeVars, netVars,
        apiVars, tabVars, hist
<1>1. CASE NextWave
  BY <1>1 DEF NextWave
<1>2. CASE Commit
  BY <1>2 DEF Commit
<1>3. CASE CommitSilently
  BY <1>3 DEF CommitSilently
<1>4. CASE Crash
  BY <1>4, FS_EmptySet DEF Crash, NoStream
<1>5. CASE NotifyChange
  BY <1>5 DEF NotifyChange, Trigger
<1>6. CASE CheckWaveChange
  BY <1>6 DEF CheckWaveChange, Trigger
<1>7. CASE WindowEnds
  BY <1>7 DEF WindowEnds, Running
<1>8. CASE BuildReads
  BY <1>8 DEF BuildReads
<1>9. CASE BuildEnds
  <2>1. [v |-> version + 1, slots |-> result] \in Snapshot
    BY DEF Snapshot
  <2>2. inbox' \in [Conns -> Seq(Snapshot)]
    BY <1>9, <2>1 DEF BuildEnds
  <2> QED
    BY <1>9, <2>2 DEF BuildEnds
<1>10. CASE BuildFails
  BY <1>10 DEF BuildFails
<1>11. CASE GhostEnds
  BY <1>11 DEF GhostEnds
<1>12. CASE ServerCloses
  <2>1. PICK c \in subs : Unsubscribe(c)
    BY <1>12 DEF ServerCloses
  <2>2. /\ Cardinality(subs) \in Nat
        /\ Cardinality(subs) # 0
        /\ Cardinality(subs \ {c}) = Cardinality(subs) - 1
    BY <2>1, Counting
  <2>3. c \in Conns /\ Cardinality(subs \ {c}) \in Nat
    BY <2>1, <2>2
  <2>4. subs \ {c} # {} => Cardinality(subs \ {c}) # 0
    BY <2>1, Counting, FS_Subset, FS_EmptySet
  <2>5. /\ subs' \subseteq used
        /\ count' \in Nat
        /\ count' = Cardinality(subs')
        /\ stream' \in {"absent", "kept", "expiring"}
        /\ subs' # {} => stream' = "kept"
    BY <2>1, <2>2, <2>3, <2>4 DEF Unsubscribe
  <2>6. /\ window' \in {"closed", "open", "armed"}
        /\ build' \in {"none", "started", "read"}
        /\ result' \in 0..MaxRev
        /\ ghosts' \in Nat
    BY <2>1 DEF Unsubscribe, Running
  <2> QED
    BY <1>12, <2>5, <2>6 DEF ServerCloses
<1>13. CASE CleanupStream
  BY <1>13 DEF CleanupStream, NoStream
<1>14. ASSUME NEW t \in Tabs, Connect(t) PROVE EntryInv'
  <2>1. PICK c \in Conns \ used : /\ used' = used \cup {c}
                                  /\ conn' = [conn EXCEPT ![t] = c]
                                  /\ Subscribe(c)
    BY <1>14 DEF Connect
  <2>2. /\ Cardinality(subs) \in Nat
        /\ Cardinality(subs \cup {c}) = Cardinality(subs) + 1
    BY <2>1, Counting
  <2>3. /\ subs' \subseteq used'
        /\ used' \subseteq Conns
        /\ conn' \in [Tabs -> used' \cup {None}]
    BY <2>1 DEF Subscribe
  <2>4. /\ stream' = "kept"
        /\ count' \in Nat
        /\ count' = Cardinality(subs')
    <3>1. subs' = subs \cup {c} /\ count' = count + 1 /\ stream' = "kept"
      BY <2>1 DEF Subscribe
    <3> QED
      BY <2>2, <3>1
  <2>5. /\ window' \in {"closed", "open", "armed"}
        /\ told' \in [Conns -> 0..MaxRev]
    <3>1. CASE subs = {}
      <4>1. window' = "armed" /\ told' = [told EXCEPT ![c] = rev]
        BY <2>1, <3>1 DEF Subscribe
      <4> QED
        BY <4>1
    <3>2. CASE subs # {}
      <4>1. window' = window /\ told' = told
        BY <2>1, <3>2 DEF Subscribe
      <4> QED
        BY <4>1
    <3> QED
      BY <3>1, <3>2
  <2>6. UNCHANGED <<rev, wave, owed, version, lastWave, cachedEvent, build, result,
                    ghosts, inbox, lastV, shown, fetch, announced>>
    BY <1>14 DEF Connect
  <2> QED
    BY <2>3, <2>4, <2>5, <2>6
<1>15. ASSUME NEW t \in Tabs, ReceiveUpdate(t) PROVE EntryInv'
  <2>1. /\ Head(inbox[conn[t]]) \in Snapshot
        /\ Tail(inbox[conn[t]]) \in Seq(Snapshot)
    BY <1>15, HeadTailProperties DEF ReceiveUpdate
  <2> QED
    BY <1>15, <2>1 DEF ReceiveUpdate, Snapshot
<1>16. ASSUME NEW t \in Tabs, Disconnect(t) PROVE EntryInv'
  BY <1>16 DEF Disconnect
<1>17. ASSUME NEW t \in Tabs, StartFetch(t) PROVE EntryInv'
  BY <1>17 DEF StartFetch
<1>18. ASSUME NEW t \in Tabs, FetchReturns(t) PROVE EntryInv'
  BY <1>18 DEF FetchReturns
<1>19. CASE UNCHANGED vars
  BY <1>19 DEF vars
<1> QED
  BY <1>1, <1>2, <1>3, <1>4, <1>5, <1>6, <1>7, <1>8, <1>9, <1>10, <1>11, <1>12, <1>13,
     <1>14, <1>15, <1>16, <1>17, <1>18, <1>19
  DEF Next, Environment, Pipeline, Tab

\* Every handler, timer, build and callback keeps each variable in its domain;
\* in particular the subscriber count never goes negative.
THEOREM LiveTypeCorrect == Spec => []TypeOK
BY EntryInit, EntryNext, PTL DEF Spec, EntryInv

\* The subscriber count is right, and an entry with subscribers is neither
\* removed nor due for removal.
THEOREM EntriesStay == Spec => []EntryOutlivesSubscribers
BY EntryInit, EntryNext, PTL DEF Spec, EntryInv
-----------------------------------------------------------------------------
\* A snapshot on its way has a number and a content.
LEMMA MessageType ==
    ASSUME TypeOK, NEW c \in Conns
    PROVE  /\ Len(inbox[c]) \in Nat
           /\ \A i \in 1..Len(inbox[c]) : inbox[c][i].v \in Nat /\ inbox[c][i].slots \in Nat
<1>1. inbox[c] \in Seq(Snapshot)
  BY DEF TypeOK
<1>2. \A i \in 1..Len(inbox[c]) : inbox[c][i] \in Snapshot
  BY <1>1, ElementOfSeq
<1>3. \A s \in Snapshot : s.v \in Nat /\ s.slots \in Nat
  BY LiveAssumption DEF Snapshot
<1> QED
  BY <1>1, <1>2, <1>3, LenProperties

\* What the service sends is appended behind what is on its way (share()).
LEMMA Sending ==
    ASSUME TypeOK, BuildEnds, NEW c \in Conns
    PROVE  IF c \in subs
           THEN /\ Len(inbox'[c]) = Len(inbox[c]) + 1
                /\ \A i \in 1..Len(inbox[c]) : inbox'[c][i] = inbox[c][i]
                /\ inbox'[c][Len(inbox[c]) + 1].v = version + 1
                /\ inbox'[c][Len(inbox[c]) + 1].slots = result
           ELSE inbox'[c] = inbox[c]
<1>1. inbox[c] \in Seq(Snapshot)
  BY DEF TypeOK
<1>2. [v |-> version + 1, slots |-> result] \in Snapshot
  BY DEF TypeOK, Snapshot
<1>3. c \in subs => inbox'[c] = Append(inbox[c], [v |-> version + 1, slots |-> result])
  BY DEF BuildEnds
<1>4. c \notin subs => inbox'[c] = inbox[c]
  BY DEF BuildEnds
<1> QED
  BY <1>1, <1>2, <1>3, <1>4, AppendProperties

\* What the tab receives is the first, and the rest moves up (handleSSEUpdate).
LEMMA Receiving ==
    ASSUME TypeOK, NEW t \in Tabs, ReceiveUpdate(t)
    PROVE  /\ conn[t] \in Conns
           /\ 1 \in 1..Len(inbox[conn[t]])
           /\ Head(inbox[conn[t]]) = inbox[conn[t]][1]
           /\ Len(inbox'[conn[t]]) = Len(inbox[conn[t]]) - 1
           /\ \A i \in 1..Len(inbox'[conn[t]]) :
                i + 1 \in 1..Len(inbox[conn[t]]) /\ inbox'[conn[t]][i] = inbox[conn[t]][i + 1]
           /\ \A c \in Conns : c # conn[t] => inbox'[c] = inbox[c]
<1>1. conn[t] \in Conns
  BY DEF TypeOK, ReceiveUpdate
<1>2. inbox[conn[t]] \in Seq(Snapshot) /\ inbox[conn[t]] # <<>>
  BY <1>1 DEF TypeOK, ReceiveUpdate
<1>3. inbox' = [inbox EXCEPT ![conn[t]] = Tail(inbox[conn[t]])]
  BY DEF ReceiveUpdate
<1>4. inbox'[conn[t]] = Tail(inbox[conn[t]])
  BY <1>1, <1>3 DEF TypeOK
<1>5. \A c \in Conns : c # conn[t] => inbox'[c] = inbox[c]
  BY <1>3 DEF TypeOK
<1>6. Len(inbox[conn[t]]) \in Nat \ {0}
  BY <1>2, EmptySeq
<1>7. Head(inbox[conn[t]]) = inbox[conn[t]][1]
  BY <1>2
<1>8. /\ Len(Tail(inbox[conn[t]])) = Len(inbox[conn[t]]) - 1
      /\ \A i \in 1..Len(Tail(inbox[conn[t]])) :
            Tail(inbox[conn[t]])[i] = inbox[conn[t]][i + 1]
  BY <1>2, HeadTailProperties
<1> QED
  BY <1>1, <1>4, <1>5, <1>6, <1>7, <1>8

\* A connection is opened once, by one tab, and forgotten with its tracker.
LEMMA ApartNext == LiveInv /\ [Next]_vars => ConnectionsApart'
<1> SUFFICES ASSUME LiveInv, [Next]_vars PROVE ConnectionsApart'
  OBVIOUS
<1> USE DEF LiveInv, TypeOK, ConnectionsApart, poolVars, pipeVars, netVars, apiVars,
            tabVars, hist
<1>1. CASE UNCHANGED <<inbox, used, conn, lastV>>
  BY <1>1
<1>2. CASE BuildEnds
  <2>1. \A c \in Conns \ used : inbox'[c] = inbox[c]
    BY <1>2, Sending
  <2> QED
    BY <1>2, <2>1 DEF BuildEnds
<1>3. ASSUME NEW t \in Tabs, Connect(t) PROVE ConnectionsApart'
  <2>1. PICK c \in Conns \ used : used' = used \cup {c} /\ conn' = [conn EXCEPT ![t] = c]
    BY <1>3 DEF Connect
  <2>2. inbox' = inbox /\ lastV' = lastV
    BY <1>3 DEF Connect
  <2>3. \A u \in Tabs : conn[u] # c /\ c # None
    BY <2>1, LiveAssumption
  <2> QED
    BY <2>1, <2>2, <2>3
<1>4. ASSUME NEW t \in Tabs, ReceiveUpdate(t) PROVE ConnectionsApart'
  <2>1. \A c \in Conns \ used : inbox'[c] = inbox[c]
    BY <1>4, Receiving DEF ReceiveUpdate
  <2>2. conn[t] # None /\ UNCHANGED <<used, conn>>
    BY <1>4 DEF ReceiveUpdate
  <2>3. \A u \in Tabs : u # t => lastV'[u] = lastV[u]
    BY <1>4 DEF ReceiveUpdate
  <2> QED
    BY <2>1, <2>2, <2>3
<1>5. ASSUME NEW t \in Tabs, Disconnect(t) PROVE ConnectionsApart'
  BY <1>5 DEF Disconnect
<1> QED
  BY <1>1, <1>2, <1>3, <1>4, <1>5
  DEF Next, vars, Environment, Pipeline, Tab, NextWave, Commit, CommitSilently, Crash,
      NotifyChange, CheckWaveChange, WindowEnds, BuildReads, BuildFails, GhostEnds,
      ServerCloses, CleanupStream, StartFetch, FetchReturns

\* Snapshots are numbered as they are sent, each is read after the one before
\* was sent, and a connection delivers them in that order.
LEMMA OrderNext == LiveInv /\ [Next]_vars => SnapshotsInOrder'
<1> SUFFICES ASSUME LiveInv, [Next]_vars PROVE SnapshotsInOrder'
  OBVIOUS
<1> USE DEF LiveInv, SnapshotsInOrder, poolVars, pipeVars, netVars, apiVars, tabVars, hist
<1>0. /\ rev \in Nat /\ result \in Nat /\ version \in Nat
      /\ \A c \in Conns : Len(inbox[c]) \in Nat
      /\ \A c \in Conns : \A i \in 1..Len(inbox[c]) :
            inbox[c][i].v \in Nat /\ inbox[c][i].slots \in Nat
  <2>1. rev \in Nat /\ result \in Nat /\ version \in Nat
    BY LiveAssumption DEF TypeOK
  <2> QED
    BY <2>1, MessageType
<1>1. CASE UNCHANGED <<result, rev, inbox, subs, version, build>>
  BY <1>1 DEF InOrder, NotAhead
<1>2. CASE Commit \/ CommitSilently
  <2>1. rev' = rev + 1 /\ UNCHANGED <<result, inbox, subs, version, build>>
    BY <1>2 DEF Commit, CommitSilently
  <2> QED
    BY <1>0, <2>1 DEF InOrder, NotAhead
<1>3. CASE Crash \/ CleanupStream
  <2>1. inbox' = inbox /\ rev' = rev /\ result' = 0 /\ subs' = {}
    <3>1. CASE Crash
      BY <3>1 DEF Crash, NoStream
    <3>2. CASE CleanupStream
      BY <3>2 DEF CleanupStream, NoStream, EntryOutlivesSubscribers
    <3> QED
      BY <1>3, <3>1, <3>2
  <2> QED
    BY <1>0, <2>1 DEF InOrder, NotAhead
<1>4. CASE WindowEnds \/ BuildFails \/ ServerCloses
  <2>1. /\ UNCHANGED <<inbox, rev, version>>
        /\ subs' \subseteq subs
        /\ \/ build' # "read" /\ result' = 0
           \/ UNCHANGED <<build, result>>
    <3>1. CASE WindowEnds
      BY <3>1 DEF WindowEnds
    <3>2. CASE BuildFails
      BY <3>2 DEF BuildFails
    <3>3. CASE ServerCloses
      BY <3>3 DEF ServerCloses, Unsubscribe
    <3> QED
      BY <1>4, <3>1, <3>2, <3>3
  <2> QED
    BY <1>0, <2>1 DEF InOrder, NotAhead
<1>5. CASE BuildReads
  <2>1. result' = rev /\ UNCHANGED <<rev, inbox, subs, version>>
    BY <1>5 DEF BuildReads
  <2> QED
    BY <1>0, <2>1 DEF InOrder, NotAhead
<1>6. CASE BuildEnds
  <2>1. /\ version' = version + 1 /\ build = "read" /\ build' = "none" /\ result' = 0
        /\ UNCHANGED <<rev, subs>>
    BY <1>6 DEF BuildEnds
  <2>2. ASSUME NEW c \in Conns PROVE InOrder(c)' /\ NotAhead(c)'
    <3>1. CASE c \notin subs
      BY <1>0, <1>6, <2>1, <3>1, Sending DEF InOrder, NotAhead
    <3>2. CASE c \in subs
      <4>1. /\ Len(inbox'[c]) = Len(inbox[c]) + 1
            /\ \A i \in 1..Len(inbox[c]) : inbox'[c][i] = inbox[c][i]
            /\ inbox'[c][Len(inbox[c]) + 1].v = version + 1
            /\ inbox'[c][Len(inbox[c]) + 1].slots = result
        BY <1>6, <3>2, Sending
      <4>2. \A i \in 1..Len(inbox[c]) : /\ inbox[c][i].v <= version
                                       /\ inbox[c][i].slots <= result
                                       /\ inbox[c][i].slots <= rev
        BY <2>1, <3>2 DEF NotAhead
      <4>3. \A i \in 1..Len(inbox'[c]) :
              i \in 1..Len(inbox[c]) \/ i = Len(inbox[c]) + 1
        BY <1>0, <4>1
      <4>4. InOrder(c)'
        <5> SUFFICES ASSUME NEW i \in 1..Len(inbox'[c]), NEW j \in 1..Len(inbox'[c]), i < j
                     PROVE  /\ inbox'[c][i].v < inbox'[c][j].v
                            /\ inbox'[c][i].slots <= inbox'[c][j].slots
          BY DEF InOrder
        <5>1. i \in 1..Len(inbox[c]) /\ inbox'[c][i] = inbox[c][i]
          BY <1>0, <4>1, <4>3
        <5>2. CASE j \in 1..Len(inbox[c])
          <6>1. inbox'[c][j] = inbox[c][j]
            BY <4>1, <5>2
          <6>2. /\ inbox[c][i].v < inbox[c][j].v
                /\ inbox[c][i].slots <= inbox[c][j].slots
            BY <5>1, <5>2 DEF InOrder
          <6> QED
            BY <5>1, <6>1, <6>2
        <5>3. CASE j = Len(inbox[c]) + 1
          BY SMTT(20), <1>0, <4>1, <4>2, <5>1, <5>3
        <5> QED
          BY <4>3, <5>2, <5>3
      <4>5. NotAhead(c)'
        <5> SUFFICES ASSUME NEW i \in 1..Len(inbox'[c])
                     PROVE  /\ inbox'[c][i].slots <= rev
                            /\ inbox'[c][i].v <= version + 1
          BY <2>1 DEF NotAhead
        <5>1. CASE i \in 1..Len(inbox[c])
          BY <1>0, <4>1, <4>2, <5>1
        <5>2. CASE i = Len(inbox[c]) + 1
          BY <1>0, <4>1, <5>2
        <5> QED
          BY <4>3, <5>1, <5>2
      <4> QED
        BY <4>4, <4>5
    <3> QED
      BY <3>1, <3>2
  <2> QED
    BY <1>0, <2>1, <2>2
<1>7. CASE GhostEnds
  <2>1. version' \in {version, version + 1} /\ UNCHANGED <<result, rev, inbox, subs, build>>
    BY <1>7 DEF GhostEnds
  <2> QED
    BY <1>0, <2>1 DEF InOrder, NotAhead
<1>8. ASSUME NEW t \in Tabs, Connect(t) PROVE SnapshotsInOrder'
  <2>1. PICK c \in Conns \ used : subs' = subs \cup {c}
    BY <1>8 DEF Connect, Subscribe
  <2>2. UNCHANGED <<result, rev, inbox, version, build>>
    BY <1>8 DEF Connect
  <2>3. Len(inbox[c]) = 0
    BY <2>1, EmptySeq DEF ConnectionsApart
  <2> QED
    BY <1>0, <2>1, <2>2, <2>3 DEF InOrder, NotAhead
<1>9. ASSUME NEW t \in Tabs, ReceiveUpdate(t) PROVE SnapshotsInOrder'
  <2>1. UNCHANGED <<result, rev, subs, version, build>>
    BY <1>9 DEF ReceiveUpdate
  <2>2. ASSUME NEW c \in Conns PROVE InOrder(c)' /\ NotAhead(c)'
    <3>1. CASE c # conn[t]
      <4>1. inbox'[c] = inbox[c]
        BY <1>9, <3>1, Receiving
      <4> QED
        BY <2>1, <4>1 DEF InOrder, NotAhead
    <3>2. CASE c = conn[t]
      <4>1. \A i \in 1..Len(inbox'[c]) :
              i + 1 \in 1..Len(inbox[c]) /\ inbox'[c][i] = inbox[c][i + 1]
        BY <1>9, <3>2, Receiving
      <4>2. InOrder(c)'
        <5> SUFFICES ASSUME NEW i \in 1..Len(inbox'[c]), NEW j \in 1..Len(inbox'[c]), i < j
                     PROVE  /\ inbox'[c][i].v < inbox'[c][j].v
                            /\ inbox'[c][i].slots <= inbox'[c][j].slots
          BY DEF InOrder
        <5>1. i + 1 \in 1..Len(inbox[c]) /\ j + 1 \in 1..Len(inbox[c]) /\ i + 1 < j + 1
          BY <4>1
        <5>2. /\ inbox[c][i + 1].v < inbox[c][j + 1].v
              /\ inbox[c][i + 1].slots <= inbox[c][j + 1].slots
          BY <5>1 DEF InOrder
        <5> QED
          BY <4>1, <5>2
      <4>3. NotAhead(c)'
        BY <2>1, <4>1 DEF NotAhead
      <4> QED
        BY <4>2, <4>3
    <3> QED
      BY <3>1, <3>2
  <2> QED
    BY <2>1, <2>2
<1>10. ASSUME NEW t \in Tabs, Disconnect(t) PROVE SnapshotsInOrder'
  <2>1. UNCHANGED <<result, rev, subs, version, build>>
    BY <1>10 DEF Disconnect
  <2>2. \A c \in Conns : inbox'[c] = inbox[c] \/ Len(inbox'[c]) = 0
    BY <1>10, EmptySeq DEF Disconnect, TypeOK
  <2> QED
    BY <2>1, <2>2 DEF InOrder, NotAhead
<1> QED
  BY <1>1, <1>2, <1>3, <1>4, <1>5, <1>6, <1>7, <1>8, <1>9, <1>10
  DEF Next, vars, Environment, Pipeline, Tab, NextWave, NotifyChange, CheckWaveChange,
      StartFetch, FetchReturns

\* A tab is behind the database, behind what is on its way to it, and behind
\* the snapshot being built for it.
LEMMA BehindNext == LiveInv /\ [Next]_vars => TabsBehind'
<1> SUFFICES ASSUME LiveInv, [Next]_vars PROVE TabsBehind'
  OBVIOUS
<1> USE DEF LiveInv, TabsBehind, poolVars, pipeVars, netVars, apiVars, tabVars, hist
<1>0. /\ rev \in Nat /\ result \in Nat /\ version \in Nat
      /\ \A c \in Conns : Len(inbox[c]) \in Nat
      /\ \A c \in Conns : \A i \in 1..Len(inbox[c]) :
            inbox[c][i].v \in Nat /\ inbox[c][i].slots \in Nat
      /\ \A t \in Tabs : lastV[t] \in Nat /\ shown[t] \in Nat
      /\ \A t \in Tabs : fetch[t] # None => fetch[t] \in Nat
  <2>1. rev \in Nat /\ result \in Nat /\ version \in Nat
    BY LiveAssumption DEF TypeOK
  <2>2. \A t \in Tabs : lastV[t] \in Nat /\ shown[t] \in Nat
    BY LiveAssumption DEF TypeOK
  <2>3. \A t \in Tabs : fetch[t] # None => fetch[t] \in Nat
    BY LiveAssumption DEF TypeOK
  <2> QED
    BY <2>1, <2>2, <2>3, MessageType
<1>01. \A t \in Tabs : lastV[t] > 0 => conn[t] \in Conns
  BY <1>0 DEF TypeOK, ConnectionsApart
<1>1. CASE UNCHANGED <<result, rev, inbox, subs, version, build, conn, lastV, shown, fetch>>
  BY <1>1 DEF NewsAhead
<1>2. CASE Commit \/ CommitSilently
  <2>1. /\ rev' = rev + 1
        /\ UNCHANGED <<result, inbox, subs, version, build, conn, lastV, shown, fetch>>
    BY <1>2 DEF Commit, CommitSilently
  <2> QED
    BY <1>0, <2>1 DEF NewsAhead
<1>3. CASE Crash \/ CleanupStream
  <2>1. UNCHANGED <<inbox, rev, conn, lastV, shown, fetch>> /\ subs' = {}
    <3>1. CASE Crash
      BY <3>1 DEF Crash
    <3>2. CASE CleanupStream
      BY <3>2 DEF CleanupStream, EntryOutlivesSubscribers
    <3> QED
      BY <1>3, <3>1, <3>2
  <2> QED
    BY <2>1 DEF NewsAhead
<1>4. CASE WindowEnds \/ BuildFails \/ ServerCloses
  <2>1. /\ UNCHANGED <<inbox, rev, version, conn, lastV, shown, fetch>>
        /\ subs' \subseteq subs
        /\ \/ build' # "read"
           \/ UNCHANGED <<build, result>>
    <3>1. CASE WindowEnds
      BY <3>1 DEF WindowEnds
    <3>2. CASE BuildFails
      BY <3>2 DEF BuildFails
    <3>3. CASE ServerCloses
      BY <3>3 DEF ServerCloses, Unsubscribe
    <3> QED
      BY <1>4, <3>1, <3>2, <3>3
  <2> QED
    BY <2>1 DEF NewsAhead
<1>5. CASE BuildReads
  <2>1. result' = rev /\ UNCHANGED <<rev, inbox, subs, version, conn, lastV, shown, fetch>>
    BY <1>5 DEF BuildReads
  <2> QED
    BY <2>1 DEF NewsAhead
<1>6. CASE BuildEnds
  <2>1. /\ version' = version + 1 /\ build = "read" /\ build' = "none"
        /\ UNCHANGED <<rev, subs, conn, lastV, shown, fetch>>
    BY <1>6 DEF BuildEnds
  <2>2. ASSUME NEW t \in Tabs, lastV[t] > 0 PROVE NewsAhead(t)'
    <3>1. conn[t] \in Conns /\ NewsAhead(t)
      BY <1>01, <2>2
    <3>2. CASE conn[t] \notin subs
      <4>1. inbox'[conn[t]] = inbox[conn[t]]
        BY <1>6, <3>1, <3>2, Sending
      <4> QED
        BY <2>1, <3>1, <3>2, <4>1 DEF NewsAhead
    <3>3. CASE conn[t] \in subs
      <4>1. /\ Len(inbox'[conn[t]]) = Len(inbox[conn[t]]) + 1
            /\ \A i \in 1..Len(inbox[conn[t]]) : inbox'[conn[t]][i] = inbox[conn[t]][i]
            /\ inbox'[conn[t]][Len(inbox[conn[t]]) + 1].v = version + 1
            /\ inbox'[conn[t]][Len(inbox[conn[t]]) + 1].slots = result
        BY <1>6, <3>1, <3>3, Sending
      <4>2. lastV[t] <= version /\ shown[t] <= result
        BY <2>1, <3>1, <3>3 DEF NewsAhead
      <4>3. ASSUME NEW i \in 1..Len(inbox'[conn[t]])
            PROVE  inbox'[conn[t]][i].v > lastV[t] /\ inbox'[conn[t]][i].slots >= shown[t]
        <5>1. CASE i \in 1..Len(inbox[conn[t]])
          BY <3>1, <4>1, <5>1 DEF NewsAhead
        <5>2. CASE i = Len(inbox[conn[t]]) + 1
          BY <1>0, <4>1, <4>2, <5>2
        <5> QED
          BY <1>0, <3>1, <4>1, <5>1, <5>2
      <4> QED
        BY <1>0, <2>1, <4>2, <4>3 DEF NewsAhead
    <3> QED
      BY <3>2, <3>3
  <2> QED
    BY <2>1, <2>2
<1>7. CASE GhostEnds
  <2>1. /\ version' \in {version, version + 1}
        /\ UNCHANGED <<result, rev, inbox, subs, build, conn, lastV, shown, fetch>>
    BY <1>7 DEF GhostEnds
  <2> QED
    BY <1>0, <2>1 DEF NewsAhead
<1>8. ASSUME NEW t \in Tabs, Connect(t) PROVE TabsBehind'
  <2>1. PICK c \in Conns \ used : /\ subs' = subs \cup {c}
                                  /\ conn' = [conn EXCEPT ![t] = c]
    BY <1>8 DEF Connect, Subscribe
  <2>2. /\ UNCHANGED <<result, rev, inbox, version, build, lastV, shown, fetch>>
        /\ conn[t] = None
    BY <1>8 DEF Connect
  <2>3. lastV[t] = 0
    BY <2>2 DEF ConnectionsApart
  <2>4. \A u \in Tabs : u # t => conn'[u] = conn[u] /\ conn[u] # c
    BY <2>1, LiveAssumption DEF TypeOK
  <2>5. ASSUME NEW u \in Tabs, lastV[u] > 0 PROVE NewsAhead(u)'
    <3>1. u # t /\ NewsAhead(u)
      BY <2>3, <2>5
    <3> QED
      BY <2>1, <2>2, <2>4, <3>1 DEF NewsAhead
  <2> QED
    BY <2>2, <2>5
<1>9. ASSUME NEW t \in Tabs, ReceiveUpdate(t) PROVE TabsBehind'
  <2>1. UNCHANGED <<result, rev, subs, version, build, conn, fetch>> /\ conn[t] # None
    BY <1>9 DEF ReceiveUpdate
  <2> DEFINE c == conn[t]
  <2>2. /\ c \in Conns
        /\ 1 \in 1..Len(inbox[c])
        /\ Head(inbox[c]) = inbox[c][1]
        /\ \A i \in 1..Len(inbox'[c]) :
              i + 1 \in 1..Len(inbox[c]) /\ inbox'[c][i] = inbox[c][i + 1]
        /\ \A d \in Conns : d # c => inbox'[d] = inbox[d]
    BY <1>9, Receiving
  <2>3. IF inbox[c][1].v > lastV[t]
        THEN /\ lastV' = [lastV EXCEPT ![t] = inbox[c][1].v]
             /\ shown' = [shown EXCEPT ![t] = inbox[c][1].slots]
        ELSE UNCHANGED <<lastV, shown>>
    BY <1>9, <2>2 DEF ReceiveUpdate
  <2>4. inbox[c][1].slots <= rev
    BY <2>2 DEF SnapshotsInOrder, NotAhead
  <2>5. ASSUME NEW u \in Tabs, u # t
        PROVE  /\ shown'[u] = shown[u] /\ lastV'[u] = lastV[u]
               /\ lastV[u] > 0 => NewsAhead(u)'
    <3>1. shown'[u] = shown[u] /\ lastV'[u] = lastV[u]
      BY <2>3, <2>5 DEF TypeOK
    <3>2. conn[u] # c
      BY <2>1, <2>5 DEF ConnectionsApart
    <3>3. ASSUME lastV[u] > 0 PROVE NewsAhead(u)'
      <4>1. NewsAhead(u) /\ inbox'[conn[u]] = inbox[conn[u]]
        BY <1>01, <2>2, <3>2, <3>3
      <4> QED
        BY <2>1, <3>1, <4>1 DEF NewsAhead
    <3> QED
      BY <3>1, <3>3
  <2>6. CASE inbox[c][1].v > lastV[t]
    <3>1. lastV'[t] = inbox[c][1].v /\ shown'[t] = inbox[c][1].slots
      BY <2>3, <2>6 DEF TypeOK
    <3>2. \A i \in 1..Len(inbox'[c]) : /\ inbox'[c][i].v > inbox[c][1].v
                                      /\ inbox'[c][i].slots >= inbox[c][1].slots
      <4> SUFFICES ASSUME NEW i \in 1..Len(inbox'[c])
                   PROVE  /\ inbox[c][1].v < inbox[c][i + 1].v
                          /\ inbox[c][1].slots <= inbox[c][i + 1].slots
        BY <1>0, <2>2
      <4>1. i + 1 \in 1..Len(inbox[c]) /\ 1 < i + 1
        BY <2>2
      <4> QED
        BY <2>2, <4>1 DEF SnapshotsInOrder, InOrder
    <3>3. c \in subs => /\ inbox[c][1].v <= version
                        /\ (build = "read" => inbox[c][1].slots <= result)
      BY <2>2 DEF SnapshotsInOrder, NotAhead
    <3>4. NewsAhead(t)'
      BY <2>1, <3>1, <3>2, <3>3 DEF NewsAhead
    <3> QED
      BY <2>1, <2>4, <2>5, <3>1, <3>4
  <2>7. CASE ~(inbox[c][1].v > lastV[t])
    <3>1. UNCHANGED <<lastV, shown>>
      BY <2>3, <2>7
    <3>2. lastV[t] > 0 => inbox[c][1].v > lastV[t]
      BY <2>2 DEF NewsAhead
    <3> QED
      BY <2>1, <2>5, <2>7, <3>1, <3>2
  <2> QED
    BY <2>6, <2>7
<1>10. ASSUME NEW t \in Tabs, Disconnect(t) PROVE TabsBehind'
  <2>1. /\ UNCHANGED <<result, rev, subs, version, build, shown, fetch>>
        /\ conn[t] # None
        /\ conn' = [conn EXCEPT ![t] = None]
        /\ inbox' = [inbox EXCEPT ![conn[t]] = <<>>]
        /\ lastV' = [lastV EXCEPT ![t] = 0]
    BY <1>10 DEF Disconnect
  <2>2. ASSUME NEW u \in Tabs, lastV'[u] > 0 PROVE NewsAhead(u)'
    <3>1. u # t
      BY <2>1, <2>2 DEF TypeOK
    <3>2. lastV'[u] = lastV[u] /\ conn'[u] = conn[u]
      BY <2>1, <3>1 DEF TypeOK
    <3>3. NewsAhead(u) /\ conn[u] \in Conns /\ conn[u] # conn[t]
      BY <1>01, <2>1, <2>2, <3>1, <3>2 DEF ConnectionsApart
    <3>4. inbox'[conn[u]] = inbox[conn[u]]
      BY <2>1, <3>3 DEF TypeOK
    <3> QED
      BY <2>1, <3>2, <3>3, <3>4 DEF NewsAhead
  <2> QED
    BY <2>1, <2>2
<1>11. ASSUME NEW t \in Tabs, StartFetch(t) PROVE TabsBehind'
  <2>1. /\ UNCHANGED <<result, rev, inbox, subs, version, build, conn, lastV, shown>>
        /\ fetch' = [fetch EXCEPT ![t] = rev]
    BY <1>11 DEF StartFetch
  <2>2. \A u \in Tabs : fetch'[u] = rev \/ fetch'[u] = fetch[u]
    BY <2>1 DEF TypeOK
  <2> QED
    BY <1>0, <2>1, <2>2 DEF NewsAhead
<1>12. ASSUME NEW t \in Tabs, FetchReturns(t) PROVE TabsBehind'
  <2>1. /\ UNCHANGED <<result, rev, inbox, subs, version, build, conn, lastV>>
        /\ fetch[t] # None
        /\ fetch' = [fetch EXCEPT ![t] = None]
        /\ shown' = IF lastV[t] > 0 THEN shown ELSE [shown EXCEPT ![t] = fetch[t]]
    BY <1>12 DEF FetchReturns
  <2>2. \A u \in Tabs : fetch'[u] = None \/ fetch'[u] = fetch[u]
    BY <2>1 DEF TypeOK
  <2>3. \A u \in Tabs : shown'[u] <= rev
    BY <2>1 DEF TypeOK
  <2>4. \A u \in Tabs : lastV[u] > 0 => shown'[u] = shown[u]
    BY <2>1 DEF TypeOK
  <2> QED
    BY <2>1, <2>2, <2>3, <2>4 DEF NewsAhead
<1> QED
  BY <1>1, <1>2, <1>3, <1>4, <1>5, <1>6, <1>7, <1>8, <1>9, <1>10, <1>11, <1>12
  DEF Next, vars, Environment, Pipeline, Tab, NextWave, NotifyChange, CheckWaveChange,
      Trigger

\* The inductive invariant.
THEOREM LiveSafe == Spec => []LiveInv
<1>1. Init => LiveInv
  <2> SUFFICES ASSUME Init PROVE LiveInv
    OBVIOUS
  <2>1. EntryInv
    BY EntryInit
  <2>2. ConnectionsApart
    BY DEF Init, ConnectionsApart
  <2>3. \A c \in Conns : Len(inbox[c]) = 0
    BY EmptySeq DEF Init
  <2>4. SnapshotsInOrder
    BY <2>3 DEF Init, SnapshotsInOrder, InOrder, NotAhead
  <2>5. TabsBehind
    BY DEF Init, TabsBehind
  <2> QED
    BY <2>1, <2>2, <2>4, <2>5 DEF LiveInv, EntryInv
<1>2. LiveInv /\ [Next]_vars => LiveInv'
  BY EntryNext, ApartNext, OrderNext, BehindNext DEF LiveInv, EntryInv
<1> QED
  BY <1>1, <1>2, PTL DEF Spec

-----------------------------------------------------------------------------
(* No notice is lost.                                                        *)

\* The pipeline is told of what is committed, on connections that are open.
ToldInv == \A c \in Conns : told[c] <= rev /\ (c \notin used => told[c] = 0)

\* What a subscribed tab was told of is on its way to it.
Arriving ==
    \A t \in Tabs : conn[t] \in subs /\ told[conn[t]] > 0 => OnItsWay(t, told[conn[t]])

LEMMA ToldNext == LiveInv /\ ToldInv /\ [Next]_vars => ToldInv'
<1> SUFFICES ASSUME LiveInv, ToldInv, [Next]_vars PROVE ToldInv'
  OBVIOUS
<1> USE LiveAssumption
    DEF LiveInv, TypeOK, ToldInv, poolVars, pipeVars, netVars, apiVars, tabVars, hist
<1>1. CASE UNCHANGED <<rev, used, told>>
  BY <1>1
<1>2. CASE Commit \/ CommitSilently
  BY <1>2 DEF Commit, CommitSilently
<1>3. CASE NotifyChange \/ CheckWaveChange
  <2>1. /\ rev' = rev /\ used' = used /\ subs \subseteq used
        /\ told' = told \/ Trigger
    BY <1>3 DEF NotifyChange, CheckWaveChange
  <2>2. \A c \in Conns : told'[c] = told[c] \/ (c \in used /\ told'[c] = rev)
    BY <2>1 DEF Trigger
  <2> QED
    BY <2>1, <2>2
<1>4. CASE BuildFails
  BY <1>4 DEF BuildFails
<1>5. ASSUME NEW t \in Tabs, Connect(t) PROVE ToldInv'
  <2>1. PICK c \in Conns \ used : used' = used \cup {c} /\ Subscribe(c)
    BY <1>5 DEF Connect
  <2>2. \A d \in Conns : told'[d] = told[d] \/ (d = c /\ told'[d] = rev)
    BY <2>1 DEF Subscribe
  <2> QED
    BY <1>5, <2>1, <2>2 DEF Connect
<1> QED
  BY <1>1, <1>2, <1>3, <1>4, <1>5
  DEF Next, vars, Environment, Pipeline, Tab, NextWave, Crash, WindowEnds, BuildReads,
      BuildEnds, GhostEnds, ServerCloses, CleanupStream, ReceiveUpdate, Disconnect,
      StartFetch, FetchReturns

\* A notice waits in the throttle until a build starts, the build reads after
\* it, the snapshot is sent with a number the tab has not seen, and the tab
\* applies it or one that came before it and shows as much.
LEMMA ArrivingNext == LiveInv /\ ToldInv /\ Arriving /\ [Next]_vars => Arriving'
<1> SUFFICES ASSUME LiveInv, ToldInv, Arriving, [Next]_vars PROVE Arriving'
  OBVIOUS
<1> USE DEF poolVars, pipeVars, netVars, apiVars, tabVars, hist
<1>0. /\ rev \in Nat /\ result \in Nat /\ version \in Nat
      /\ \A c \in Conns : told[c] \in Nat /\ Len(inbox[c]) \in Nat
      /\ \A c \in Conns : \A i \in 1..Len(inbox[c]) :
            inbox[c][i].v \in Nat /\ inbox[c][i].slots \in Nat
      /\ \A t \in Tabs : lastV[t] \in Nat /\ shown[t] \in Nat
      /\ subs \subseteq Conns
  <2>1. /\ rev \in Nat /\ result \in Nat /\ version \in Nat
        /\ \A c \in Conns : told[c] \in Nat
        /\ \A t \in Tabs : lastV[t] \in Nat /\ shown[t] \in Nat
        /\ subs \subseteq Conns
    BY LiveAssumption DEF LiveInv, TypeOK
  <2> QED
    BY <2>1, MessageType DEF LiveInv
<1>1. CASE UNCHANGED <<subs, inbox, conn, lastV, shown, told, build, result, window>>
  BY <1>1 DEF Arriving, OnItsWay
<1>2. CASE Crash \/ CleanupStream
  <2>1. subs' = {}
    BY <1>2 DEF Crash, CleanupStream, LiveInv, EntryOutlivesSubscribers
  <2> QED
    BY <2>1 DEF Arriving
<1>3. CASE NotifyChange \/ CheckWaveChange
  <2>1. CASE subs # {} /\ Trigger
    BY <2>1 DEF Trigger, Arriving, OnItsWay
  <2>2. CASE subs = {} \/ UNCHANGED <<window, told>>
    BY <1>3, <2>2 DEF NotifyChange, CheckWaveChange, Arriving, OnItsWay
  <2> QED
    BY <1>3, <2>1, <2>2 DEF NotifyChange, CheckWaveChange
<1>4. CASE WindowEnds
  BY <1>4 DEF WindowEnds, Arriving, OnItsWay
<1>5. CASE BuildReads
  <2>1. result' = rev /\ build' = "read"
    BY <1>5 DEF BuildReads
  <2>2. \A c \in Conns : rev >= told[c]
    BY <1>0 DEF ToldInv
  <2> QED
    BY <1>0, <1>5, <2>1, <2>2 DEF BuildReads, Arriving, OnItsWay
<1>6. CASE BuildEnds
  <2>1. /\ version' = version + 1 /\ build = "read"
        /\ UNCHANGED <<subs, conn, lastV, shown, told, window>>
    BY <1>6 DEF BuildEnds
  <2>2. ASSUME NEW t \in Tabs, conn[t] \in subs, told[conn[t]] > 0
        PROVE  OnItsWay(t, told[conn[t]])'
    <3> DEFINE c == conn[t]
    <3>1. c \in Conns /\ OnItsWay(t, told[c])
      BY <1>0, <2>2 DEF Arriving
    <3>2. /\ Len(inbox'[c]) = Len(inbox[c]) + 1
          /\ \A i \in 1..Len(inbox[c]) : inbox'[c][i] = inbox[c][i]
          /\ inbox'[c][Len(inbox[c]) + 1].v = version + 1
          /\ inbox'[c][Len(inbox[c]) + 1].slots = result
      BY <1>6, <2>2, <3>1, Sending DEF LiveInv
    <3>3. lastV[t] <= version
      BY <1>0, <2>2 DEF LiveInv, TabsBehind, NewsAhead
    <3>4. CASE result >= told[c]
      <4>1. Len(inbox[c]) + 1 \in 1..Len(inbox'[c]) /\ version + 1 > lastV[t]
        BY <1>0, <3>1, <3>2, <3>3
      <4> QED
        BY <2>1, <3>2, <3>4, <4>1 DEF OnItsWay
    <3>5. CASE \E i \in 1..Len(inbox[c]) : inbox[c][i].v > lastV[t] /\ inbox[c][i].slots >= told[c]
      <4>1. PICK i \in 1..Len(inbox[c]) : inbox[c][i].v > lastV[t] /\ inbox[c][i].slots >= told[c]
        BY <3>5
      <4>2. i \in 1..Len(inbox'[c]) /\ inbox'[c][i] = inbox[c][i]
        BY <1>0, <3>1, <3>2
      <4> QED
        BY <2>1, <4>1, <4>2 DEF OnItsWay
    <3>6. CASE (lastV[t] > 0 /\ shown[t] >= told[c]) \/ window = "armed"
      BY <2>1, <3>6 DEF OnItsWay
    <3> QED
      BY <2>1, <3>1, <3>4, <3>5, <3>6 DEF OnItsWay
  <2> QED
    BY <2>1, <2>2 DEF Arriving
<1>7. CASE BuildFails
  BY <1>0, <1>7 DEF BuildFails, Arriving, OnItsWay
<1>8. CASE ServerCloses
  <2>1. PICK c \in subs : Unsubscribe(c)
    BY <1>8 DEF ServerCloses
  <2>2. subs' \subseteq subs /\ UNCHANGED <<inbox, conn, lastV, shown, told>>
    BY <1>8, <2>1 DEF ServerCloses, Unsubscribe
  <2>3. subs' = {} \/ UNCHANGED <<window, build, result>>
    BY <2>1 DEF Unsubscribe
  <2> QED
    BY <2>2, <2>3 DEF Arriving, OnItsWay
<1>9. ASSUME NEW t \in Tabs, Connect(t) PROVE Arriving'
  <2>1. PICK c \in Conns \ used : conn' = [conn EXCEPT ![t] = c] /\ Subscribe(c)
    BY <1>9 DEF Connect
  <2>2. UNCHANGED <<build, result, inbox, lastV, shown>>
    BY <1>9 DEF Connect
  <2>3. CASE subs = {}
    <3>1. window' = "armed"
      BY <2>1, <2>3 DEF Subscribe
    <3> QED
      BY <3>1 DEF Arriving, OnItsWay
  <2>4. CASE subs # {}
    <3>1. UNCHANGED <<window, told>> /\ subs' = subs \cup {c}
      BY <2>1, <2>4 DEF Subscribe
    <3>2. told[c] = 0 /\ conn'[t] = c
      BY <2>1 DEF ToldInv, LiveInv, TypeOK
    <3>3. \A u \in Tabs : u # t => conn'[u] = conn[u] /\ conn[u] # c
      BY <2>1, LiveAssumption DEF LiveInv, TypeOK
    <3> QED
      BY <2>2, <3>1, <3>2, <3>3 DEF Arriving, OnItsWay
  <2> QED
    BY <2>3, <2>4
<1>10. ASSUME NEW t \in Tabs, ReceiveUpdate(t) PROVE Arriving'
  <2> DEFINE c == conn[t]
  <2>1. UNCHANGED <<build, result, window, subs, conn, told>>
    BY <1>10 DEF ReceiveUpdate
  <2>2. /\ c \in Conns
        /\ 1 \in 1..Len(inbox[c])
        /\ Head(inbox[c]) = inbox[c][1]
        /\ Len(inbox'[c]) = Len(inbox[c]) - 1
        /\ \A i \in 1..Len(inbox'[c]) : inbox'[c][i] = inbox[c][i + 1]
        /\ \A d \in Conns : d # c => inbox'[d] = inbox[d]
    BY <1>10, Receiving DEF LiveInv
  <2>3. IF inbox[c][1].v > lastV[t]
        THEN /\ lastV' = [lastV EXCEPT ![t] = inbox[c][1].v]
             /\ shown' = [shown EXCEPT ![t] = inbox[c][1].slots]
        ELSE UNCHANGED <<lastV, shown>>
    BY <1>10, <2>2 DEF ReceiveUpdate
  <2>4. ASSUME NEW u \in Tabs, u # t, conn[u] \in subs, told[conn[u]] > 0
        PROVE  OnItsWay(u, told[conn[u]])'
    <3>1. lastV'[u] = lastV[u] /\ shown'[u] = shown[u]
      BY <2>3, <2>4 DEF LiveInv, TypeOK
    <3>2. conn[u] \in Conns /\ conn[u] # c
      BY <1>0, <1>10, <2>4 DEF LiveInv, ConnectionsApart, ReceiveUpdate
    <3>3. inbox'[conn[u]] = inbox[conn[u]]
      BY <2>2, <3>2
    <3>4. OnItsWay(u, told[conn[u]])
      BY <2>4 DEF Arriving
    <3> QED
      BY <2>1, <3>1, <3>3, <3>4 DEF OnItsWay
  <2>5. ASSUME c \in subs, told[c] > 0
        PROVE  OnItsWay(t, told[c])'
    <3>1. OnItsWay(t, told[c])
      BY <2>5 DEF Arriving
    <3>2. lastV'[t] \in {lastV[t], inbox[c][1].v}
      BY <2>3 DEF LiveInv, TypeOK
    <3>3. CASE lastV[t] > 0 /\ shown[t] >= told[c]
      <4>1. inbox[c][1].v > lastV[t] /\ inbox[c][1].slots >= shown[t]
        BY <2>2, <3>3 DEF LiveInv, TabsBehind, NewsAhead
      <4>2. lastV'[t] = inbox[c][1].v /\ shown'[t] = inbox[c][1].slots
        BY <2>3, <4>1 DEF LiveInv, TypeOK
      <4>3. lastV'[t] > 0 /\ shown'[t] >= told[c]
        BY <1>0, <2>2, <3>3, <4>1, <4>2
      <4> QED
        BY <2>1, <4>3 DEF OnItsWay
    <3>4. CASE \E i \in 1..Len(inbox[c]) : inbox[c][i].v > lastV[t] /\ inbox[c][i].slots >= told[c]
      <4>1. PICK i \in 1..Len(inbox[c]) : inbox[c][i].v > lastV[t] /\ inbox[c][i].slots >= told[c]
        BY <3>4
      <4>2. CASE i = 1
        <5>1. lastV'[t] = inbox[c][1].v /\ shown'[t] = inbox[c][1].slots
          BY <2>3, <4>1, <4>2 DEF LiveInv, TypeOK
        <5>2. lastV'[t] > 0 /\ shown'[t] >= told[c]
          BY <1>0, <2>2, <4>1, <4>2, <5>1
        <5> QED
          BY <2>1, <5>2 DEF OnItsWay
      <4>3. CASE i # 1
        <5>1. 1 < i /\ i - 1 \in 1..Len(inbox'[c]) /\ (i - 1) + 1 = i
          BY <1>0, <2>2, <4>1, <4>3
        <5>2. inbox'[c][i - 1] = inbox[c][i]
          BY <2>2, <5>1
        <5>3. inbox[c][1].v < inbox[c][i].v
          BY <2>2, <4>1, <5>1 DEF LiveInv, SnapshotsInOrder, InOrder
        <5>4. inbox'[c][i - 1].v > lastV'[t] /\ inbox'[c][i - 1].slots >= told[c]
          BY <3>2, <4>1, <5>2, <5>3
        <5> QED
          BY <2>1, <5>1, <5>4 DEF OnItsWay
      <4> QED
        BY <4>2, <4>3
    <3>5. CASE \/ build = "read" /\ result >= told[c]
               \/ build = "started"
               \/ window = "armed"
      BY <2>1, <3>5 DEF OnItsWay
    <3> QED
      BY <3>1, <3>3, <3>4, <3>5 DEF OnItsWay
  <2> QED
    BY <2>1, <2>4, <2>5 DEF Arriving
<1>11. ASSUME NEW t \in Tabs, Disconnect(t) PROVE Arriving'
  <2>1. /\ UNCHANGED <<build, result, window, subs, shown, told>>
        /\ conn[t] # None
        /\ conn' = [conn EXCEPT ![t] = None]
        /\ inbox' = [inbox EXCEPT ![conn[t]] = <<>>]
        /\ lastV' = [lastV EXCEPT ![t] = 0]
    BY <1>11 DEF Disconnect
  <2>2. conn'[t] = None /\ None \notin subs
    BY <1>0, <2>1, LiveAssumption DEF LiveInv, TypeOK
  <2>3. ASSUME NEW u \in Tabs, u # t, conn[u] \in subs, told[conn[u]] > 0
        PROVE  OnItsWay(u, told[conn[u]])' /\ conn'[u] = conn[u]
    <3>1. lastV'[u] = lastV[u] /\ conn'[u] = conn[u]
      BY <2>1, <2>3 DEF LiveInv, TypeOK
    <3>2. conn[u] \in Conns /\ conn[u] # conn[t]
      BY <1>0, <2>1, <2>3 DEF LiveInv, ConnectionsApart
    <3>3. inbox'[conn[u]] = inbox[conn[u]]
      BY <2>1, <3>2 DEF LiveInv, TypeOK
    <3>4. OnItsWay(u, told[conn[u]])
      BY <2>3 DEF Arriving
    <3> QED
      BY <2>1, <3>1, <3>3, <3>4 DEF OnItsWay
  <2>4. \A u \in Tabs : u # t => conn'[u] = conn[u]
    BY <2>1 DEF LiveInv, TypeOK
  <2> QED
    BY <2>1, <2>2, <2>3, <2>4 DEF Arriving
<1>12. ASSUME NEW t \in Tabs, FetchReturns(t) PROVE Arriving'
  <2>1. /\ UNCHANGED <<build, result, window, subs, inbox, conn, lastV, told>>
        /\ \A u \in Tabs : lastV[u] > 0 => shown'[u] = shown[u]
    BY <1>12 DEF FetchReturns, LiveInv, TypeOK
  <2> QED
    BY <2>1 DEF Arriving, OnItsWay
<1> QED
  BY <1>1, <1>2, <1>3, <1>4, <1>5, <1>6, <1>7, <1>8, <1>9, <1>10, <1>11, <1>12
  DEF Next, vars, Environment, Pipeline, Tab, NextWave, Commit, CommitSilently,
      GhostEnds, StartFetch

\* Whatever the throttle, the builds that are dropped, restarts and the version
\* filter do, what the pipeline was told of while a tab was subscribed is shown,
\* or still on its way and not going to be taken for old.
THEOREM NoticesArrive == Spec => []NoNoticeLost
<1> DEFINE Heard == ToldInv /\ Arriving
<1>1. Init => Heard
  BY LiveAssumption DEF Init, ToldInv, Arriving
<1>2. LiveInv /\ Heard /\ [Next]_vars => Heard'
  BY ToldNext, ArrivingNext
<1>3. LiveInv /\ Heard => NoNoticeLost
  <2> SUFFICES ASSUME LiveInv, Heard, NEW t \in Tabs, conn[t] \in subs
               PROVE  /\ lastV[t] <= version
                      /\ told[conn[t]] > 0 => OnItsWay(t, told[conn[t]])
    BY DEF NoNoticeLost
  <2>1. lastV[t] <= version
    BY LiveAssumption DEF LiveInv, TabsBehind, NewsAhead, TypeOK
  <2> QED
    BY <2>1 DEF Arriving
<1> QED
  BY <1>1, <1>2, <1>3, LiveSafe, PTL DEF Spec

\* While the stream has delivered, the tee sheet on a page never goes back.
THEOREM TabsNeverGoBack == Spec => ConnectedNeverBack
<1> DEFINE Forward == \A t \in Tabs :
                        lastV[t] > 0 /\ lastV'[t] > 0 => shown'[t] >= shown[t]
<1>1. LiveInv /\ [Next]_vars => [Forward]_vars
  <2> SUFFICES ASSUME LiveInv, [Next]_vars, NEW t \in Tabs, lastV[t] > 0, lastV'[t] > 0
               PROVE  shown'[t] >= shown[t]
    OBVIOUS
  <2> USE DEF poolVars, pipeVars, netVars, apiVars, tabVars, hist
  <2>0. shown[t] \in Nat
    BY LiveAssumption DEF LiveInv, TypeOK
  <2>1. CASE shown' = shown
    BY <2>0, <2>1
  <2>2. ASSUME NEW u \in Tabs, ReceiveUpdate(u) PROVE shown'[t] >= shown[t]
    <3>1. CASE u = t
      <4>1. /\ conn[t] \in Conns
            /\ 1 \in 1..Len(inbox[conn[t]])
            /\ Head(inbox[conn[t]]) = inbox[conn[t]][1]
        BY <2>2, <3>1, Receiving DEF LiveInv
      <4>2. inbox[conn[t]][1].slots >= shown[t]
        BY <4>1 DEF LiveInv, TabsBehind, NewsAhead
      <4>3. shown'[t] = shown[t] \/ shown'[t] = inbox[conn[t]][1].slots
        BY <2>2, <3>1, <4>1 DEF ReceiveUpdate, LiveInv, TypeOK
      <4> QED
        BY <2>0, <4>2, <4>3
    <3>2. CASE u # t
      <4>1. shown'[t] = shown[t]
        BY <2>2, <3>2 DEF ReceiveUpdate, LiveInv, TypeOK
      <4> QED
        BY <2>0, <4>1
    <3> QED
      BY <3>1, <3>2
  <2>3. ASSUME NEW u \in Tabs, FetchReturns(u) PROVE shown'[t] >= shown[t]
    <3>1. shown'[t] = shown[t]
      BY <2>3 DEF FetchReturns, LiveInv, TypeOK
    <3> QED
      BY <2>0, <3>1
  <2> QED
    BY <2>1, <2>2, <2>3
    DEF Next, vars, Environment, Pipeline, Tab, NextWave, Commit, CommitSilently, Crash,
        NotifyChange, CheckWaveChange, WindowEnds, BuildReads, BuildEnds, BuildFails,
        GhostEnds, ServerCloses, CleanupStream, Connect, Disconnect, StartFetch
<1> QED
  BY <1>1, LiveSafe, PTL DEF Spec, ConnectedNeverBack
===============================================================================
