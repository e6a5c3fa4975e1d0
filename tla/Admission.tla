------------------------------- MODULE Admission -------------------------------
(***************************************************************************)
(* Who may sign up, and when.                                              *)
(*                                                                         *)
(* An event with tee times opens in waves: the API decides by its clock    *)
(* which groups may be claimed (wave-calculator.ts), each tab decides for  *)
(* itself which ones it offers, from a timer of its own and from snapshots *)
(* the API pushes (reserve-utils.ts, registration-provider.tsx), and the   *)
(* club may append tee times in between (managers.py).                     *)
(*                                                                         *)
(* An event without tee times takes whoever comes until it is full, and    *)
(* counts the players in a snapshot before it inserts (createNonChoosable- *)
(* Slots).                                                                 *)
(*                                                                         *)
(* Time is counted in milliseconds, scaled down: a request takes one at    *)
(* least, a timer or a request may be late by any number.                  *)
(***************************************************************************)
EXTENDS Integers, Sequences, FiniteSets, FiniteSetsExt

CONSTANTS
    Waves,          \* event.signup_waves
    FirstTotal,     \* event.total_groups as the event was set up
    MaxTotal,       \* bound: tee times are appended up to this many
    PriorityStart, SignupStart, SignupEnd,
    LastTick,       \* bound: the last time that is looked at
    Lag,            \* what a tab adds to its wave timer (100 ms)
    Tabs,
    Skews,          \* how far the clock of a tab's computer may be ahead
    MaxMail,        \* bound: snapshots under way to a tab
    Users,          \* accounts that sign up for an event without tee times
    Maximum,        \* registration_maximum, or the limit of a session
    GroupSize       \* maximum_signup_group_size

ASSUME AdmissionAssumption ==
    /\ {Waves, FirstTotal, GroupSize, Maximum} \subseteq Nat \ {0}
    /\ {PriorityStart, SignupStart, SignupEnd, Lag, MaxTotal, LastTick} \subseteq Nat
    /\ FirstTotal <= MaxTotal
    /\ IsFiniteSet(Users)
    /\ PriorityStart < SignupStart /\ SignupStart < SignupEnd
    /\ 0 \in Skews /\ Skews \subseteq Int

VARIABLES
    now,            \* the API's clock
    canChoose,      \* whether the event has tee times to choose from
    total,          \* event.total_groups
    announced,      \* the wave the API last pushed
    skew,           \* how far each tab's clock is ahead of the API's
    listening,      \* the tabs that can connect to the API's stream
    mail,           \* the waves in the snapshots under way to each tab
    known,          \* the total_groups each tab has loaded, 0 before that
    wave,           \* state.sseCurrentWave of each tab
    timer,          \* when its wave timer is due; None
    click,          \* its request under way: which group, clicked when
    count,          \* what each user's transaction has counted; None
    players,        \* the players in each user's registration, 0: none
    raced           \* the users let in on a count that was out of date

clockVars == <<now, canChoose, skew, listening>>
tabVars == <<known, wave, timer, click>>
openVars == <<count, players, raced>>
vars == <<clockVars, total, announced, mail, tabVars, openVars>>

None == -1

NoClick == [group |-> None, at |-> None]

Groups(n) == 0 .. n - 1

Ticks == 0 .. LastTick

TypeOK ==
    /\ now \in Ticks
    /\ canChoose \in BOOLEAN
    /\ total \in FirstTotal .. MaxTotal
    /\ announced \in {-1} \cup 1 .. Waves + 1
    /\ skew \in [Tabs -> Skews]
    /\ listening \subseteq Tabs
    /\ mail \in [Tabs -> Seq({-1} \cup 1 .. Waves + 1)]
    /\ known \in [Tabs -> 0 .. MaxTotal]
    /\ wave \in [Tabs -> {-1} \cup 0 .. Waves + 1]
    /\ timer \in [Tabs -> Nat \cup {None}]
    /\ click \in [Tabs -> [group : Groups(MaxTotal), at : Ticks] \cup {NoClick}]
    /\ count \in [Users -> Nat \cup {None}]
    /\ players \in [Users -> 0 .. GroupSize]
    /\ raced \subseteq Users

Init ==
    /\ now = 0
    /\ canChoose \in BOOLEAN
    /\ total = FirstTotal
    /\ announced = -1
    /\ skew \in IF canChoose THEN [Tabs -> Skews] ELSE {[t \in Tabs |-> 0]}
    /\ listening \in IF canChoose THEN SUBSET Tabs ELSE {{}}
    /\ mail = [t \in Tabs |-> <<>>]
    /\ known = [t \in Tabs |-> 0]
    /\ wave = [t \in Tabs |-> -1]
    /\ timer = [t \in Tabs |-> None]
    /\ click = [t \in Tabs |-> NoClick]
    /\ count = [u \in Users |-> None]
    /\ players = [u \in Users |-> 0]
    /\ raced = {}

-----------------------------------------------------------------------------
(* The API's clock and rules *)

Duration == SignupStart - PriorityStart

\* getRegistrationWindow
Window(n) ==
    IF n < PriorityStart THEN "future"
    ELSE IF n < SignupStart THEN "priority"
    ELSE IF n < SignupEnd THEN "registration"
    ELSE "past"

\* (faulty) the waves go on being counted after the priority sign-up
CurrentWaveUncapped(n) ==
    IF n < PriorityStart THEN -1
    ELSE ((n - PriorityStart) * Waves) \div Duration + 1

\* getCurrentWave: elapsed time divided by a wave's share of the duration.
CurrentWave(n) ==
    IF n < PriorityStart THEN -1
    ELSE IF n >= SignupStart THEN Waves + 1
    ELSE Min({((n - PriorityStart) * Waves) \div Duration + 1, Waves})

\* (faulty) the larger waves come last
StartingWaveLargeLast(g, n) ==
    LET base == n \div Waves
        cutoff == (Waves - (n % Waves)) * base
    IN  IF g < cutoff
        THEN g \div base + 1
        ELSE Waves - (n % Waves) + (g - cutoff) \div (base + 1) + 1

\* getStartingWave: the first waves take what cannot be divided evenly.
StartingWave(g, n) ==
    LET base == n \div Waves
        cutoff == (n % Waves) * (base + 1)
    IN  IF g < cutoff
        THEN g \div (base + 1) + 1
        ELSE (n % Waves) + (g - cutoff) \div base + 1

\* (faulty) the wave is not looked at
AdmittedAny(g) == Window(now) \in {"priority", "registration"}

\* validateRegistrationRequest: the API would take a request for group g now.
Admitted(g) ==
    \/ Window(now) = "registration"
    \/ Window(now) = "priority" /\ StartingWave(g, total) <= CurrentWave(now)

\* The clock of a tab's computer.
Clock(t) == now + skew[t]

Tick ==
    /\ now < LastTick
    /\ now' = now + 1
    /\ UNCHANGED <<canChoose, skew, listening, total, announced, mail, tabVars, openVars>>

\* append_teetime, by an administrator in Django
AppendTeetime ==
    /\ canChoose
    /\ total < MaxTotal
    /\ total' = total + 1
    /\ UNCHANGED <<clockVars, announced, mail, tabVars, openVars>>

\* The tabs with a page that is connected: none asks before the sign-up opens.
Connected == {t \in listening : known[t] > 0 /\ Clock(t) >= PriorityStart}

\* A snapshot is built and pushed, for a change of wave or of the tee sheet.
Announce ==
    /\ canChoose
    /\ \A t \in Connected : Len(mail[t]) < MaxMail
    /\ announced' = CurrentWave(now)
    /\ mail' = [t \in Tabs |->
         IF t \in Connected THEN Append(mail[t], CurrentWave(now)) ELSE mail[t]]
    /\ UNCHANGED <<clockVars, total, tabVars, openVars>>

\* checkWaveChange, every few seconds
AnnounceChange == announced # CurrentWave(now) /\ Announce

-----------------------------------------------------------------------------
(* A tab *)

\* calculateWave, of the groups of a tab that knows of n
CalculateWave(g, n) ==
    LET base == n \div Waves
        cutoff == (n % Waves) * (base + 1)
    IN  IF g < cutoff
        THEN g \div (base + 1) + 1
        ELSE (n % Waves) + (g - cutoff) \div base + 1

\* getWaveUnlockTimes: a Date holds whole milliseconds, fractions are dropped.
UnlockTimes == {PriorityStart + (i * Duration) \div Waves : i \in 0 .. Waves - 1}

\* (faulty) the timer is not set again after it has fired once
ComputeOnce(t) ==
    LET passed == {u \in UnlockTimes : u <= Clock(t)}
    IN  /\ wave' = [wave EXCEPT ![t] = Cardinality(passed)]
        /\ timer' = [timer EXCEPT ![t] =
             IF passed # {} THEN None ELSE Min(UnlockTimes) + Lag]

\* computeAndSchedule: counts the unlock times that have passed, and sets the
\* timer for the next one.
ComputeAndSchedule(t) ==
    LET passed == {u \in UnlockTimes : u <= Clock(t)}
    IN  /\ wave' = [wave EXCEPT ![t] = Cardinality(passed)]
        /\ timer' = [timer EXCEPT ![t] =
             IF passed = UnlockTimes THEN None ELSE Min(UnlockTimes \ passed) + Lag]

\* The event is fetched, on loading the page or again later.
LoadEvent(t) ==
    /\ canChoose
    /\ click[t] = NoClick
    /\ known' = [known EXCEPT ![t] = total]
    /\ ComputeAndSchedule(t)
    /\ UNCHANGED <<clockVars, total, announced, mail, click, openVars>>

WaveTimer(t) ==
    /\ timer[t] # None
    /\ timer[t] <= Clock(t)
    /\ ComputeAndSchedule(t)
    /\ UNCHANGED <<clockVars, total, announced, mail, known, click, openVars>>

\* handleSSEUpdate: the API's wave takes over, be it lower than the tab's own.
SSEUpdate(t) ==
    /\ mail[t] # <<>>
    /\ wave' = [wave EXCEPT ![t] = Head(mail[t])]
    /\ mail' = [mail EXCEPT ![t] = Tail(@)]
    /\ UNCHANGED <<clockVars, total, announced, known, timer, click, openVars>>

\* waveAvailable, of the groups createTeeTimes lists
Offered(t) == {g \in Groups(known[t]) : CalculateWave(g, known[t]) <= wave[t]}

Register(t, g) ==
    /\ click[t] = NoClick
    /\ g \in Offered(t)
    /\ click' = [click EXCEPT ![t] = [group |-> g, at |-> now]]
    /\ UNCHANGED <<clockVars, total, announced, mail, known, wave, timer, openVars>>

\* The request is answered: the API admits it, or refuses it.  (What becomes of
\* the slots is RegistrationFlow's subject.)
Reserve(t) ==
    /\ click[t] # NoClick
    /\ now > click[t].at
    /\ click' = [click EXCEPT ![t] = NoClick]
    /\ UNCHANGED <<clockVars, total, announced, mail, known, wave, timer, openVars>>

-----------------------------------------------------------------------------
(* An event without tee times *)

Players == MapThenSumSet(LAMBDA u : players[u], Users)

\* The transaction's snapshot: players in slots that are held or reserved.
CountPlayers(u) ==
    /\ ~canChoose
    /\ Window(now) \in {"priority", "registration"}
    /\ players[u] = 0
    /\ count[u] = None
    /\ count' = [count EXCEPT ![u] = Players]
    /\ UNCHANGED <<clockVars, total, announced, mail, tabVars, players, raced>>

\* (faulty) the newcomer is not counted
InsertOneMore(u) ==
    /\ count[u] # None
    /\ IF count[u] > Maximum
       THEN UNCHANGED <<players, raced>>
       ELSE /\ players' = [players EXCEPT ![u] = 1]
            /\ raced' = IF count[u] < Players THEN raced \cup {u} ELSE raced
    /\ count' = [count EXCEPT ![u] = None]
    /\ UNCHANGED <<clockVars, total, announced, mail, tabVars>>

\* EventFullError or SessionFullError, or else a registration with a slot for
\* the player and empty ones for the rest of the group.
InsertRegistration(u) ==
    /\ count[u] # None
    /\ IF count[u] + 1 > Maximum
       THEN UNCHANGED <<players, raced>>
       ELSE /\ players' = [players EXCEPT ![u] = 1]
            /\ raced' = IF count[u] < Players THEN raced \cup {u} ELSE raced
    /\ count' = [count EXCEPT ![u] = None]
    /\ UNCHANGED <<clockVars, total, announced, mail, tabVars>>

\* updateSlotPlayer or addPlayersToRegistration: neither counts the event.
FillSlot(u) ==
    /\ players[u] \in 1 .. GroupSize - 1
    /\ players' = [players EXCEPT ![u] = @ + 1]
    /\ UNCHANGED <<clockVars, total, announced, mail, tabVars, count, raced>>

\* The hold is cancelled or expires, or the club drops the group.
Leave(u) ==
    /\ players[u] > 0
    /\ players' = [players EXCEPT ![u] = 0]
    /\ raced' = raced \ {u}
    /\ UNCHANGED <<clockVars, total, announced, mail, tabVars, count>>

-----------------------------------------------------------------------------

Next ==
    \/ Tick
    \/ AppendTeetime
    \/ Announce
    \/ \E t \in Tabs :
        \/ LoadEvent(t) \/ WaveTimer(t) \/ SSEUpdate(t) \/ Reserve(t)
        \/ \E g \in Groups(MaxTotal) : Register(t, g)
    \/ \E u \in Users :
        \/ CountPlayers(u) \/ InsertRegistration(u)
        \/ FillSlot(u) \/ Leave(u)

\* Clocks run, timers fire, the stream delivers, changes of wave are announced.
Fairness ==
    /\ WF_vars(Tick)
    /\ WF_vars(AnnounceChange)
    /\ \A t \in Tabs : WF_vars(WaveTimer(t)) /\ WF_vars(SSEUpdate(t))

Spec == Init /\ [][Next]_vars /\ Fairness

-----------------------------------------------------------------------------
(* Properties *)

\* A tab with a correct clock never offers what the API then refuses: a request
\* for a group it offered is admitted when it arrives, however late, unless the
\* sign-up has ended.  The tab may have computed the wave itself, from times cut
\* to milliseconds and a number of groups that has grown since, or taken it from
\* a snapshot that is no longer current.
NoRefusedOffer ==
    \A t \in Tabs :
        /\ skew[t] <= 0
        /\ click[t] # NoClick
        /\ now > click[t].at
        /\ now < SignupEnd
        => Admitted(click[t].group)

\* The wave of a group as the club understands it: groups are dealt out to the
\* waves in order, one after the other, as evenly as possible.
FairWave(g, n) ==
    CHOOSE w \in 1 .. Waves :
        \E size \in [1 .. Waves -> Nat \cap {n \div Waves, n \div Waves + 1}] :
            /\ \A v \in 1 .. Waves - 1 : size[v] >= size[v + 1]
            /\ MapThenSumSet(LAMBDA v : size[v], 1 .. Waves) = n
            /\ MapThenSumSet(LAMBDA v : size[v], 1 .. w - 1) <= g
            /\ g < MapThenSumSet(LAMBDA v : size[v], 1 .. w)

\* While the priority sign-up lasts, the API admits a group from the very moment
\* the club promises, its wave's share of the time, and not earlier, however
\* many tee times have been appended by then.
WavesArePunctual ==
    Window(now) = "priority" => \A g \in Groups(total) :
        Admitted(g) <=>
            (now - PriorityStart) * Waves >= (FairWave(g, total) - 1) * Duration

\* What the API would take, every tab comes to offer by itself: its timer or
\* the snapshots get it there, and a snapshot that arrives after the timer has
\* fired, and takes the offer back, is followed by another.
EveryGroupOpens ==
    \A t \in Tabs : \A g \in Groups(MaxTotal) :
        (g < known[t] /\ Admitted(g)) ~> g \in Offered(t)

\* An event without tee times lets in no more registrations than it has places,
\* players added to earlier registrations included, except those whose count was
\* out of date when they were inserted.
OnlyRacesOverbook == Cardinality({u \in Users : players[u] > 0} \ raced) <= Maximum

\* "registration_maximum: total event capacity (for non-choosable events)"
FieldFits == canChoose \/ Players <= Maximum
=============================================================================
