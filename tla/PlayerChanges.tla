----------------------------- MODULE PlayerChanges -----------------------------
(***************************************************************************)
(* What the club and the members of a group do to a sign-up once it is     *)
(* paid: drop, replace, move and swap players (player.service.ts), while   *)
(* others go on claiming, paying and giving up slots.                      *)
(*                                                                         *)
(* Each change is two steps, as in the code: a request reads the rows it   *)
(* needs and validates them, and a transaction later writes the rows by    *)
(* id from what was read, without looking again.  Any number of requests   *)
(* overlap.  What a transaction does to rows that changed in between is    *)
(* part of the model; stale collects the golfers whose rows were written   *)
(* that way, and the properties say what holds of all the others.          *)
(***************************************************************************)
EXTENDS FiniteSets, Functions

CONSTANTS
    Golfers,
    Slots,          \* registration_slot rows of a choosable event
    TeeTime,        \* the tee time of each slot: a hole and a starting order
    Course,         \* the course of each slot
    Regs,           \* registration ids
    Asked,          \* the courses clients name when they sign up
    Fees,           \* registration_fee ids
    Clerks,         \* requests being handled: an admin's, or a group member's
    None            \* SQL NULL

ASSUME ChangesAssumption ==
    /\ DOMAIN TeeTime = Slots
    /\ DOMAIN Course = Slots
    /\ \A s, t \in Slots : TeeTime[s] = TeeTime[t] => Course[s] = Course[t]
    /\ None \notin Golfers \cup Slots \cup Regs \cup Range(Course) \cup Asked
    /\ Golfers \cap Slots = {}

VARIABLES
    slot,           \* slot[s]: status, registration_id, player_id
    made,           \* the registrations inserted so far
    course,         \* their course_id
    fee,            \* fee[f]: the slot it is attached to, and whose place it paid
    request,        \* what each request is about to write, and from which rows
    stale           \* the golfers a transaction dealt with from outdated rows,
                    \* and the paid slots that the group took one out of

vars == <<slot, made, course, fee, request, stale>>

Free == [status |-> "A", reg |-> None, golfer |-> None]

\* No row yet, or one detached from its slot, which nothing here reads again.
NoFee == [on |-> None, of |-> None]

NoRequest == [kind |-> "none", seen |-> <<>>, to |-> <<>>, by |-> None]

Rows == [status : {"A", "P", "R"}, reg : Regs \cup {None},
         golfer : Golfers \cup {None}]

TypeOK ==
    /\ slot \in [Slots -> Rows]
    /\ made \subseteq Regs
    /\ course \in [Regs -> Range(Course) \cup Asked \cup {None}]
    /\ fee \in [Fees -> [on : Slots \cup {None}, of : Golfers \cup {None}]]
    /\ DOMAIN request = Clerks
    /\ \A q \in Range(request) :
        /\ q.kind \in {"none", "drop", "replace", "move", "swap"}
        /\ DOMAIN q.seen \subseteq Slots
        /\ Range(q.seen) \subseteq Rows
        /\ DOMAIN q.to \cup Range(q.to) \subseteq DOMAIN q.seen
        /\ q.by \in Golfers \cup {None}
    /\ stale \subseteq Golfers \cup Slots

Init ==
    /\ slot = [s \in Slots |-> Free]
    /\ made = {}
    /\ course = [r \in Regs |-> None]
    /\ fee = [f \in Fees |-> NoFee]
    /\ request = [c \in Clerks |-> NoRequest]
    /\ stale = {}

-----------------------------------------------------------------------------
(* Queries *)

In(st) == {s \in Slots : slot[s].status = st}

SlotsOf(r) == {s \in Slots : slot[s].reg = r}

FeesOn(S) == {f \in Fees : fee[f].on \in S}

\* UNIQUE(event_id, player_id) on registration_slot.
OneSeatEach(rows) ==
    \A s, t \in Slots :
        rows[s].golfer = rows[t].golfer /\ rows[s].golfer # None => s = t

SignedUp(g) == \E s \in Slots : slot[s].golfer = g

\* The golfers in some rows.
Sitting(rows) == {row.golfer : row \in Range(rows)} \ {None}

-----------------------------------------------------------------------------
(* Sign-up: other people's transactions on the same rows *)

\* The unique key lets g take a seat, and lets anybody leave one.
MaySit(g) == g # None => ~SignedUp(g)

\* A registration is inserted and takes the slots, if all are still free; who
\* signs up is put in one of them and says which course k they are on, which
\* nobody compares with the slots.  An administrator's reserveSlots seats nobody
\* and gives no course.
Claim(S, own, g, k) ==
    \E r \in Regs \ made :
        /\ k = None <=> g = None
        /\ S \subseteq In("A")
        /\ MaySit(g)
        /\ made' = made \cup {r}
        /\ course' = [course EXCEPT ![r] = k]
        /\ slot' = [s \in Slots |->
             IF s \in S
             THEN [status |-> "P", reg |-> r, golfer |-> IF s = own THEN g ELSE None]
             ELSE slot[s]]
        /\ UNCHANGED <<fee, request, stale>>

\* Paid for, and nobody sits there.
Emptied(row) == row.status = "R" /\ row.golfer = None

\* A paid slot in which an outdated row has left its trace.
Traced(s) == s \in In("R") /\ {s, slot[s].golfer} \cap stale # {}

\* A member of the group puts a golfer in one of its slots, or takes one out:
\* of a slot that is held or, as nobody looks at the status, paid for.  What was
\* paid for it is then for whoever sits there, as in a replacement.
Seat(s, g) ==
    /\ slot[s].reg # None
    /\ \E t \in SlotsOf(slot[s].reg) : slot[t].golfer # None
    /\ MaySit(g)
    /\ slot' = [slot EXCEPT ![s].golfer = g]
    /\ fee' = [f \in Fees |-> IF f \in FeesOn({s} \cap In("R"))
                              THEN [fee[f] EXCEPT !.of = g] ELSE fee[f]]
    /\ stale' = IF Traced(s) THEN (stale \ {s}) \cup {IF g = None THEN s ELSE g} ELSE stale
    /\ UNCHANGED <<made, course, request>>

\* The group pays: one fee for each golfer, the empty slots are given back.
\* (Payment, Stripe and webhook are RegistrationFlow's subject.)
Pay(r) ==
    LET mine == SlotsOf(r) \cap In("P")
        taken == {s \in mine : slot[s].golfer # None}
    IN  /\ taken # {}
        /\ \E new \in Injection(taken, {f \in Fees : fee[f] = NoFee}) :
             fee' = [f \in Fees |->
                 IF f \in Range(new)
                 THEN LET s == CHOOSE t \in taken : new[t] = f
                      IN  [on |-> s, of |-> slot[s].golfer]
                 ELSE fee[f]]
        /\ slot' = [s \in Slots |->
             IF s \in taken THEN [slot[s] EXCEPT !.status = "R"]
             ELSE IF s \in mine THEN Free ELSE slot[s]]
        /\ UNCHANGED <<made, course, request, stale>>

\* (faulty) every slot of the registration is released
GiveUpAll(r) ==
    /\ SlotsOf(r) # {}
    /\ slot' = [s \in Slots |-> IF s \in SlotsOf(r) THEN Free ELSE slot[s]]
    /\ UNCHANGED <<made, course, fee, request, stale>>

\* A hold is cancelled or expires.
GiveUp(r) ==
    LET mine == SlotsOf(r) \cap In("P")
    IN  /\ mine # {}
        /\ slot' = [s \in Slots |-> IF s \in mine THEN Free ELSE slot[s]]
        /\ UNCHANGED <<made, course, fee, request, stale>>

-----------------------------------------------------------------------------
(* Requests: read and validate *)

Ask(c, kind, S, to, by) ==
    /\ request[c].kind = "none"
    /\ request' = [request EXCEPT ![c] =
         [kind |-> kind, seen |-> [s \in S |-> slot[s]], to |-> to, by |-> by]]
    /\ UNCHANGED <<slot, made, course, fee, stale>>

\* The slots belong to one registration, are paid for and have players.
PaidGroup(S) ==
    /\ S # {}
    /\ S \subseteq In("R")
    /\ \A s \in S : slot[s].golfer # None
    /\ \A s, t \in S : slot[s].reg = slot[t].reg

AskDrop(c, S) == PaidGroup(S) /\ Ask(c, "drop", S, <<>>, None)

AskReplace(c, s, g) ==
    /\ slot[s].status = "R"
    /\ slot[s].golfer # None
    /\ ~SignedUp(g)
    /\ Ask(c, "replace", {s}, <<>>, g)

\* Free slots of one tee time are picked, one for each player.
AskMove(c, S, tee) ==
    /\ PaidGroup(S)
    /\ \E to \in Injection(S, {s \in In("A") : TeeTime[s] = tee}) :
         Ask(c, "move", S \cup Range(to), to, None)

AskSwap(c, s, t) ==
    /\ {s, t} \subseteq In("R")
    /\ slot[s].golfer # None /\ slot[t].golfer # None
    /\ slot[s].golfer # slot[t].golfer
    /\ slot[s].reg # slot[t].reg
    /\ Ask(c, "swap", {s, t}, [x \in {s, t} |-> IF x = s THEN t ELSE s], None)

-----------------------------------------------------------------------------
(* Requests: the transaction *)

\* The golfers a transaction deals with from rows that are no longer as read.
Outdated(q) ==
    LET S == DOMAIN q.seen
        now == [s \in S |-> slot[s]]
        touched == Sitting(q.seen) \cup Sitting(now) \cup {fee[f].of : f \in FeesOn(S)}
    IN  IF now # q.seen \/ touched \cap stale # {}
        THEN (touched \cup {q.by}) \ {None} ELSE {}

\* A fee on an empty place is for whoever a request seats there.
Filled(fees, rows) ==
    [f \in Fees |-> IF fees[f].on # None /\ fees[f].of = None
                    THEN [fees[f] EXCEPT !.of = rows[fees[f].on].golfer] ELSE fees[f]]

\* Commit, unless the unique key on the golfer refuses the rows.  opened is the
\* registration the transaction inserts, or none, and there its course.
Commit(c, rows, fees, opened, there) ==
    /\ IF OneSeatEach(rows)
       THEN /\ slot' = rows
            /\ fee' = Filled(fees, rows)
            /\ made' = made \cup opened
            /\ course' = [r \in Regs |-> IF r \in opened THEN there ELSE course[r]]
            /\ stale' = (stale \cup Outdated(request[c]))
                          \ {s \in Slots : ~Emptied(rows[s])}
       ELSE UNCHANGED <<slot, fee, made, course, stale>>
    /\ request' = [request EXCEPT ![c] = NoRequest]

\* (faulty) a dropped slot waits for a payment instead of being free
DropAwaiting(c) ==
    LET S == DOMAIN request[c].seen
    IN  /\ request[c].kind = "drop"
        /\ Commit(c,
             [s \in Slots |-> IF s \in S THEN [Free EXCEPT !.status = "X"] ELSE slot[s]],
             [f \in Fees |-> IF f \in FeesOn(S) THEN NoFee ELSE fee[f]],
             {}, None)

\* dropPlayers: the fees are detached, the slots are free again.
Drop(c) ==
    LET S == DOMAIN request[c].seen
    IN  /\ request[c].kind = "drop"
        /\ Commit(c,
             [s \in Slots |-> IF s \in S THEN Free ELSE slot[s]],
             [f \in Fees |-> IF f \in FeesOn(S) THEN NoFee ELSE fee[f]],
             {}, None)

\* replacePlayer: only player_id is written; the newcomer takes over the place
\* and what was paid for it.
Replace(c) ==
    LET q == request[c]
        S == DOMAIN q.seen
    IN  /\ q.kind = "replace"
        /\ Commit(c,
             [s \in Slots |-> IF s \in S THEN [slot[s] EXCEPT !.golfer = q.by]
                              ELSE slot[s]],
             [f \in Fees |-> IF f \in FeesOn(S) THEN [fee[f] EXCEPT !.of = q.by]
                             ELSE fee[f]],
             {}, None)

\* Fees follow the slots along to.
Follow(to) ==
    [f \in Fees |-> IF fee[f].on \in DOMAIN to
                    THEN [fee[f] EXCEPT !.on = to[fee[f].on]] ELSE fee[f]]

\* The rows after a move to registration r: the sources are freed, then the
\* destinations are written from what was read, whatever they hold by now.
Moved(q, r) ==
    [s \in Slots |->
        IF s \in Range(q.to)
        THEN [status |-> "R", reg |-> r,
              golfer |-> q.seen[CHOOSE x \in DOMAIN q.to : q.to[x] = s].golfer]
        ELSE IF s \in DOMAIN q.to THEN Free ELSE slot[s]]

\* (faulty) the registration goes along to another course
MoveSameReg(c) ==
    LET q == request[c]
        from == CHOOSE s \in DOMAIN q.to : TRUE
    IN  /\ q.kind = "move"
        /\ Commit(c, Moved(q, q.seen[from].reg), Follow(q.to), {}, None)

\* (faulty) the fees stay with the slots the players have left
MoveKeepingFees(c) ==
    LET q == request[c]
        from == CHOOSE s \in DOMAIN q.to : TRUE
        home == q.seen[from].reg
    IN  /\ q.kind = "move"
        /\ course[home] = Course[q.to[from]]
        /\ Commit(c, Moved(q, home), fee, {}, None)

\* movePlayers: to another course under a registration of its own.
Move(c) ==
    LET q == request[c]
        from == CHOOSE s \in DOMAIN q.to : TRUE
        home == q.seen[from].reg
        there == Course[q.to[from]]
    IN  /\ q.kind = "move"
        /\ IF course[home] = there
           THEN Commit(c, Moved(q, home), Follow(q.to), {}, None)
           ELSE \E r \in Regs \ made :
                  Commit(c, Moved(q, r), Follow(q.to), {r}, there)

\* The destinations are written one by one: a player who sits somewhere else by
\* now may meet the unique key before that seat is overwritten.
MoveFails(c) ==
    LET q == request[c]
    IN  /\ q.kind = "move"
        /\ \E s \in DOMAIN q.to, t \in Slots \ DOMAIN q.to :
             t # q.to[s] /\ slot[t].golfer = q.seen[s].golfer
        /\ request' = [request EXCEPT ![c] = NoRequest]
        /\ UNCHANGED <<slot, made, course, fee, stale>>

\* (faulty) the fees are not reattached to the swapped slots
SwapSeatsOnly(c) ==
    LET q == request[c]
    IN  /\ q.kind = "swap"
        /\ Commit(c,
             [s \in Slots |-> IF s \in DOMAIN q.to
                              THEN [slot[s] EXCEPT !.golfer = q.seen[q.to[s]].golfer]
                              ELSE slot[s]],
             fee, {}, None)

\* swapPlayers: players and fees change places, registrations stay.
Swap(c) ==
    LET q == request[c]
    IN  /\ q.kind = "swap"
        /\ Commit(c,
             [s \in Slots |-> IF s \in DOMAIN q.to
                              THEN [slot[s] EXCEPT !.golfer = q.seen[q.to[s]].golfer]
                              ELSE slot[s]],
             Follow(q.to), {}, None)

-----------------------------------------------------------------------------

SignUp ==
    \/ \E S \in SUBSET Slots, g \in Golfers \cup {None}, k \in Asked \cup {None} :
         \E own \in S : Claim(S, own, g, k)
    \/ \E s \in Slots, g \in Golfers \cup {None} : Seat(s, g)
    \/ \E r \in Regs : Pay(r) \/ GiveUp(r)

Read(c) ==
    \/ \E S \in SUBSET Slots : AskDrop(c, S)
    \/ \E s \in Slots, g \in Golfers : AskReplace(c, s, g)
    \/ \E S \in SUBSET Slots, tee \in Range(TeeTime) : AskMove(c, S, tee)
    \/ \E s, t \in Slots : AskSwap(c, s, t)

Write(c) == Drop(c) \/ Replace(c) \/ Move(c) \/ MoveFails(c) \/ Swap(c)

Next == SignUp \/ \E c \in Clerks : Read(c) \/ Write(c)

Spec == Init /\ [][Next]_vars

-----------------------------------------------------------------------------
(* Properties *)

\* A fee that is attached to a slot is for whoever sits there, nobody included:
\* drop, move and swap carry fees and players together, across registrations and
\* courses, whatever sign-ups and edits interleave.  Only a request that wrote
\* outdated rows can part them.
FeesFollowGolfers ==
    \A f \in Fees :
        fee[f].on # None /\ fee[f].of \notin stale =>
            slot[fee[f].on].golfer = fee[f].of

\* A reserved slot has a fee on it, while its golfer is there and after the group
\* has taken them out: no sequence of changes gives a place to someone nobody
\* paid for.
SeatsArePaid ==
    \A s \in In("R") \ stale :
        slot[s].golfer \notin stale => \E f \in Fees : fee[f].on = s

OnCourse(r) == \A s \in SlotsOf(r) : course[r] = Course[s]

\* A registration whose slots are on its course, as confirmations and start times
\* assume, stays so, and a request opens no other: movePlayers gives who goes to
\* another course a registration there.  Overlapping requests included; what a
\* sign-up claims is on the course its client names.
KeepsCourse ==
    [][\A r \in Regs :
         (r \in made \/ request' # request) /\ OnCourse(r) => OnCourse(r)']_vars

Reserved(g) == \E s \in In("R") : slot[s].golfer = g

\* The golfers a request takes out of their slots.
Named(q) == IF q.kind \in {"drop", "replace"} THEN Sitting(q.seen) ELSE {}

\* The group itself changes who sits in the paid slot s.
EditedByGroup(s) ==
    /\ request' = request
    /\ slot' = [slot EXCEPT ![s].golfer = slot'[s].golfer]

\* A golfer with a paid place loses it only to a request to drop or replace
\* that very golfer, or to an edit of that very slot by the group, never as a side
\* effect of somebody else's move, swap, drop, claim or expiry.
SeatsKept ==
    [][\A g \in Golfers \ stale' :
         Reserved(g) =>
             \/ Reserved(g)'
             \/ \E c \in Clerks : request'[c].kind = "none" /\ g \in Named(request[c])
             \/ \E s \in In("R") : slot[s].golfer = g /\ EditedByGroup(s)]_vars
=============================================================================
