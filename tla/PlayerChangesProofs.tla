-------------------------- MODULE PlayerChangesProofs ---------------------------
(* What PlayerChanges keeps true for any number of golfers, slots, courses,    *)
(* registrations, fees and overlapping requests.                               *)
EXTENDS PlayerChanges, TLAPS

(* The inductive invariant, in parts. *)

\* What a request knows when it writes: the players it names were in reserved
\* slots, a move goes to free slots of one course, one for each player, and a
\* swap goes there and back.
RequestInv ==
    \A c \in Clerks : LET q == request[c] IN
        /\ q.kind \in {"replace", "swap"} =>
             \A s \in DOMAIN q.seen :
               q.seen[s].status = "R" /\ q.seen[s].golfer # None
        /\ q.kind = "replace" => q.by \in Golfers
        /\ q.kind = "swap" =>
             /\ DOMAIN q.to = DOMAIN q.seen
             /\ \A s \in DOMAIN q.to : q.to[s] \in DOMAIN q.to /\ q.to[q.to[s]] = s
        /\ q.kind = "move" =>
             /\ DOMAIN q.to # {}
             /\ \A s \in DOMAIN q.to :
                  /\ q.seen[s].status = "R" /\ q.seen[s].golfer # None
                  /\ q.seen[q.to[s]].status = "A"
             /\ \A s, t \in DOMAIN q.to :
                  Course[q.to[s]] = Course[q.to[t]] /\ (q.to[s] = q.to[t] => s = t)

\* A fee that is attached is on a reserved slot, for whoever sits there.
FeeInv ==
    \A f \in Fees : fee[f].on # None /\ fee[f].of \notin stale =>
        slot[fee[f].on].status = "R" /\ slot[fee[f].on].golfer = fee[f].of

\* The slots among stale are paid for and empty.
StaleInv == \A s \in Slots \cap stale : Emptied(slot[s])

ChangesInv ==
    /\ TypeOK
    /\ RequestInv
    /\ FeeInv
    /\ StaleInv
    /\ SeatsArePaid

LEMMA FeesAreWithGolfers == FeeInv /\ TypeOK => FeesFollowGolfers
  BY DEF FeeInv, FeesFollowGolfers

-----------------------------------------------------------------------------
(* Rows and records *)

\* How the actions write a row, under names of their own.
WithGolfer(r, g) == [r EXCEPT !.golfer = g]
HeldBy(reg, g) == [status |-> "P", reg |-> reg, golfer |-> g]
AsReserved(r) == [r EXCEPT !.status = "R"]

LEMMA GolferWritten ==
    ASSUME NEW row \in Rows, NEW g \in Golfers \cup {None}
    PROVE  LET new == WithGolfer(row, g)
           IN  /\ new \in Rows
               /\ new.golfer = g /\ new.status = row.status /\ new.reg = row.reg
  BY DEF Rows, WithGolfer

LEMMA HoldWritten ==
    ASSUME NEW r \in Regs, NEW g \in Golfers \cup {None}
    PROVE  /\ HeldBy(r, g) \in Rows
           /\ HeldBy(r, g).status = "P" /\ HeldBy(r, g).reg = r
  BY DEF Rows, HeldBy

LEMMA ReserveWritten ==
    ASSUME NEW row \in Rows
    PROVE  LET new == AsReserved(row)
           IN  /\ new \in Rows
               /\ new.golfer = row.golfer /\ new.status = "R" /\ new.reg = row.reg
  BY DEF Rows, AsReserved

LEMMA FreeRow ==
    /\ Free \in Rows
    /\ Free.status = "A" /\ Free.reg = None /\ Free.golfer = None
  BY DEF Free, Rows

\* A fee that is paid for the golfer in a slot.
Paid(s, g) == [on |-> s, of |-> g]

LEMMA FeePaid ==
    ASSUME NEW s \in Slots, NEW g \in Golfers
    PROVE  /\ Paid(s, g) \in [on : Slots \cup {None}, of : Golfers \cup {None}]
           /\ Paid(s, g).on = s /\ Paid(s, g).of = g
  BY DEF Paid

MovedTo(x, s) == [x EXCEPT !.on = s]
TakenBy(x, g) == [x EXCEPT !.of = g]

LEMMA FeeMoved ==
    ASSUME NEW x \in [on : Slots \cup {None}, of : Golfers \cup {None}], NEW s \in Slots
    PROVE  /\ MovedTo(x, s) \in [on : Slots \cup {None}, of : Golfers \cup {None}]
           /\ MovedTo(x, s).on = s /\ MovedTo(x, s).of = x.of
  BY DEF MovedTo

LEMMA NoFeeThere ==
    /\ NoFee \in [on : Slots \cup {None}, of : Golfers \cup {None}]
    /\ NoFee.on = None /\ NoFee.of = None
  BY DEF NoFee

LEMMA FeeTaken ==
    ASSUME NEW x \in [on : Slots \cup {None}, of : Golfers \cup {None}],
           NEW g \in Golfers \cup {None}
    PROVE  /\ TakenBy(x, g) \in [on : Slots \cup {None}, of : Golfers \cup {None}]
           /\ TakenBy(x, g).on = x.on /\ TakenBy(x, g).of = g
  BY DEF TakenBy

-----------------------------------------------------------------------------

LEMMA InitChangesInv == Init => ChangesInv
  <1> SUFFICES ASSUME Init PROVE ChangesInv
    OBVIOUS
  <1>1. TypeOK
    BY FreeRow DEF Init, TypeOK, NoFee, NoRequest, Range
  <1>2. RequestInv
    BY DEF Init, RequestInv, NoRequest
  <1>3. FeeInv /\ StaleInv /\ SeatsArePaid
    BY FreeRow DEF Init, FeeInv, StaleInv, SeatsArePaid, In, NoFee
  <1> QED  BY <1>1, <1>2, <1>3 DEF ChangesInv

-----------------------------------------------------------------------------
(* Sign-up *)

\* A step that takes no golfer's reserved seat away, except by request.
KeepsSeats ==
    \A g \in Golfers \ stale' :
        Reserved(g) =>
            \/ Reserved(g)'
            \/ \E c \in Clerks : request'[c].kind = "none" /\ g \in Named(request[c])
            \/ \E s \in In("R") : slot[s].golfer = g /\ EditedByGroup(s)

\* Sign-ups leave requests, and golfers in reserved slots, alone.
LEMMA ClaimStep ==
    ASSUME ChangesInv, NEW S \in SUBSET Slots, NEW s \in S,
           NEW g \in Golfers \cup {None}, NEW k \in Asked \cup {None}, Claim(S, s, g, k)
    PROVE  ChangesInv' /\ \A t \in In("R") : slot'[t] = slot[t]
  <1> PICK r \in Regs \ made :
         /\ S \subseteq In("A")
         /\ made' = made \cup {r}
         /\ course' = [course EXCEPT ![r] = k]
         /\ slot' = [t \in Slots |->
              IF t \in S THEN HeldBy(r, IF t = s THEN g ELSE None) ELSE slot[t]]
         /\ UNCHANGED <<fee, request, stale>>
    BY DEF Claim, HeldBy
  <1> USE DEF ChangesInv
  <1>1. \A t \in Slots : slot[t] \in Rows
    BY DEF TypeOK
  <1>2. /\ slot' \in [Slots -> Rows]
        /\ \A t \in S : slot'[t].status = "P"
        /\ \A t \in Slots \ S : slot'[t] = slot[t]
    <2>1. \A t \in Slots : (IF t = s THEN g ELSE None) \in Golfers \cup {None}
      OBVIOUS
    <2> QED  BY <1>1, <2>1, HoldWritten
  <1>3. TypeOK' /\ RequestInv'
    BY <1>2 DEF TypeOK, RequestInv
  <1>4. \A t \in In("R") : t \notin S /\ slot'[t] = slot[t]
    BY <1>2 DEF In
  <1>5. FeeInv'
    BY <1>4 DEF FeeInv, TypeOK, In
  <1>6. StaleInv'
    BY <1>4 DEF StaleInv, Emptied, In
  <1>7. SeatsArePaid'
    BY SMTT(20), <1>2, <1>4 DEF SeatsArePaid, In
  <1> QED  BY <1>3, <1>4, <1>5, <1>6, <1>7

\* The group edits one of its slots, a paid one perhaps: the fees on it are for
\* whoever sits there then.
LEMMA SeatStep ==
    ASSUME ChangesInv, NEW s \in Slots, NEW g \in Golfers \cup {None}, Seat(s, g)
    PROVE  ChangesInv' /\ KeepsSeats
  <1>0. /\ slot' = [slot EXCEPT ![s] = WithGolfer(slot[s], g)]
        /\ fee' = [f \in Fees |-> IF f \in FeesOn({s} \cap In("R"))
                                  THEN TakenBy(fee[f], g) ELSE fee[f]]
        /\ stale' = IF Traced(s) THEN (stale \ {s}) \cup {IF g = None THEN s ELSE g}
                    ELSE stale
        /\ UNCHANGED <<made, course, request>>
    BY DEF Seat, WithGolfer, TakenBy
  <1> USE DEF ChangesInv
  <1>1. slot[s] \in Rows /\ \A f \in Fees : fee[f] \in [on : Slots \cup {None},
                                                     of : Golfers \cup {None}]
    BY DEF TypeOK
  <1>2. /\ slot' \in [Slots -> Rows]
        /\ slot'[s].status = slot[s].status /\ slot'[s].golfer = g
        /\ \A t \in Slots \ {s} : slot'[t] = slot[t]
    BY <1>0, <1>1, GolferWritten DEF TypeOK
  <1>3. /\ fee' \in [Fees -> [on : Slots \cup {None}, of : Golfers \cup {None}]]
        /\ \A f \in Fees :
             /\ fee'[f].on = fee[f].on
             /\ fee[f].on = s /\ s \in In("R") => fee'[f].of = g
             /\ fee[f].on # s \/ s \notin In("R") => fee'[f] = fee[f]
    BY <1>0, <1>1, FeeTaken DEF FeesOn
  <1>4. /\ stale' \subseteq Golfers \cup Slots
        /\ stale \ {s} \subseteq stale'
        /\ \A h \in stale' : h \in stale \/ h \in Golfers \/ (h = s /\ g = None)
    BY <1>0 DEF TypeOK
  <1>5. TypeOK' /\ RequestInv'
    <2>1. UNCHANGED <<made, course, request>>
      BY <1>0
    <2> QED  BY <1>2, <1>3, <1>4, <2>1 DEF TypeOK, RequestInv
  <1>6. s \notin Golfers \cup {None}
    BY ChangesAssumption
  <1>7. FeeInv'
    <2> SUFFICES ASSUME NEW f \in Fees, fee'[f].on # None, fee'[f].of \notin stale'
                 PROVE  /\ slot'[fee'[f].on].status = "R"
                        /\ slot'[fee'[f].on].golfer = fee'[f].of
      BY DEF FeeInv
    <2>1. CASE fee[f].on = s /\ s \in In("R")
      BY <2>1, <1>2, <1>3 DEF In
    <2>2. CASE fee[f].on # s \/ s \notin In("R")
      <3>1. fee'[f] = fee[f] /\ fee[f].of \notin stale /\ fee[f].on \in Slots
        BY <2>2, <1>1, <1>3, <1>4, <1>6
      <3>2. slot[fee[f].on].status = "R" /\ slot[fee[f].on].golfer = fee[f].of
        BY <3>1 DEF FeeInv
      <3>3. fee[f].on # s
        BY <2>2, <3>2 DEF In
      <3> QED  BY <3>1, <3>2, <3>3, <1>2
    <2> QED  BY <2>1, <2>2
  <1>8. StaleInv'
    <2> SUFFICES ASSUME NEW t \in Slots, t \in stale' PROVE Emptied(slot'[t])
      BY DEF StaleInv
    <2>1. CASE t = s
      <3>1. s \in stale => Traced(s)
        BY DEF StaleInv, Emptied, Traced, In
      <3>2. Traced(s) /\ g = None
        BY <2>1, <3>1, <1>0, <1>6
      <3> QED  BY <2>1, <3>2, <1>2 DEF Traced, Emptied, In
    <2>2. CASE t # s
      <3>1. t \in stale
        BY <2>2, <1>4, ChangesAssumption
      <3> QED  BY <2>2, <3>1, <1>2 DEF StaleInv
    <2> QED  BY <2>1, <2>2
  <1>9. SeatsArePaid'
    <2> SUFFICES ASSUME NEW t \in Slots, slot'[t].status = "R", t \notin stale',
                        slot'[t].golfer \notin stale'
                 PROVE  \E f \in Fees : fee[f].on = t
      BY <1>3 DEF SeatsArePaid, In
    <2>1. slot[t].status = "R"
      BY <1>2
    <2>2. CASE t = s
      <3>1. ~Traced(s)
        BY <2>2, <1>0, <1>2
      <3> QED  BY <2>1, <2>2, <3>1 DEF SeatsArePaid, In, Traced
    <2>3. CASE t # s
      <3>1. t \notin stale /\ slot[t].golfer \notin stale
        <4>1. slot[t].golfer # s
          BY <1>6 DEF TypeOK, Rows
        <4> QED  BY <2>3, <4>1, <1>2, <1>4
      <3> QED  BY <2>1, <3>1 DEF SeatsArePaid, In
    <2> QED  BY <2>2, <2>3
  <1>10. KeepsSeats
    <2> SUFFICES ASSUME NEW h \in Golfers, NEW t \in In("R"), slot[t].golfer = h
                 PROVE  Reserved(h)' \/ (slot[s].golfer = h /\ s \in In("R")
                                          /\ EditedByGroup(s))
      BY DEF KeepsSeats, Reserved
    <2>1. CASE t = s
      <3>1. slot' = [slot EXCEPT ![s].golfer = slot'[s].golfer]
        BY <1>0, <1>2 DEF WithGolfer, TypeOK
      <3> QED  BY <2>1, <3>1, <1>0 DEF EditedByGroup
    <2>2. CASE t # s
      BY <2>2, <1>2 DEF Reserved, In
    <2> QED  BY <2>1, <2>2
  <1> QED  BY <1>5, <1>7, <1>8, <1>9, <1>10

LEMMA GiveUpStep ==
    ASSUME ChangesInv, NEW r \in Regs, GiveUp(r)
    PROVE  ChangesInv' /\ \A t \in In("R") : slot'[t] = slot[t]
  <1> DEFINE mine == SlotsOf(r) \cap In("P")
  <1> USE DEF ChangesInv, GiveUp
  <1>1. /\ slot' \in [Slots -> Rows]
        /\ \A t \in mine : slot'[t] = Free
        /\ \A t \in Slots \ mine : slot'[t] = slot[t]
    BY FreeRow DEF TypeOK, SlotsOf
  <1>2. TypeOK' /\ RequestInv'
    BY <1>1 DEF TypeOK, RequestInv
  <1>3. StaleInv'
    BY <1>1 DEF StaleInv, Emptied, In
  <1>4. \A t \in In("R") : t \notin mine /\ slot'[t] = slot[t]
    BY <1>1 DEF In
  <1>5. FeeInv'
    BY <1>4 DEF FeeInv, TypeOK, In
  <1>6. SeatsArePaid'
    BY <1>1, <1>4, FreeRow DEF SeatsArePaid, In
  <1> QED  BY <1>2, <1>3, <1>4, <1>5, <1>6

LEMMA PayStep ==
    ASSUME ChangesInv, NEW r \in Regs, Pay(r)
    PROVE  ChangesInv' /\ \A t \in In("R") : slot'[t] = slot[t]
  <1> DEFINE mine == SlotsOf(r) \cap In("P")
             taken == {s \in mine : slot[s].golfer # None}
  <1>a. PICK new \in Injection(taken, {f \in Fees : fee[f] = NoFee}) :
         fee' = [f \in Fees |->
             IF f \in Range(new)
             THEN LET s == CHOOSE t \in taken : new[t] = f
                  IN  [on |-> s, of |-> slot[s].golfer]
             ELSE fee[f]]
    BY DEF Pay
  <1>0. /\ slot' = [s \in Slots |->
             IF s \in taken THEN AsReserved(slot[s])
             ELSE IF s \in mine THEN Free ELSE slot[s]]
        /\ UNCHANGED <<made, course, request, stale>>
    BY DEF Pay, AsReserved
  <1> USE DEF ChangesInv
  <1>1. \A t \in Slots : slot[t] \in Rows
    BY DEF TypeOK
  <1>2. /\ slot' \in [Slots -> Rows]
        /\ \A t \in taken : /\ slot'[t].status = "R" /\ slot'[t].reg = slot[t].reg
                            /\ slot'[t].golfer = slot[t].golfer
        /\ \A t \in mine \ taken : slot'[t] = Free
        /\ \A t \in Slots \ mine : slot'[t] = slot[t]
    BY <1>0, <1>1, FreeRow, ReserveWritten DEF SlotsOf
  <1>3. /\ \A t \in taken : new[t] \in Fees /\ fee[new[t]] = NoFee
        /\ \A t, u \in taken : new[t] = new[u] => t = u
        /\ DOMAIN new = taken
    BY DEF Injection, IsInjective
  <1>4. \A t \in taken : fee'[new[t]] = Paid(t, slot[t].golfer)
    <2> TAKE t \in taken
    <2>1. new[t] \in Range(new)
      BY <1>3 DEF Range
    <2>2. (CHOOSE u \in taken : new[u] = new[t]) = t
      BY <1>3
    <2> QED  BY <1>a, <1>3, <2>1, <2>2 DEF Paid
  <1>5. \A f \in Fees : \/ \E t \in taken : f = new[t]
                        \/ f \notin Range(new) /\ fee'[f] = fee[f]
    BY <1>a, <1>3 DEF Range
  <1>6. \A t \in taken : t \in Slots /\ slot[t].golfer \in Golfers
    BY <1>1 DEF SlotsOf, Rows
  <1>7. fee' \in [Fees -> [on : Slots \cup {None}, of : Golfers \cup {None}]]
    <2> SUFFICES ASSUME NEW f \in Fees
                 PROVE  fee'[f] \in [on : Slots \cup {None}, of : Golfers \cup {None}]
      BY <1>a
    <2>1. CASE \E t \in taken : f = new[t]
      BY <2>1, <1>4, <1>6, FeePaid
    <2>2. CASE fee'[f] = fee[f]
      BY <2>2 DEF TypeOK
    <2> QED  BY <2>1, <2>2, <1>5
  <1>8. TypeOK' /\ RequestInv'
    BY <1>0, <1>2, <1>7 DEF TypeOK, RequestInv
  <1>9. StaleInv'
    BY <1>0, <1>2 DEF StaleInv, Emptied, In
  <1>10. \A t \in In("R") : t \notin mine /\ slot'[t] = slot[t]
    BY <1>2 DEF In
  <1>11. FeeInv'
    <2> SUFFICES ASSUME NEW f \in Fees, fee'[f].on # None, fee'[f].of \notin stale'
                 PROVE  /\ slot'[fee'[f].on].status = "R"
                        /\ slot'[fee'[f].on].golfer = fee'[f].of
      BY DEF FeeInv
    <2>1. CASE \E t \in taken : f = new[t]
      <3> PICK t \in taken : f = new[t]
        BY <2>1
      <3>1. fee'[f].on = t /\ fee'[f].of = slot[t].golfer
        BY <1>4, <1>6, FeePaid
      <3> QED  BY <3>1, <1>2
    <2>2. CASE fee'[f] = fee[f]
      BY <2>2, <1>0, <1>10 DEF FeeInv, TypeOK, In
    <2> QED  BY <2>1, <2>2, <1>5
  <1>12. SeatsArePaid'
    <2> SUFFICES ASSUME NEW s \in Slots, slot'[s].status = "R",
                        s \notin stale', slot'[s].golfer \notin stale'
                 PROVE  \E f \in Fees : fee'[f].on = s
      BY DEF SeatsArePaid, In
    <2>1. CASE s \in taken
      BY <2>1, <1>3, <1>4, <1>6, FeePaid
    <2>2. CASE s \notin taken
      <3>1. slot'[s] = slot[s]
        BY <2>2, <1>2, FreeRow
      <3>2. PICK f \in Fees : fee[f].on = s
        BY <3>1, <1>0 DEF SeatsArePaid, In
      <3>3. fee'[f] = fee[f]
        BY <3>2, <1>3, <1>5, ChangesAssumption DEF NoFee
      <3> QED  BY <3>2, <3>3
    <2> QED  BY <2>1, <2>2
  <1> QED  BY <1>8, <1>9, <1>10, <1>11, <1>12

-----------------------------------------------------------------------------
(* Requests *)

\* A well-typed request, and what RequestInv says of one.
Typed(q) ==
    /\ q.kind \in {"none", "drop", "replace", "move", "swap"}
    /\ DOMAIN q.seen \subseteq Slots
    /\ Range(q.seen) \subseteq Rows
    /\ DOMAIN q.to \cup Range(q.to) \subseteq DOMAIN q.seen
    /\ q.by \in Golfers \cup {None}

Sound(q) ==
    /\ q.kind \in {"replace", "swap"} =>
         \A s \in DOMAIN q.seen : q.seen[s].status = "R" /\ q.seen[s].golfer # None
    /\ q.kind = "replace" => q.by \in Golfers
    /\ q.kind = "swap" =>
         /\ DOMAIN q.to = DOMAIN q.seen
         /\ \A s \in DOMAIN q.to : q.to[s] \in DOMAIN q.to /\ q.to[q.to[s]] = s
    /\ q.kind = "move" =>
         /\ DOMAIN q.to # {}
         /\ \A s \in DOMAIN q.to :
              /\ q.seen[s].status = "R" /\ q.seen[s].golfer # None
              /\ q.seen[q.to[s]].status = "A"
         /\ \A s, t \in DOMAIN q.to :
              Course[q.to[s]] = Course[q.to[t]] /\ (q.to[s] = q.to[t] => s = t)

LEMMA Requests ==
    ASSUME TypeOK, RequestInv, NEW c \in Clerks
    PROVE  Typed(request[c]) /\ Sound(request[c])
  BY DEF TypeOK, RequestInv, Typed, Sound, Range

LEMMA RequestChanges ==
    ASSUME TypeOK, RequestInv, NEW c \in Clerks, NEW q, Typed(q), Sound(q),
           request' = [request EXCEPT ![c] = q]
    PROVE  /\ DOMAIN request' = Clerks
           /\ \A d \in Clerks : Typed(request'[d]) /\ Sound(request'[d])
           /\ \A p \in Range(request') : Typed(p)
           /\ RequestInv'
           /\ request'[c] = q
  <1>1. DOMAIN request' = Clerks /\ request'[c] = q
    BY DEF TypeOK
  <1>2. \A d \in Clerks : Typed(request'[d]) /\ Sound(request'[d])
    BY Requests DEF TypeOK
  <1>3. RequestInv'
    BY <1>2 DEF RequestInv, Sound
  <1> QED  BY <1>1, <1>2, <1>3 DEF Range

\* Asking writes nothing.
LEMMA AskStep ==
    ASSUME ChangesInv, NEW c \in Clerks,
           NEW kind \in {"drop", "replace", "move", "swap"}, NEW S \in SUBSET Slots,
           NEW to, NEW by \in Golfers \cup {None},
           DOMAIN to \cup Range(to) \subseteq S,
           Sound([kind |-> kind, seen |-> [s \in S |-> slot[s]], to |-> to, by |-> by]),
           Ask(c, kind, S, to, by)
    PROVE  ChangesInv' /\ slot' = slot
  <1> DEFINE q == [kind |-> kind, seen |-> [s \in S |-> slot[s]], to |-> to, by |-> by]
  <1>1. /\ request' = [request EXCEPT ![c] = q]
        /\ UNCHANGED <<slot, made, course, fee, stale>>
    BY DEF Ask
  <1>2. Typed(q)
    BY DEF Typed, Range, ChangesInv, TypeOK
  <1> HIDE DEF q
  <1>3. RequestInv' /\ DOMAIN request' = Clerks /\ \A p \in Range(request') : Typed(p)
    BY <1>1, <1>2, RequestChanges DEF ChangesInv, q
  <1>4. TypeOK'
    BY <1>1, <1>3 DEF ChangesInv, TypeOK, Typed
  <1>5. FeeInv' /\ StaleInv' /\ SeatsArePaid'
    BY <1>1 DEF ChangesInv, FeeInv, StaleInv, SeatsArePaid, In
  <1> QED  BY <1>1, <1>3, <1>4, <1>5 DEF ChangesInv

LEMMA AskDropStep ==
    ASSUME ChangesInv, NEW c \in Clerks, NEW S \in SUBSET Slots, AskDrop(c, S)
    PROVE  ChangesInv' /\ slot' = slot
  <1>1. Sound([kind |-> "drop", seen |-> [s \in S |-> slot[s]], to |-> <<>>, by |-> None])
    BY DEF Sound
  <1>2. DOMAIN <<>> \cup Range(<<>>) \subseteq S
    BY DEF Range
  <1> QED  BY <1>1, <1>2, AskStep DEF AskDrop

LEMMA AskReplaceStep ==
    ASSUME ChangesInv, NEW c \in Clerks, NEW s \in Slots, NEW g \in Golfers,
           AskReplace(c, s, g)
    PROVE  ChangesInv' /\ slot' = slot
  <1>1. Sound([kind |-> "replace", seen |-> [t \in {s} |-> slot[t]], to |-> <<>>,
               by |-> g])
    BY DEF Sound, AskReplace
  <1>2. DOMAIN <<>> \cup Range(<<>>) \subseteq {s}
    BY DEF Range
  <1> QED  BY <1>1, <1>2, AskStep DEF AskReplace

LEMMA AskMoveStep ==
    ASSUME ChangesInv, NEW c \in Clerks, NEW S \in SUBSET Slots,
           NEW tee \in Range(TeeTime), AskMove(c, S, tee)
    PROVE  ChangesInv' /\ slot' = slot
  <1> PICK to \in Injection(S, {s \in In("A") : TeeTime[s] = tee}) :
         Ask(c, "move", S \cup Range(to), to, None)
    BY DEF AskMove
  <1> DEFINE T == S \cup Range(to)
  <1>1. /\ DOMAIN to = S
        /\ \A s \in S : to[s] \in Slots /\ slot[to[s]].status = "A" /\ TeeTime[to[s]] = tee
        /\ \A s, t \in S : to[s] = to[t] => s = t
    BY DEF Injection, IsInjective, In
  <1>2. T \in SUBSET Slots /\ DOMAIN to \cup Range(to) \subseteq T
    BY <1>1 DEF Range
  <1>3. S # {} /\ \A s \in S : s \in Slots /\ slot[s].status = "R" /\ slot[s].golfer # None
    BY DEF AskMove, PaidGroup, In
  <1>4. \A s, t \in S : Course[to[s]] = Course[to[t]]
    BY <1>1, ChangesAssumption
  <1>5. \A s \in S : s \in T /\ to[s] \in T
    BY <1>1 DEF Range
  <1>6. Sound([kind |-> "move", seen |-> [s \in T |-> slot[s]], to |-> to, by |-> None])
    BY <1>1, <1>3, <1>4, <1>5 DEF Sound
  <1> QED  BY <1>2, <1>6, AskStep

LEMMA AskSwapStep ==
    ASSUME ChangesInv, NEW c \in Clerks, NEW s \in Slots, NEW t \in Slots, AskSwap(c, s, t)
    PROVE  ChangesInv' /\ slot' = slot
  <1> DEFINE to == [x \in {s, t} |-> IF x = s THEN t ELSE s]
  <1>1. Sound([kind |-> "swap", seen |-> [x \in {s, t} |-> slot[x]], to |-> to,
               by |-> None])
    BY DEF Sound, AskSwap, In
  <1>2. DOMAIN to \cup Range(to) \subseteq {s, t}
    BY DEF Range
  <1>3. Ask(c, "swap", {s, t}, to, None)
    BY DEF AskSwap
  <1> HIDE DEF to
  <1> QED  BY <1>1, <1>2, <1>3, AskStep

-----------------------------------------------------------------------------
(* Transactions *)

\* What holds when a transaction is done with its request.
LEMMA RequestDone ==
    ASSUME ChangesInv, NEW c \in Clerks,
           request' = [request EXCEPT ![c] = NoRequest]
    PROVE  /\ RequestInv' /\ DOMAIN request' = Clerks
           /\ \A p \in Range(request') : Typed(p)
           /\ request'[c].kind = "none"
  <1>1. Typed(NoRequest) /\ Sound(NoRequest) /\ NoRequest.kind = "none"
    BY DEF Typed, Sound, NoRequest, Range
  <1> HIDE DEF NoRequest
  <1> QED  BY <1>1, RequestChanges DEF ChangesInv

\* A transaction that is rolled back.
LEMMA RefusedStep ==
    ASSUME ChangesInv, NEW c \in Clerks, UNCHANGED <<slot, fee, made, course, stale>>,
           request' = [request EXCEPT ![c] = NoRequest]
    PROVE  ChangesInv' /\ KeepsSeats
  <1>1. RequestInv' /\ TypeOK'
    BY RequestDone DEF ChangesInv, TypeOK, Typed
  <1>2. FeeInv' /\ StaleInv' /\ SeatsArePaid' /\ KeepsSeats
    BY DEF ChangesInv, FeeInv, StaleInv, SeatsArePaid, In, KeepsSeats, Reserved
  <1> QED  BY <1>1, <1>2 DEF ChangesInv

\* A golfer a request deals with, and who is not stale afterwards: the rows are
\* as they were read, and nobody else in them was stale.
LEMMA Fresh ==
    ASSUME TypeOK, RequestInv, NEW c \in Clerks, NEW g \in Golfers,
           g \notin stale \cup Outdated(request[c]),
           \/ \E s \in DOMAIN request[c].seen :
                request[c].seen[s].golfer = g \/ slot[s].golfer = g
           \/ \E f \in Fees : fee[f].on \in DOMAIN request[c].seen /\ fee[f].of = g
           \/ g = request[c].by
    PROVE  \A s \in DOMAIN request[c].seen :
             slot[s] = request[c].seen[s] /\ slot[s].golfer \notin stale
  <1> DEFINE q == request[c]
             S == DOMAIN q.seen
             now == [s \in S |-> slot[s]]
             touched == Sitting(q.seen) \cup Sitting(now) \cup {fee[f].of : f \in FeesOn(S)}
  <1>1. g # None /\ None \notin stale
    BY ChangesAssumption DEF TypeOK
  <1>2. g \in touched \cup {q.by}
    BY <1>1 DEF Sitting, Range, FeesOn
  <1>3. now = q.seen /\ touched \cap stale = {}
    BY <1>1, <1>2 DEF Outdated
  <1>4. ASSUME NEW s \in S
        PROVE  slot[s] = q.seen[s] /\ slot[s].golfer \notin stale
    <2>1. now[s] = slot[s] /\ s \in DOMAIN now
      OBVIOUS
    <2>2. slot[s].golfer # None => slot[s].golfer \in Sitting(now)
      BY <2>1 DEF Sitting, Range
    <2> QED  BY <1>1, <1>3, <2>1, <2>2
  <1> QED  BY <1>4

LEMMA OutdatedGolfers ==
    ASSUME TypeOK, RequestInv, NEW c \in Clerks
    PROVE  Outdated(request[c]) \subseteq Golfers
  <1> DEFINE q == request[c]
  <1>1. Typed(q)
    BY Requests
  <1>2. \A f \in Fees : fee[f].of \in Golfers \cup {None}
    BY DEF TypeOK
  <1>3. \A s \in DOMAIN q.seen : /\ q.seen[s].golfer \in Golfers \cup {None}
                                 /\ slot[s].golfer \in Golfers \cup {None}
    BY <1>1 DEF Typed, Range, TypeOK, Rows
  <1> QED  BY <1>1, <1>2, <1>3 DEF Outdated, Sitting, Range, FeesOn, Typed

\* A transaction that commits, or does not.
LEMMA CommitCases ==
    ASSUME NEW c \in Clerks, NEW rows, NEW fees, NEW opened, NEW there,
           Commit(c, rows, fees, opened, there)
    PROVE  /\ request' = [request EXCEPT ![c] = NoRequest]
           /\ \/ /\ slot' = rows /\ fee' = Filled(fees, rows)
                 /\ made' = made \cup opened
                 /\ course' = [r \in Regs |-> IF r \in opened THEN there ELSE course[r]]
                 /\ stale' = (stale \cup Outdated(request[c]))
                               \ {s \in Slots : ~Emptied(slot'[s])}
              \/ UNCHANGED <<slot, fee, made, course, stale>>
  BY DEF Commit

\* What a commit leaves stale: golfers as before, slots that are still empty.
LEMMA StaleKept ==
    ASSUME ChangesInv, NEW c \in Clerks,
           stale' = (stale \cup Outdated(request[c])) \ {s \in Slots : ~Emptied(slot'[s])}
    PROVE  /\ stale' \subseteq Golfers \cup Slots
           /\ \A g \in Golfers : g \in stale' <=> g \in stale \cup Outdated(request[c])
           /\ \A s \in Slots : s \in stale' <=> s \in stale /\ Emptied(slot'[s])
           /\ None \notin stale /\ None \notin stale'
           /\ StaleInv'
  <1>1. Outdated(request[c]) \subseteq Golfers
    BY OutdatedGolfers DEF ChangesInv
  <1> QED  BY <1>1, ChangesAssumption DEF ChangesInv, TypeOK, StaleInv

\* The fees of a commit: those that are attached to an empty place are for the
\* golfer in the new row, the others as the transaction writes them.
LEMMA FeesFilled ==
    ASSUME NEW rows, NEW fees \in [Fees -> [on : Slots \cup {None},
                                          of : Golfers \cup {None}]],
           \A s \in Slots : rows[s].golfer \in Golfers \cup {None}
    PROVE  /\ Filled(fees, rows) \in [Fees -> [on : Slots \cup {None},
                                               of : Golfers \cup {None}]]
           /\ \A f \in Fees :
                /\ Filled(fees, rows)[f].on = fees[f].on
                /\ fees[f].on = None \/ fees[f].of # None => Filled(fees, rows)[f] = fees[f]
                /\ fees[f].on # None /\ fees[f].of = None
                     => Filled(fees, rows)[f].of = rows[fees[f].on].golfer
  <1>1. Filled(fees, rows) = [f \in Fees |-> IF fees[f].on # None /\ fees[f].of = None
                                           THEN TakenBy(fees[f], rows[fees[f].on].golfer)
                                           ELSE fees[f]]
    BY DEF Filled, TakenBy
  <1> QED  BY <1>1, FeeTaken

\* A fee on a slot that the commit does not write stays as it is.
LEMMA FeeUntouched ==
    ASSUME ChangesInv, NEW f \in Fees, NEW fees, fees[f] = fee[f], NEW rows,
           fee[f].on \in Slots => rows[fee[f].on] = slot[fee[f].on]
    PROVE  Filled(fees, rows)[f] = fee[f]
  <1>1. fee[f] \in [on : Slots \cup {None}, of : Golfers \cup {None}]
    BY DEF ChangesInv, TypeOK
  <1>2. CASE fee[f].on # None /\ fee[f].of = None
    <2>1. slot[fee[f].on].golfer = None
      BY <1>2, ChangesAssumption DEF ChangesInv, TypeOK, FeeInv
    <2>2. Filled(fees, rows)[f] = TakenBy(fee[f], None)
      BY <1>1, <1>2, <2>1 DEF Filled, TakenBy
    <2> QED  BY <1>1, <1>2, <2>2 DEF TakenBy
  <1>3. CASE ~(fee[f].on # None /\ fee[f].of = None)
    BY <1>3 DEF Filled
  <1> QED  BY <1>2, <1>3

\* Fees that follow their slots.
LEMMA FollowMoves ==
    ASSUME \A f \in Fees : fee[f] \in [on : Slots \cup {None}, of : Golfers \cup {None}],
           NEW to, \A s \in DOMAIN to : to[s] \in Slots
    PROVE  /\ \A f \in Fees :
                /\ Follow(to)[f].of = fee[f].of
                /\ fee[f].on \in DOMAIN to => Follow(to)[f].on = to[fee[f].on]
                /\ fee[f].on \notin DOMAIN to => Follow(to)[f] = fee[f]
           /\ Follow(to) \in [Fees -> [on : Slots \cup {None}, of : Golfers \cup {None}]]
  <1>1. Follow(to) = [f \in Fees |-> IF fee[f].on \in DOMAIN to
                                    THEN MovedTo(fee[f], to[fee[f].on]) ELSE fee[f]]
    BY DEF Follow, MovedTo
  <1> QED  BY <1>1, FeeMoved

LEMMA DropStep ==
    ASSUME ChangesInv, NEW c \in Clerks, Drop(c)
    PROVE  ChangesInv' /\ KeepsSeats
  <1> DEFINE q == request[c]
             S == DOMAIN q.seen
             rows == [s \in Slots |-> IF s \in S THEN Free ELSE slot[s]]
             fees == [f \in Fees |-> IF f \in FeesOn(S) THEN NoFee ELSE fee[f]]
  <1>1. q.kind = "drop" /\ Commit(c, rows, fees, {}, None)
    BY DEF Drop
  <1>2. request' = [request EXCEPT ![c] = NoRequest]
    BY <1>1, CommitCases
  <1>3. CASE UNCHANGED <<slot, fee, made, course, stale>>
    BY <1>2, <1>3, RefusedStep
  <1>4. CASE /\ slot' = rows /\ fee' = Filled(fees, rows)
             /\ made' = made /\ course' = course
             /\ stale' = (stale \cup Outdated(q)) \ {s \in Slots : ~Emptied(slot'[s])}
    <2>1. Typed(q) /\ RequestInv' /\ DOMAIN request' = Clerks
          /\ (\A p \in Range(request') : Typed(p)) /\ request'[c].kind = "none"
      BY <1>2, Requests, RequestDone DEF ChangesInv
    <2>2. slot \in [Slots -> Rows]
          /\ fee \in [Fees -> [on : Slots \cup {None}, of : Golfers \cup {None}]]
      BY DEF ChangesInv, TypeOK
    <2>3. /\ slot' \in [Slots -> Rows]
          /\ \A s \in S : s \in Slots /\ slot'[s] = Free
          /\ \A s \in Slots \ S : slot'[s] = slot[s]
      BY <1>4, <2>1, <2>2, FreeRow DEF Typed
    <2>4. /\ fees \in [Fees -> [on : Slots \cup {None}, of : Golfers \cup {None}]]
          /\ \A s \in Slots : rows[s].golfer \in Golfers \cup {None}
      BY <1>4, <2>2, <2>3, NoFeeThere DEF Rows
    <2>5. \A f \in Fees : /\ fee[f].on \in S => fee'[f].on = None
                          /\ fee[f].on \notin S => fee'[f] = fee[f]
      <3> TAKE f \in Fees
      <3>1. CASE fee[f].on \in S
        <4>1. fees[f] = NoFee
          BY <3>1 DEF FeesOn
        <4> HIDE DEF fees, rows
        <4> QED  BY <3>1, <4>1, <1>4, <2>4, FeesFilled, NoFeeThere
      <3>2. CASE fee[f].on \notin S
        <4>1. fees[f] = fee[f] /\ (fee[f].on \in Slots => rows[fee[f].on] = slot[fee[f].on])
          BY <3>2 DEF FeesOn
        <4> HIDE DEF fees, rows
        <4> QED  BY <3>2, <4>1, <1>4, FeeUntouched
      <3> QED  BY <3>1, <3>2
    <2> HIDE DEF fees, rows
    <2>6. fee' \in [Fees -> [on : Slots \cup {None}, of : Golfers \cup {None}]]
      BY <1>4, <2>4, FeesFilled
    <2>7. TypeOK' /\ StaleInv'
      BY <1>4, <2>1, <2>3, <2>6, StaleKept DEF ChangesInv, TypeOK, Typed
    <2>8. FeeInv'
      <3> SUFFICES ASSUME NEW f \in Fees, fee'[f].on # None, fee'[f].of \notin stale'
                   PROVE  /\ slot'[fee'[f].on].status = "R"
                          /\ slot'[fee'[f].on].golfer = fee'[f].of
        BY DEF FeeInv
      <3>1. fee[f].on \notin S /\ fee'[f] = fee[f] /\ fee[f].on \in Slots
            /\ fee[f].of \in Golfers \cup {None}
        BY <2>2, <2>5
      <3>2. fee[f].of \notin stale
        BY <3>1, <1>4, StaleKept
      <3> QED  BY <3>1, <3>2, <2>3 DEF ChangesInv, FeeInv
    <2>9. SeatsArePaid'
      <3> SUFFICES ASSUME NEW s \in Slots, slot'[s].status = "R",
                          s \notin stale', slot'[s].golfer \notin stale'
                   PROVE  \E f \in Fees : fee'[f].on = s
        BY DEF SeatsArePaid, In
      <3>1. s \notin S /\ slot'[s] = slot[s]
        BY <2>3, FreeRow
      <3>2. slot[s].golfer \in Golfers \cup {None}
        BY <2>2 DEF Rows
      <3>3. s \notin stale /\ slot[s].golfer \notin stale
        BY <3>1, <3>2, <1>4, StaleKept DEF ChangesInv, StaleInv
      <3> QED  BY <3>1, <3>3, <2>5 DEF ChangesInv, SeatsArePaid, In
    <2>10. KeepsSeats
      <3> SUFFICES ASSUME NEW g \in Golfers \ stale', NEW s \in In("R"),
                          slot[s].golfer = g
                   PROVE  Reserved(g)' \/ g \in Named(q)
        BY <2>1 DEF KeepsSeats, Reserved
      <3>1. CASE s \in S
        <4>1. q.seen[s].golfer = g
          BY <3>1, <1>4, StaleKept, Fresh DEF ChangesInv
        <4> QED  BY <3>1, <4>1, <1>1, ChangesAssumption DEF Named, Sitting, Range
      <3>2. CASE s \notin S
        BY <3>2, <2>3 DEF Reserved, In
      <3> QED  BY <3>1, <3>2
    <2> QED  BY <2>1, <2>7, <2>8, <2>9, <2>10 DEF ChangesInv
  <1>5. [r \in Regs |-> IF r \in {} THEN None ELSE course[r]] = course
    BY DEF ChangesInv, TypeOK
  <1> HIDE DEF rows, fees
  <1> QED  BY <1>1, <1>3, <1>4, <1>5, CommitCases

LEMMA ReplaceStep ==
    ASSUME ChangesInv, NEW c \in Clerks, Replace(c)
    PROVE  ChangesInv' /\ KeepsSeats
  <1> DEFINE q == request[c]
             S == DOMAIN q.seen
             g == q.by
             rows == [s \in Slots |-> IF s \in S THEN WithGolfer(slot[s], g) ELSE slot[s]]
             fees == [f \in Fees |-> IF f \in FeesOn(S) THEN TakenBy(fee[f], g) ELSE fee[f]]
  <1>1. q.kind = "replace" /\ Commit(c, rows, fees, {}, None)
    BY DEF Replace, WithGolfer, TakenBy
  <1>2. request' = [request EXCEPT ![c] = NoRequest]
    BY <1>1, CommitCases
  <1>3. CASE UNCHANGED <<slot, fee, made, course, stale>>
    BY <1>2, <1>3, RefusedStep
  <1>4. CASE /\ slot' = rows /\ fee' = Filled(fees, rows)
             /\ made' = made /\ course' = course
             /\ stale' = (stale \cup Outdated(q)) \ {s \in Slots : ~Emptied(slot'[s])}
    <2>1. Typed(q) /\ Sound(q) /\ RequestInv' /\ DOMAIN request' = Clerks
          /\ (\A p \in Range(request') : Typed(p)) /\ request'[c].kind = "none"
      BY <1>2, Requests, RequestDone DEF ChangesInv
    <2>a. g \in Golfers /\ g # None
          /\ \A s \in S : q.seen[s].status = "R" /\ q.seen[s].golfer # None
      BY <1>1, <2>1, ChangesAssumption DEF Sound
    <2>2. slot \in [Slots -> Rows]
          /\ fee \in [Fees -> [on : Slots \cup {None}, of : Golfers \cup {None}]]
      BY DEF ChangesInv, TypeOK
    <2>3. /\ slot' \in [Slots -> Rows]
          /\ \A s \in S : s \in Slots /\ slot'[s].golfer = g
                          /\ slot'[s].status = slot[s].status
          /\ \A s \in Slots \ S : slot'[s] = slot[s]
      BY <1>4, <2>1, <2>a, <2>2, GolferWritten DEF Typed
    <2>4. /\ fees \in [Fees -> [on : Slots \cup {None}, of : Golfers \cup {None}]]
          /\ \A s \in Slots : rows[s].golfer \in Golfers \cup {None}
      BY <1>4, <2>2, <2>3, <2>a, FeeTaken DEF Rows
    <2>5. \A f \in Fees : /\ fee'[f].on = fee[f].on
                          /\ fee[f].on \in S => fee'[f].of = g
                          /\ fee[f].on \notin S => fee'[f] = fee[f]
      <3> TAKE f \in Fees
      <3>1. CASE fee[f].on \in S
        <4>1. fees[f].on = fee[f].on /\ fees[f].of = g
          BY <3>1, <2>2, <2>a, FeeTaken DEF FeesOn
        <4> HIDE DEF fees, rows, g
        <4> QED  BY <3>1, <4>1, <1>4, <2>4, <2>a, FeesFilled
      <3>2. CASE fee[f].on \notin S
        <4>1. fees[f] = fee[f] /\ (fee[f].on \in Slots => rows[fee[f].on] = slot[fee[f].on])
          BY <3>2 DEF FeesOn
        <4> HIDE DEF fees, rows
        <4> QED  BY <3>2, <4>1, <1>4, FeeUntouched
      <3> QED  BY <3>1, <3>2
    <2> HIDE DEF fees, rows
    <2>6. fee' \in [Fees -> [on : Slots \cup {None}, of : Golfers \cup {None}]]
      BY <1>4, <2>4, FeesFilled
    <2>7. TypeOK' /\ StaleInv'
      BY <1>4, <2>1, <2>3, <2>6, StaleKept DEF ChangesInv, TypeOK, Typed
    <2>b. g \notin stale' => \A s \in S : slot[s] = q.seen[s] /\ slot[s].golfer \notin stale
      BY <1>4, <2>a, StaleKept, Fresh DEF ChangesInv
    <2>8. FeeInv'
      <3> SUFFICES ASSUME NEW f \in Fees, fee'[f].on # None, fee'[f].of \notin stale'
                   PROVE  /\ slot'[fee'[f].on].status = "R"
                          /\ slot'[fee'[f].on].golfer = fee'[f].of
        BY DEF FeeInv
      <3>1. CASE fee[f].on \in S
        BY <3>1, <2>3, <2>5, <2>a, <2>b
      <3>2. CASE fee[f].on \notin S
        <4>1. fee'[f] = fee[f] /\ fee[f].on \in Slots \ S
              /\ fee[f].of \in Golfers \cup {None}
          BY <3>2, <2>2, <2>5
        <4>2. fee[f].of \notin stale
          BY <4>1, <1>4, StaleKept
        <4> QED  BY <4>1, <4>2, <2>3 DEF ChangesInv, FeeInv
      <3> QED  BY <3>1, <3>2
    <2>9. SeatsArePaid'
      <3> SUFFICES ASSUME NEW s \in Slots, slot'[s].status = "R",
                          s \notin stale', slot'[s].golfer \notin stale'
                   PROVE  \E f \in Fees : fee[f].on = s
        BY <2>5 DEF SeatsArePaid, In
      <3>1. slot[s].status = "R" /\ s \notin stale /\ slot[s].golfer \notin stale
        <4>1. CASE s \in S
          <5>1. slot[s] = q.seen[s] /\ slot[s].golfer \notin stale
            BY <4>1, <2>3, <2>b
          <5> QED  BY <4>1, <5>1, <2>a DEF ChangesInv, StaleInv, Emptied
        <4>2. CASE s \notin S
          <5>1. slot'[s] = slot[s] /\ slot[s].golfer \in Golfers \cup {None}
            BY <4>2, <2>2, <2>3 DEF Rows
          <5> QED  BY <5>1, <1>4, StaleKept DEF ChangesInv, StaleInv
        <4> QED  BY <4>1, <4>2
      <3> QED  BY <3>1 DEF ChangesInv, SeatsArePaid, In
    <2>10. KeepsSeats
      <3> SUFFICES ASSUME NEW h \in Golfers \ stale', NEW s \in In("R"),
                          slot[s].golfer = h
                   PROVE  Reserved(h)' \/ h \in Named(q)
        BY <2>1 DEF KeepsSeats, Reserved
      <3>1. CASE s \in S
        <4>1. q.seen[s].golfer = h
          BY <3>1, <1>4, StaleKept, Fresh DEF ChangesInv
        <4> QED  BY <3>1, <4>1, <1>1, ChangesAssumption DEF Named, Sitting, Range
      <3>2. CASE s \notin S
        BY <3>2, <2>3 DEF Reserved, In
      <3> QED  BY <3>1, <3>2
    <2> QED  BY <2>1, <2>7, <2>8, <2>9, <2>10 DEF ChangesInv
  <1>5. [r \in Regs |-> IF r \in {} THEN None ELSE course[r]] = course
    BY DEF ChangesInv, TypeOK
  <1> HIDE DEF rows, fees
  <1> QED  BY <1>1, <1>3, <1>4, <1>5, CommitCases

LEMMA SwapStep ==
    ASSUME ChangesInv, NEW c \in Clerks, Swap(c)
    PROVE  ChangesInv' /\ KeepsSeats
  <1> DEFINE q == request[c]
             S == DOMAIN q.seen
             to == q.to
             rows == [s \in Slots |-> IF s \in DOMAIN to
                        THEN WithGolfer(slot[s], q.seen[to[s]].golfer) ELSE slot[s]]
             fees == Follow(to)
  <1>1. q.kind = "swap" /\ Commit(c, rows, fees, {}, None)
    BY DEF Swap, WithGolfer
  <1>2. request' = [request EXCEPT ![c] = NoRequest]
    BY <1>1, CommitCases
  <1>3. CASE UNCHANGED <<slot, fee, made, course, stale>>
    BY <1>2, <1>3, RefusedStep
  <1>4. CASE /\ slot' = rows /\ fee' = Filled(fees, rows)
             /\ made' = made /\ course' = course
             /\ stale' = (stale \cup Outdated(q)) \ {s \in Slots : ~Emptied(slot'[s])}
    <2>1. Typed(q) /\ Sound(q) /\ RequestInv' /\ DOMAIN request' = Clerks
          /\ (\A p \in Range(request') : Typed(p)) /\ request'[c].kind = "none"
      BY <1>2, Requests, RequestDone DEF ChangesInv
    <2>a. /\ DOMAIN to = S /\ S \subseteq Slots
          /\ \A s \in S : to[s] \in S /\ to[to[s]] = s
          /\ \A s \in S : q.seen[s].status = "R" /\ q.seen[s].golfer \in Golfers
                          /\ q.seen[s].golfer # None
      BY <1>1, <2>1 DEF Sound, Typed, Range, Rows
    <2>2. slot \in [Slots -> Rows]
          /\ fee \in [Fees -> [on : Slots \cup {None}, of : Golfers \cup {None}]]
      BY DEF ChangesInv, TypeOK
    <2>3. /\ slot' \in [Slots -> Rows]
          /\ \A s \in S : /\ slot'[s].golfer = q.seen[to[s]].golfer
                          /\ slot'[s].status = slot[s].status
          /\ \A s \in Slots \ S : slot'[s] = slot[s]
      <3>1. \A s \in S : slot[s] \in Rows /\ q.seen[to[s]].golfer \in Golfers \cup {None}
        BY <2>a, <2>2
      <3>2. /\ \A s \in S : slot'[s] = WithGolfer(slot[s], q.seen[to[s]].golfer)
            /\ \A s \in Slots \ S : slot'[s] = slot[s]
            /\ slot' = [s \in Slots |-> slot'[s]]
        BY <1>4, <2>a
      <3>3. \A s \in S : /\ slot'[s] \in Rows
                          /\ slot'[s].golfer = q.seen[to[s]].golfer
                          /\ slot'[s].status = slot[s].status
        BY <3>1, <3>2, GolferWritten
      <3>4. \A s \in Slots : slot'[s] \in Rows
        BY <2>2, <3>2, <3>3
      <3> QED  BY <3>2, <3>3, <3>4
    <2>4. /\ fees \in [Fees -> [on : Slots \cup {None}, of : Golfers \cup {None}]]
          /\ \A s \in Slots : rows[s].golfer \in Golfers \cup {None}
          /\ \A f \in Fees : /\ fees[f].of = fee[f].of
                             /\ fee[f].on \in S => fees[f].on = to[fee[f].on]
                             /\ fee[f].on \notin S => fees[f] = fee[f]
      <3>1. \A s \in DOMAIN to : to[s] \in Slots
        BY <2>a
      <3>2. \A s \in Slots : slot'[s].golfer \in Golfers \cup {None}
        BY <2>3 DEF Rows
      <3>3. \A f \in Fees : fee[f] \in [on : Slots \cup {None}, of : Golfers \cup {None}]
        BY <2>2
      <3> HIDE DEF to, S, rows
      <3> QED  BY <1>4, <2>a, <3>1, <3>2, <3>3, FollowMoves
    <2>5. \A f \in Fees :
            /\ fee[f].on \in S => fee'[f].on = to[fee[f].on]
            /\ fee[f].on \in S /\ fee[f].of # None => fee'[f].of = fee[f].of
            /\ fee[f].on \in S /\ fee[f].of = None => fee'[f].of = q.seen[fee[f].on].golfer
            /\ fee[f].on \notin S => fee'[f] = fee[f]
      <3> TAKE f \in Fees
      <3>1. CASE fee[f].on \in S
        <4>1. fees[f].on = to[fee[f].on] /\ fees[f].of = fee[f].of
              /\ to[fee[f].on] \in Slots /\ to[fee[f].on] # None
          BY <3>1, <2>4, <2>a, ChangesAssumption
        <4>2. rows[to[fee[f].on]].golfer = q.seen[fee[f].on].golfer
          <5>1. slot'[to[fee[f].on]].golfer = q.seen[to[to[fee[f].on]]].golfer
            BY <3>1, <2>3, <2>a
          <5>2. to[to[fee[f].on]] = fee[f].on /\ slot' = rows
            BY <3>1, <2>a, <1>4
          <5> HIDE DEF rows, to
          <5> QED  BY <5>1, <5>2
        <4> HIDE DEF fees, rows, to
        <4>3. fee'[f].on = fees[f].on
          BY <1>4, <2>4, FeesFilled
        <4>4. fees[f].of # None => fee'[f].of = fees[f].of
          BY <1>4, <2>4, FeesFilled
        <4>5. fees[f].of = None => fee'[f].of = rows[fees[f].on].golfer
          BY <4>1, <1>4, <2>4, FeesFilled
        <4> QED  BY <3>1, <4>1, <4>2, <4>3, <4>4, <4>5
      <3>2. CASE fee[f].on \notin S
        <4>1. fees[f] = fee[f] /\ (fee[f].on \in Slots => rows[fee[f].on] = slot[fee[f].on])
          BY <3>2, <2>4, <2>a
        <4> HIDE DEF fees, rows
        <4> QED  BY <3>2, <4>1, <1>4, FeeUntouched
      <3> QED  BY <3>1, <3>2
    <2> HIDE DEF fees, rows
    <2>6. fee' \in [Fees -> [on : Slots \cup {None}, of : Golfers \cup {None}]]
      BY <1>4, <2>4, FeesFilled
    <2>7. TypeOK' /\ StaleInv'
      BY <1>4, <2>1, <2>3, <2>6, StaleKept DEF ChangesInv, TypeOK, Typed
    <2>b. ASSUME NEW g \in Golfers \ stale', NEW s \in S,
                 \/ q.seen[s].golfer = g \/ slot[s].golfer = g
                 \/ \E f \in Fees : fee[f].on = s /\ fee[f].of = g
          PROVE  \A t \in S : slot[t] = q.seen[t] /\ slot[t].golfer \notin stale
      BY <1>4, <2>b, StaleKept, Fresh DEF ChangesInv
    <2>8. FeeInv'
      <3> SUFFICES ASSUME NEW f \in Fees, fee'[f].on # None, fee'[f].of \notin stale'
                   PROVE  /\ slot'[fee'[f].on].status = "R"
                          /\ slot'[fee'[f].on].golfer = fee'[f].of
        BY DEF FeeInv
      <3>0. fee[f].of \in Golfers \cup {None} /\ fee[f].on \in Slots \cup {None}
        BY <2>2
      <3> DEFINE s == fee[f].on
      <3>1. CASE s \in S /\ fee[f].of # None
        <4>1. fee'[f].of = fee[f].of /\ fee[f].of \in Golfers \ stale'
              /\ fee[f].of \notin stale
          BY <3>0, <3>1, <2>5, <1>4, StaleKept
        <4>2. \A t \in S : slot[t] = q.seen[t]
          BY <3>1, <4>1, <2>b
        <4>3. slot[s].golfer = fee[f].of
          BY <3>0, <3>1, <4>1, <2>a, ChangesAssumption DEF ChangesInv, FeeInv
        <4>4. /\ slot'[to[s]].status = slot[to[s]].status
              /\ slot'[to[s]].golfer = q.seen[to[to[s]]].golfer
              /\ to[s] \in S /\ to[to[s]] = s /\ fee'[f].on = to[s]
          BY <3>1, <2>3, <2>5, <2>a
        <4> HIDE DEF s, to
        <4> QED  BY SMTT(20), <3>1, <4>1, <4>2, <4>3, <4>4, <2>a
      <3>2. CASE s \in S /\ fee[f].of = None
        <4>1. slot[s].golfer = None
          BY <3>2, <2>a, <1>4, StaleKept, ChangesAssumption DEF ChangesInv, FeeInv
        <4>2. fee'[f].of = q.seen[s].golfer /\ q.seen[s].golfer \in Golfers \ stale'
          BY <3>2, <2>5, <2>a
        <4>3. slot[s] = q.seen[s]
          BY <3>2, <4>2, <2>b
        <4> QED  BY <3>2, <4>1, <4>3, <2>a
      <3>3. CASE s \notin S
        <4>1. fee'[f] = fee[f] /\ s \in Slots \ S
          BY <3>0, <3>3, <2>5
        <4>2. fee[f].of \notin stale
          BY <4>1, <3>0, <1>4, StaleKept
        <4> QED  BY <4>1, <4>2, <2>3 DEF ChangesInv, FeeInv
      <3> QED  BY <3>1, <3>2, <3>3
    <2>9. SeatsArePaid'
      <3> SUFFICES ASSUME NEW s \in Slots, slot'[s].status = "R",
                          s \notin stale', slot'[s].golfer \notin stale'
                   PROVE  \E f \in Fees : fee'[f].on = s
        BY DEF SeatsArePaid, In
      <3>1. CASE s \in S
        <4>1. \A t \in S : slot[t] = q.seen[t] /\ slot[t].golfer \notin stale
          BY <3>1, <2>3, <2>a, <2>b
        <4>2. slot[to[s]].status = "R" /\ slot[to[s]].golfer # None
          BY <3>1, <4>1, <2>a
        <4>3. PICK f \in Fees : fee[f].on = to[s]
          BY <3>1, <4>1, <4>2, <2>a DEF ChangesInv, SeatsArePaid, In, StaleInv, Emptied
        <4> QED  BY <4>3, <3>1, <2>5, <2>a
      <3>2. CASE s \notin S
        <4>1. slot'[s] = slot[s] /\ slot[s].golfer \in Golfers \cup {None}
          BY <3>2, <2>2, <2>3 DEF Rows
        <4>2. s \notin stale /\ slot[s].golfer \notin stale
          BY <4>1, <1>4, StaleKept DEF ChangesInv, StaleInv
        <4>3. PICK f \in Fees : fee[f].on = s
          BY <4>1, <4>2 DEF ChangesInv, SeatsArePaid, In
        <4> QED  BY <4>3, <3>2, <2>5
      <3> QED  BY <3>1, <3>2
    <2>10. KeepsSeats
      <3> SUFFICES ASSUME NEW g \in Golfers \ stale', NEW s \in In("R"),
                          slot[s].golfer = g
                   PROVE  \E t \in Slots : slot'[t].status = "R" /\ slot'[t].golfer = g
        BY <2>1 DEF KeepsSeats, Reserved, In
      <3>1. CASE s \in S
        <4>1. \A t \in S : slot[t] = q.seen[t]
          BY <3>1, <2>b
        <4>2. slot'[to[s]].status = "R" /\ slot'[to[s]].golfer = g
          BY <3>1, <4>1, <2>3, <2>a
        <4> QED  BY <3>1, <4>2, <2>a
      <3>2. CASE s \notin S
        BY <3>2, <2>3 DEF In
      <3> QED  BY <3>1, <3>2
    <2> QED  BY <2>1, <2>7, <2>8, <2>9, <2>10 DEF ChangesInv
  <1>5. [r \in Regs |-> IF r \in {} THEN None ELSE course[r]] = course
    BY DEF ChangesInv, TypeOK
  <1> HIDE DEF rows, fees
  <1> QED  BY <1>1, <1>3, <1>4, <1>5, CommitCases

\* A row written by a move.
ArrivedRow(r, g) == [status |-> "R", reg |-> r, golfer |-> g]

LEMMA ArrivedWritten ==
    ASSUME NEW r \in Regs \cup {None}, NEW g \in Golfers \cup {None}
    PROVE  /\ ArrivedRow(r, g) \in Rows
           /\ ArrivedRow(r, g).status = "R" /\ ArrivedRow(r, g).reg = r
           /\ ArrivedRow(r, g).golfer = g
  BY DEF ArrivedRow, Rows

\* A move that commits under registration r.
LEMMA MovedStep ==
    ASSUME ChangesInv, NEW c \in Clerks, request[c].kind = "move",
           NEW r \in Regs \cup {None},
           request' = [request EXCEPT ![c] = NoRequest],
           slot' = Moved(request[c], r),
           fee' = Filled(Follow(request[c].to), Moved(request[c], r)),
           stale' = (stale \cup Outdated(request[c])) \ {s \in Slots : ~Emptied(slot'[s])},
           made' \subseteq Regs,
           course' \in [Regs -> Range(Course) \cup Asked \cup {None}]
    PROVE  ChangesInv' /\ KeepsSeats
  <1> DEFINE q == request[c]
             S == DOMAIN q.seen
             to == q.to
             from == DOMAIN to
             dest == Range(to)
  <1>1. Typed(q) /\ Sound(q) /\ RequestInv' /\ DOMAIN request' = Clerks
        /\ (\A p \in Range(request') : Typed(p)) /\ request'[c].kind = "none"
    BY Requests, RequestDone DEF ChangesInv
  <1>2. /\ S \subseteq Slots
        /\ \A s \in from : s \in S /\ q.seen[s].status = "R" /\ q.seen[s].golfer # None
        /\ \A s \in from : to[s] \in S /\ to[s] \in dest /\ q.seen[to[s]].status = "A"
        /\ \A s \in S : q.seen[s].golfer \in Golfers \cup {None}
        /\ \A s, t \in from : to[s] = to[t] => s = t
    BY <1>1 DEF Sound, Typed, Range, Rows
  <1>3. \A d \in dest : \E s \in from : to[s] = d
    BY DEF Range
  <1>4. \A s \in from : s \notin dest
    BY <1>2, <1>3
  <1>5. /\ slot' \in [Slots -> Rows]
        /\ \A s \in from : /\ slot'[to[s]].status = "R" /\ slot'[to[s]].reg = r
                           /\ slot'[to[s]].golfer = q.seen[s].golfer
        /\ \A s \in from : slot'[s] = Free
        /\ \A s \in Slots \ (from \cup dest) : slot'[s] = slot[s]
    <2>1. slot' = [s \in Slots |->
              IF s \in dest
              THEN ArrivedRow(r, q.seen[CHOOSE x \in from : to[x] = s].golfer)
              ELSE IF s \in from THEN Free ELSE slot[s]]
      BY DEF Moved, ArrivedRow
    <2>2. \A s \in from : (CHOOSE x \in from : to[x] = to[s]) = s
      BY <1>2
    <2>3. \A s \in dest : (CHOOSE x \in from : to[x] = s) \in S
      BY <1>2, <1>3
    <2>4. slot \in [Slots -> Rows]
      BY DEF ChangesInv, TypeOK
    <2>5. \A s \in Slots : slot'[s] \in Rows
      <3> TAKE s \in Slots
      <3>1. CASE s \in dest
        <4>1. PICK x \in S : slot'[s] = ArrivedRow(r, q.seen[x].golfer)
          BY <3>1, <2>1, <2>3
        <4>2. q.seen[x].golfer \in Golfers \cup {None}
          BY <1>2
        <4> QED  BY SMTT(20), <4>1, <4>2, ArrivedWritten
      <3>2. CASE s \notin dest
        <4>1. slot'[s] = IF s \in from THEN Free ELSE slot[s]
          BY <3>2, <2>1
        <4>2. slot[s] \in Rows /\ Free \in Rows
          BY <2>4, FreeRow
        <4> QED  BY <4>1, <4>2
      <3> QED  BY <3>1, <3>2
    <2>6. ASSUME NEW s \in from
          PROVE  slot'[to[s]] = ArrivedRow(r, q.seen[s].golfer)
      <3>1. to[s] \in Slots /\ to[s] \in dest
        BY <1>2
      <3> HIDE DEF dest, from, to
      <3> QED  BY <3>1, <2>1, <2>2
    <2>7. \A s \in from : /\ slot'[to[s]].status = "R" /\ slot'[to[s]].reg = r
                          /\ slot'[to[s]].golfer = q.seen[s].golfer
      <3> TAKE s \in from
      <3>1. q.seen[s].golfer \in Golfers \cup {None}
        BY <1>2
      <3> QED  BY <2>6, <3>1, ArrivedWritten
    <2>8. slot' \in [Slots -> Rows]
      BY <2>1, <2>5
    <2>9. /\ \A s \in from : slot'[s] = Free
          /\ \A s \in Slots \ (from \cup dest) : slot'[s] = slot[s]
      BY <1>2, <1>4, <2>1
    <2> QED  BY <2>7, <2>8, <2>9
  <1>6. \A f \in Fees : fee[f] \in [on : Slots \cup {None}, of : Golfers \cup {None}]
    BY DEF ChangesInv, TypeOK
  <1>a. \A s \in from : to[s] \in Slots
    BY <1>2
  <1>b. \A s \in Slots : slot'[s].golfer \in Golfers \cup {None}
    BY <1>5 DEF Rows
  <1>c. /\ Follow(to) \in [Fees -> [on : Slots \cup {None}, of : Golfers \cup {None}]]
        /\ \A f \in Fees : /\ Follow(to)[f].of = fee[f].of
                           /\ fee[f].on \in from => Follow(to)[f].on = to[fee[f].on]
                           /\ fee[f].on \notin from => Follow(to)[f] = fee[f]
    BY <1>a, <1>6, FollowMoves
  <1>d. fee' = Filled(Follow(to), slot')
    OBVIOUS
  <1>7. /\ fee' \in [Fees -> [on : Slots \cup {None}, of : Golfers \cup {None}]]
        /\ \A f \in Fees :
             /\ fee[f].on \in from => fee'[f].on = to[fee[f].on]
             /\ fee[f].on \notin from => fee'[f].on = fee[f].on
             /\ fee[f].of # None => fee'[f].of = fee[f].of
             /\ fee[f].of = None /\ fee[f].on \in from =>
                  fee'[f].of = q.seen[fee[f].on].golfer
             /\ fee[f].of = None /\ fee[f].on \in dest \ from =>
                  fee'[f].of = slot'[fee[f].on].golfer
             /\ fee[f].on \notin from \cup dest => fee'[f] = fee[f]
    <2>1. fee' \in [Fees -> [on : Slots \cup {None}, of : Golfers \cup {None}]]
      BY <1>b, <1>c, <1>d, FeesFilled
    <2> SUFFICES ASSUME NEW f \in Fees
                 PROVE
             /\ fee[f].on \in from => fee'[f].on = to[fee[f].on]
             /\ fee[f].on \notin from => fee'[f].on = fee[f].on
             /\ fee[f].of # None => fee'[f].of = fee[f].of
             /\ fee[f].of = None /\ fee[f].on \in from =>
                  fee'[f].of = q.seen[fee[f].on].golfer
             /\ fee[f].of = None /\ fee[f].on \in dest \ from =>
                  fee'[f].of = slot'[fee[f].on].golfer
             /\ fee[f].on \notin from \cup dest => fee'[f] = fee[f]
      BY <2>1
    <2> DEFINE fees == Follow(to)
    <2>2. /\ fee'[f].on = fees[f].on
          /\ fees[f].on = None \/ fees[f].of # None => fee'[f] = fees[f]
          /\ fees[f].on # None /\ fees[f].of = None => fee'[f].of = slot'[fees[f].on].golfer
      BY <1>b, <1>c, <1>d, FeesFilled
    <2>3. /\ fees[f].of = fee[f].of
          /\ fee[f].on \in from => fees[f].on = to[fee[f].on]
          /\ fee[f].on \notin from => fees[f] = fee[f]
      BY <1>c
    <2> HIDE DEF fees
    <2>4. fee[f].on \in from => to[fee[f].on] # None
      BY <1>a, ChangesAssumption
    <2>5. fee[f].on \in from => slot'[to[fee[f].on]].golfer = q.seen[fee[f].on].golfer
      BY <1>5
    <2>6. None \notin dest
      BY <1>2, <1>3, ChangesAssumption
    <2>7. fee[f].on \notin from \cup dest => fee'[f] = fee[f]
      <3> SUFFICES ASSUME fee[f].on \notin from \cup dest PROVE fee'[f] = fee[f]
        OBVIOUS
      <3>1. fee[f].on \in Slots => slot'[fee[f].on] = slot[fee[f].on]
        BY <1>5
      <3>2. Follow(to)[f] = fee[f]
        BY <1>c
      <3> HIDE DEF to, from, dest
      <3> QED  BY <3>1, <3>2, <1>d, FeeUntouched
    <2> HIDE DEF to, from, dest, q
    <2> QED  BY <2>2, <2>3, <2>4, <2>5, <2>6, <2>7
  <1>8. TypeOK' /\ StaleInv'
    BY <1>1, <1>5, <1>7, StaleKept DEF ChangesInv, TypeOK, Typed
  <1>10. ASSUME NEW g \in Golfers \ stale', NEW s \in S,
                \/ q.seen[s].golfer = g \/ slot[s].golfer = g
                \/ \E f \in Fees : fee[f].on = s /\ fee[f].of = g
         PROVE  \A t \in S : slot[t] = q.seen[t] /\ slot[t].golfer \notin stale
    BY <1>10, StaleKept, Fresh DEF ChangesInv
  <1>11. FeeInv'
    <2> SUFFICES ASSUME NEW f \in Fees, fee'[f].on # None, fee'[f].of \notin stale'
                 PROVE  /\ slot'[fee'[f].on].status = "R"
                        /\ slot'[fee'[f].on].golfer = fee'[f].of
      BY DEF FeeInv
    <2> DEFINE s == fee[f].on
    <2>1. s \in Slots /\ fee[f].of \in Golfers \cup {None}
      BY <1>2, <1>6, <1>7
    <2>2. CASE fee[f].of # None
      <3>1. fee'[f].of = fee[f].of /\ fee[f].of \in Golfers \ stale'
        BY <2>1, <2>2, <1>7
      <3>2. fee[f].of \notin stale
        BY <3>1, StaleKept
      <3>3. slot[s].status = "R" /\ slot[s].golfer = fee[f].of
        BY <2>1, <3>2, ChangesAssumption DEF ChangesInv, FeeInv
      <3>4. CASE s \in from
        <4>1. slot[s] = q.seen[s]
          BY <3>1, <3>4, <1>2, <1>10
        <4>2. slot'[to[s]].status = "R" /\ slot'[to[s]].golfer = q.seen[s].golfer
          BY <3>4, <1>5
        <4>3. fee'[f].on = to[s]
          BY <3>4, <1>7
        <4> QED  BY <3>1, <3>3, <4>1, <4>2, <4>3
      <3>5. s \notin dest
        <4> SUFFICES ASSUME s \in dest PROVE FALSE
          OBVIOUS
        <4>1. PICK t \in from : to[t] = s
          BY <1>3
        <4>2. slot[s] = q.seen[s]
          BY <4>1, <3>1, <1>2, <1>10
        <4> QED  BY <4>1, <4>2, <3>3, <1>2
      <3>6. CASE s \notin from
        BY <3>1, <3>3, <3>5, <3>6, <2>1, <1>5, <1>7
      <3> QED  BY <3>4, <3>6
    <2>3. CASE fee[f].of = None
      <3>1. slot[s].status = "R" /\ slot[s].golfer = None
        BY <2>1, <2>3, StaleKept, ChangesAssumption DEF ChangesInv, FeeInv
      <3>2. s \notin from
        <4> SUFFICES ASSUME s \in from PROVE FALSE
          OBVIOUS
        <4>1. q.seen[s].golfer \in Golfers \ stale' /\ q.seen[s].golfer # None /\ s \in S
          BY <2>3, <1>2, <1>7
        <4>2. slot[s] = q.seen[s]
          BY <4>1, <1>10
        <4> QED  BY <3>1, <4>1, <4>2
      <3>3. s \notin dest
        <4> SUFFICES ASSUME s \in dest PROVE FALSE
          OBVIOUS
        <4>1. PICK t \in from : to[t] = s
          BY <1>3
        <4>2. fee'[f].of = q.seen[t].golfer
          BY <4>1, <2>3, <3>2, <1>5, <1>7
        <4>3. q.seen[t].golfer \in Golfers \ stale' /\ t \in S /\ s \in S
          BY <4>1, <4>2, <1>2
        <4>4. slot[s] = q.seen[s]
          BY <4>3, <1>10
        <4> QED  BY <3>1, <4>1, <4>4, <1>2
      <3> QED  BY <3>1, <3>2, <3>3, <2>1, <2>3, <1>5, <1>7
    <2> QED  BY <2>2, <2>3
  <1>12. SeatsArePaid'
    <2> SUFFICES ASSUME NEW s \in Slots, slot'[s].status = "R",
                        s \notin stale', slot'[s].golfer \notin stale'
                 PROVE  \E f \in Fees : fee'[f].on = s
      BY DEF SeatsArePaid, In
    <2>1. CASE s \in dest
      <3>1. PICK t \in from : to[t] = s
        BY <2>1, <1>3
      <3>2. q.seen[t].golfer \in Golfers \ stale' /\ t \in S /\ q.seen[t].golfer # None
        BY <3>1, <1>2, <1>5
      <3>3. slot[t] = q.seen[t] /\ slot[t].golfer \notin stale
        BY <3>2, <1>10
      <3>4. PICK f \in Fees : fee[f].on = t
        BY <3>1, <3>2, <3>3, <1>2 DEF ChangesInv, SeatsArePaid, In, StaleInv, Emptied
      <3> QED  BY <3>1, <3>4, <1>7
    <2>2. CASE s \notin dest
      <3>1. s \notin from /\ slot'[s] = slot[s]
        BY <2>2, <1>5, FreeRow
      <3>2. s \notin stale /\ slot[s].golfer \notin stale
        BY <3>1, <1>b, StaleKept DEF ChangesInv, StaleInv
      <3>3. PICK f \in Fees : fee[f].on = s
        BY <3>1, <3>2 DEF ChangesInv, SeatsArePaid, In
      <3> QED  BY <3>1, <3>3, <1>7
    <2> QED  BY <2>1, <2>2
  <1>13. KeepsSeats
    <2> SUFFICES ASSUME NEW g \in Golfers \ stale', NEW s \in In("R"),
                        slot[s].golfer = g
                 PROVE  \E t \in Slots : slot'[t].status = "R" /\ slot'[t].golfer = g
      BY DEF KeepsSeats, Reserved, In
    <2>0. s \in Slots /\ slot[s].status = "R"
      BY DEF In
    <2>1. CASE s \in from
      <3>1. slot[s] = q.seen[s]
        BY <2>1, <1>2, <1>10
      <3> QED  BY <2>1, <3>1, <1>2, <1>5
    <2>2. s \notin dest
      <3> SUFFICES ASSUME s \in dest PROVE FALSE
        OBVIOUS
      <3>1. PICK t \in from : to[t] = s
        BY <1>3
      <3>2. slot[s] = q.seen[s]
        BY <3>1, <1>2, <1>10
      <3> QED  BY <3>1, <3>2, <2>0, <1>2
    <2>3. CASE s \notin from
      BY <2>0, <2>2, <2>3, <1>5
    <2> QED  BY <2>1, <2>3
  <1> QED  BY <1>1, <1>8, <1>11, <1>12, <1>13 DEF ChangesInv

LEMMA MoveStep ==
    ASSUME ChangesInv, NEW c \in Clerks, Move(c)
    PROVE  ChangesInv' /\ KeepsSeats
  <1> DEFINE q == request[c]
             from == CHOOSE s \in DOMAIN q.to : TRUE
             home == q.seen[from].reg
             there == Course[q.to[from]]
  <1>1. Typed(q) /\ Sound(q) /\ q.kind = "move"
    BY Requests DEF ChangesInv, Move
  <1>2. /\ from \in DOMAIN q.to
        /\ home \in Regs \cup {None}
        /\ there \in Range(Course)
    <2>1. from \in DOMAIN q.to
      BY <1>1 DEF Sound
    <2> HIDE DEF from
    <2>2. from \in DOMAIN q.seen /\ q.to[from] \in Slots
      BY <1>1, <2>1 DEF Typed, Range
    <2>3. q.seen[from] \in Rows
      BY <1>1, <2>2 DEF Typed, Range
    <2>4. home \in Regs \cup {None}
      BY <2>3 DEF Rows
    <2>5. there \in Range(Course)
      BY <2>2, ChangesAssumption DEF Range
    <2> QED  BY <2>1, <2>4, <2>5
  <1>3. \/ Commit(c, Moved(q, home), Follow(q.to), {}, None)
        \/ \E r \in Regs \ made : Commit(c, Moved(q, r), Follow(q.to), {r}, there)
    BY DEF Move
  <1> HIDE DEF from, home, there
  <1>4. ASSUME NEW r \in Regs \cup {None}, NEW opened \in SUBSET Regs,
               NEW k \in Range(Course) \cup {None},
               Commit(c, Moved(q, r), Follow(q.to), opened, k)
        PROVE  ChangesInv' /\ KeepsSeats
    <2>1. request' = [request EXCEPT ![c] = NoRequest]
      BY <1>4, CommitCases
    <2>2. CASE UNCHANGED <<slot, fee, made, course, stale>>
      BY <2>1, <2>2, RefusedStep
    <2>3. CASE ~UNCHANGED <<slot, fee, made, course, stale>>
      <3>1. /\ slot' = Moved(q, r) /\ fee' = Filled(Follow(q.to), Moved(q, r))
            /\ made' = made \cup opened
            /\ course' = [x \in Regs |-> IF x \in opened THEN k ELSE course[x]]
            /\ stale' = (stale \cup Outdated(q)) \ {s \in Slots : ~Emptied(slot'[s])}
        BY <1>4, <2>3, CommitCases
      <3>2. /\ made' \subseteq Regs
            /\ course' \in [Regs -> Range(Course) \cup Asked \cup {None}]
        BY <3>1 DEF ChangesInv, TypeOK
      <3> QED  BY <1>1, <2>1, <3>1, <3>2, MovedStep
    <2> QED  BY <2>2, <2>3
  <1>5. CASE Commit(c, Moved(q, home), Follow(q.to), {}, None)
    BY <1>2, <1>4, <1>5
  <1>6. CASE \E r \in Regs \ made : Commit(c, Moved(q, r), Follow(q.to), {r}, there)
    <2> PICK r \in Regs \ made : Commit(c, Moved(q, r), Follow(q.to), {r}, there)
      BY <1>6
    <2>1. r \in Regs \cup {None} /\ {r} \in SUBSET Regs /\ there \in Range(Course) \cup {None}
      BY <1>2
    <2> QED  BY <1>4, <2>1
  <1> QED  BY <1>3, <1>5, <1>6

LEMMA MoveFailsStep ==
    ASSUME ChangesInv, NEW c \in Clerks, MoveFails(c)
    PROVE  ChangesInv' /\ KeepsSeats
  BY RefusedStep DEF MoveFails

-----------------------------------------------------------------------------

\* A step that leaves the reserved slots alone keeps seats.
LEMMA UntouchedSeats ==
    ASSUME \A s \in In("R") : slot'[s] = slot[s]
    PROVE  KeepsSeats
  BY DEF KeepsSeats, Reserved, In

LEMMA ChangesNext == ChangesInv /\ [Next]_vars => ChangesInv' /\ [KeepsSeats]_vars
  <1> SUFFICES ASSUME ChangesInv, [Next]_vars PROVE ChangesInv' /\ [KeepsSeats]_vars
    OBVIOUS
  <1>1. CASE SignUp
    BY <1>1, ClaimStep, SeatStep, PayStep, GiveUpStep, UntouchedSeats DEF SignUp
  <1>2. ASSUME NEW c \in Clerks, Read(c)
        PROVE  ChangesInv' /\ KeepsSeats
    BY <1>2, AskDropStep, AskReplaceStep, AskMoveStep, AskSwapStep, UntouchedSeats DEF Read
  <1>3. ASSUME NEW c \in Clerks, Write(c)
        PROVE  ChangesInv' /\ KeepsSeats
    BY <1>3, DropStep, ReplaceStep, MoveStep, MoveFailsStep, SwapStep DEF Write
  <1>4. CASE UNCHANGED vars
    BY <1>4 DEF vars, ChangesInv, TypeOK, RequestInv, FeeInv, StaleInv, SeatsArePaid, In
  <1> QED  BY <1>1, <1>2, <1>3, <1>4 DEF Next

-----------------------------------------------------------------------------
(* Courses *)

\* A row names a registration that was inserted, and always does once it is paid.
Rooted(row) == row.reg \in made \/ (row.reg = None /\ row.status # "R")

RootedInv ==
    /\ \A s \in Slots : Rooted(slot[s])
    /\ \A c \in Clerks : \A s \in DOMAIN request[c].seen : Rooted(request[c].seen[s])

\* A move commits under the registration its players had, when that is on the course
\* of the destinations, or under one that is inserted there.
LEMMA MoveCases ==
    ASSUME ChangesInv, RootedInv, NEW c \in Clerks, Move(c),
           ~UNCHANGED <<slot, fee, made, course, stale>>
    PROVE  \E r \in Regs :
             /\ slot' = Moved(request[c], r)
             /\ \A s \in DOMAIN request[c].to : course'[r] = Course[request[c].to[s]]
             /\ \/ r \in made /\ made' = made /\ course' = course
                \/ /\ r \notin made /\ made' = made \cup {r}
                   /\ \A x \in Regs \ {r} : course'[x] = course[x]
  <1> DEFINE q == request[c]
             from == CHOOSE s \in DOMAIN q.to : TRUE
             home == q.seen[from].reg
             there == Course[q.to[from]]
  <1>1. Typed(q) /\ Sound(q) /\ q.kind = "move"
    BY Requests DEF ChangesInv, Move
  <1>2. /\ from \in DOMAIN q.to /\ from \in DOMAIN q.seen
        /\ q.seen[from].status = "R"
        /\ \A s \in DOMAIN q.to : Course[q.to[s]] = there
    <2>1. from \in DOMAIN q.to
      BY <1>1 DEF Sound
    <2> HIDE DEF from
    <2> QED  BY <1>1, <2>1 DEF Sound, Typed
  <1>3. home \in made /\ made \subseteq Regs
    BY <1>2 DEF RootedInv, Rooted, ChangesInv, TypeOK
  <1>4. \/ course[home] = there /\ Commit(c, Moved(q, home), Follow(q.to), {}, None)
        \/ \E r \in Regs \ made : Commit(c, Moved(q, r), Follow(q.to), {r}, there)
    BY DEF Move
  <1> HIDE DEF from, home, there
  <1>5. CASE course[home] = there /\ Commit(c, Moved(q, home), Follow(q.to), {}, None)
    <2>1. /\ slot' = Moved(q, home) /\ made' = made \cup {}
          /\ course' = [x \in Regs |-> IF x \in {} THEN None ELSE course[x]]
      BY <1>5, CommitCases
    <2>2. course' = course /\ made' = made
      BY <2>1 DEF ChangesInv, TypeOK
    <2> QED  BY <1>2, <1>3, <1>5, <2>1, <2>2
  <1>6. CASE \E r \in Regs \ made : Commit(c, Moved(q, r), Follow(q.to), {r}, there)
    <2> PICK r \in Regs \ made : Commit(c, Moved(q, r), Follow(q.to), {r}, there)
      BY <1>6
    <2>1. /\ slot' = Moved(q, r) /\ made' = made \cup {r}
          /\ course' = [x \in Regs |-> IF x \in {r} THEN there ELSE course[x]]
      BY CommitCases
    <2> QED  BY <1>2, <2>1
  <1> QED  BY <1>4, <1>5, <1>6

\* The registrations that a step leaves in the rows: those that were there, none, or
\* the one that a claim or a move gives.
LEMMA RegsWritten ==
    ASSUME ChangesInv, RootedInv, [Next]_vars
    PROVE  \/ /\ \A s \in Slots :
                   \/ slot'[s].reg = None /\ slot'[s].status # "R"
                   \/ slot'[s].reg = slot[s].reg
                      /\ (slot'[s].status = "R" => slot[s].status = "R" \/ slot[s].reg # None)
              /\ made' = made /\ course' = course
           \/ \E S \in SUBSET Slots, r \in Regs \ made :
                /\ \A s \in S : slot'[s].reg = r
                /\ \A s \in Slots \ S : slot'[s] = slot[s]
                /\ made' = made \cup {r}
                /\ \A x \in Regs \ {r} : course'[x] = course[x]
                /\ request' = request
           \/ \E c \in Clerks : Move(c) /\ ~UNCHANGED <<slot, fee, made, course, stale>>
  <1> DEFINE Kept == /\ \A s \in Slots :
                          \/ slot'[s].reg = None /\ slot'[s].status # "R"
                          \/ slot'[s].reg = slot[s].reg
                             /\ (slot'[s].status = "R"
                                   => slot[s].status = "R" \/ slot[s].reg # None)
                     /\ made' = made /\ course' = course
  <1>0. slot \in [Slots -> Rows] /\ course \in [Regs -> Range(Course) \cup Asked \cup {None}]
    BY DEF ChangesInv, TypeOK
  <1>1. CASE \E S \in SUBSET Slots, g \in Golfers \cup {None}, k \in Asked \cup {None} :
               \E own \in S : Claim(S, own, g, k)
    <2> PICK S \in SUBSET Slots, g \in Golfers \cup {None}, k \in Asked \cup {None} :
           \E own \in S : Claim(S, own, g, k)
      BY <1>1
    <2> PICK own \in S : Claim(S, own, g, k)
      OBVIOUS
    <2> PICK r \in Regs \ made :
           /\ made' = made \cup {r}
           /\ course' = [course EXCEPT ![r] = k]
           /\ slot' = [t \in Slots |->
                IF t \in S THEN HeldBy(r, IF t = own THEN g ELSE None) ELSE slot[t]]
           /\ request' = request
      BY DEF Claim, HeldBy
    <2>1. \A s \in S : slot'[s].reg = r
      BY DEF HeldBy
    <2> QED  BY <1>0, <2>1
  <1>2. ASSUME NEW s \in Slots, NEW g \in Golfers \cup {None}, Seat(s, g)
        PROVE  Kept
    <2>1. slot' = [slot EXCEPT ![s] = WithGolfer(slot[s], g)]
          /\ made' = made /\ course' = course
      BY <1>2 DEF Seat, WithGolfer
    <2>2. WithGolfer(slot[s], g).reg = slot[s].reg
          /\ WithGolfer(slot[s], g).status = slot[s].status
      BY <1>0, GolferWritten
    <2> QED  BY <1>0, <2>1, <2>2
  <1>3. ASSUME NEW r \in Regs, Pay(r)
        PROVE  Kept
    <2> DEFINE mine == SlotsOf(r) \cap In("P")
               taken == {s \in mine : slot[s].golfer # None}
    <2>1. /\ slot' = [s \in Slots |-> IF s \in taken THEN AsReserved(slot[s])
                                     ELSE IF s \in mine THEN Free ELSE slot[s]]
          /\ made' = made /\ course' = course
      BY <1>3 DEF Pay, AsReserved
    <2>2. \A s \in taken : AsReserved(slot[s]).reg = slot[s].reg /\ slot[s].reg # None
      BY <1>0, ReserveWritten, ChangesAssumption DEF SlotsOf
    <2> QED  BY <2>1, <2>2, FreeRow
  <1>4. ASSUME NEW r \in Regs, GiveUp(r)
        PROVE  Kept
    BY <1>4, FreeRow DEF GiveUp
  <1>5. ASSUME NEW c \in Clerks, Read(c)
        PROVE  Kept
    BY <1>5 DEF Read, AskDrop, AskReplace, AskMove, AskSwap, Ask
  <1>6. ASSUME NEW c \in Clerks, NEW rows, NEW fees, Commit(c, rows, fees, {}, None),
               \A s \in Slots : \/ rows[s] = Free
                                \/ \E g : rows[s] = WithGolfer(slot[s], g)
                                \/ rows[s] = slot[s]
        PROVE  Kept
    <2>1. CASE UNCHANGED <<slot, fee, made, course, stale>>
      BY <2>1
    <2>2. CASE /\ slot' = rows /\ made' = made \cup {}
               /\ course' = [x \in Regs |-> IF x \in {} THEN None ELSE course[x]]
      <3>1. \A s \in Slots : \A g : /\ WithGolfer(slot[s], g).reg = slot[s].reg
                                    /\ WithGolfer(slot[s], g).status = slot[s].status
        BY <1>0 DEF WithGolfer, Rows
      <3> QED  BY <1>0, <1>6, <2>2, <3>1, FreeRow
    <2> QED  BY <1>6, <2>1, <2>2, CommitCases
  <1>7. ASSUME NEW c \in Clerks, Write(c)
        PROVE  \/ Kept
               \/ Move(c) /\ ~UNCHANGED <<slot, fee, made, course, stale>>
    <2>1. CASE Drop(c)
      BY <2>1, <1>6 DEF Drop
    <2>2. CASE Replace(c)
      <3> DEFINE S == DOMAIN request[c].seen
                 g == request[c].by
                 rows == [s \in Slots |-> IF s \in S THEN WithGolfer(slot[s], g) ELSE slot[s]]
                 fees == [f \in Fees |-> IF f \in FeesOn(S) THEN TakenBy(fee[f], g)
                                         ELSE fee[f]]
      <3>1. Commit(c, rows, fees, {}, None)
        BY <2>2 DEF Replace, WithGolfer, TakenBy
      <3>2. \A s \in Slots : rows[s] = slot[s] \/ \E h : rows[s] = WithGolfer(slot[s], h)
        OBVIOUS
      <3> HIDE DEF rows, fees
      <3> QED  BY <3>1, <3>2, <1>6
    <2>3. CASE Swap(c)
      <3> DEFINE q == request[c]
                 rows == [s \in Slots |-> IF s \in DOMAIN q.to
                            THEN WithGolfer(slot[s], q.seen[q.to[s]].golfer) ELSE slot[s]]
      <3>1. Commit(c, rows, Follow(q.to), {}, None)
        BY <2>3 DEF Swap, WithGolfer
      <3>2. \A s \in Slots : rows[s] = slot[s] \/ \E h : rows[s] = WithGolfer(slot[s], h)
        OBVIOUS
      <3> HIDE DEF rows
      <3> QED  BY <3>1, <3>2, <1>6
    <2>4. CASE MoveFails(c) \/ (Move(c) /\ UNCHANGED <<slot, fee, made, course, stale>>)
      BY <2>4 DEF MoveFails
    <2> QED  BY <1>7, <2>1, <2>2, <2>3, <2>4 DEF Write
  <1>8. UNCHANGED vars => Kept
    BY DEF vars
  <1> HIDE DEF Kept
  <1>9. Kept => /\ \A s \in Slots :
                     \/ slot'[s].reg = None /\ slot'[s].status # "R"
                     \/ slot'[s].reg = slot[s].reg
                        /\ (slot'[s].status = "R"
                              => slot[s].status = "R" \/ slot[s].reg # None)
                /\ made' = made /\ course' = course
    BY DEF Kept
  <1>10. \/ Kept \/ (\E c \in Clerks : Move(c)
                                       /\ ~UNCHANGED <<slot, fee, made, course, stale>>)
         \/ \E S \in SUBSET Slots, g \in Golfers \cup {None}, k \in Asked \cup {None} :
              \E own \in S : Claim(S, own, g, k)
    <2>1. CASE SignUp
      BY <2>1, <1>2, <1>3, <1>4 DEF SignUp
    <2>2. CASE \E c \in Clerks : Read(c) \/ Write(c)
      BY <2>2, <1>5, <1>7
    <2> QED  BY <2>1, <2>2, <1>8 DEF Next
  <1> QED  BY <1>1, <1>9, <1>10

\* Where the registrations in the rows of a move come from.
LEMMA MovedRegs ==
    ASSUME NEW q, NEW r \in Regs, NEW s \in Slots
    PROVE  \/ s \in Range(q.to) /\ Moved(q, r)[s].reg = r
           \/ Moved(q, r)[s] = Free
           \/ Moved(q, r)[s] = slot[s]
  BY DEF Moved

LEMMA InitRooted == Init => RootedInv
  BY FreeRow DEF Init, RootedInv, Rooted, NoRequest

LEMMA RootedStep == ChangesInv /\ RootedInv /\ [Next]_vars => RootedInv'
  <1> SUFFICES ASSUME ChangesInv, RootedInv, [Next]_vars PROVE RootedInv'
    OBVIOUS
  <1>1. /\ \A s \in Slots : slot'[s].reg \in made'
                            \/ (slot'[s].reg = None /\ slot'[s].status # "R")
        /\ made \subseteq made'
    <2>1. ASSUME NEW c \in Clerks, Move(c), ~UNCHANGED <<slot, fee, made, course, stale>>
          PROVE  /\ \A s \in Slots : slot'[s].reg \in made'
                                     \/ (slot'[s].reg = None /\ slot'[s].status # "R")
                 /\ made \subseteq made'
      <3> PICK r \in Regs : slot' = Moved(request[c], r) /\ r \in made'
                            /\ made \subseteq made'
        BY <2>1, MoveCases
      <3> QED  BY MovedRegs, FreeRow DEF RootedInv, Rooted
    <2> QED  BY <2>1, RegsWritten DEF RootedInv, Rooted
  <1>2. ASSUME NEW c \in Clerks, NEW s \in DOMAIN request'[c].seen
        PROVE  \/ s \in DOMAIN request[c].seen /\ request'[c].seen[s] = request[c].seen[s]
               \/ s \in Slots /\ request'[c].seen[s] = slot[s]
    <2>1. CASE request' = request
      BY <2>1
    <2>2. ASSUME NEW d \in Clerks, request' = [request EXCEPT ![d] = NoRequest]
          PROVE  c # d /\ request'[c] = request[c]
      BY <2>2 DEF ChangesInv, TypeOK, NoRequest
    <2>3. ASSUME NEW d \in Clerks, NEW S \in SUBSET Slots, NEW kind, NEW to, NEW by,
                 Ask(d, kind, S, to, by)
          PROVE  \/ s \in DOMAIN request[c].seen /\ request'[c].seen[s] = request[c].seen[s]
                 \/ s \in Slots /\ request'[c].seen[s] = slot[s]
      BY <2>3 DEF Ask, ChangesInv, TypeOK
    <2>4. ASSUME NEW d \in Clerks, Read(d)
          PROVE  \/ s \in DOMAIN request[c].seen /\ request'[c].seen[s] = request[c].seen[s]
                 \/ s \in Slots /\ request'[c].seen[s] = slot[s]
      <3>1. \A S \in SUBSET Slots : AskDrop(d, S) => Ask(d, "drop", S, <<>>, None)
        BY DEF AskDrop
      <3>2. \A t \in Slots, g \in Golfers :
              AskReplace(d, t, g) => Ask(d, "replace", {t}, <<>>, g)
        BY DEF AskReplace
      <3>3. \A S \in SUBSET Slots, tee \in Range(TeeTime) : AskMove(d, S, tee) =>
              \E T \in SUBSET Slots : \E to : Ask(d, "move", T, to, None)
        <4> TAKE S \in SUBSET Slots, tee \in Range(TeeTime)
        <4> HAVE AskMove(d, S, tee)
        <4> PICK to \in Injection(S, {t \in In("A") : TeeTime[t] = tee}) :
               Ask(d, "move", S \cup Range(to), to, None)
          BY DEF AskMove
        <4>1. S \cup Range(to) \in SUBSET Slots
          BY DEF Injection, Range, In
        <4> QED  BY <4>1
      <3>4. \A t, u \in Slots : AskSwap(d, t, u) =>
              \E T \in SUBSET Slots : \E to : Ask(d, "swap", T, to, None)
        BY DEF AskSwap
      <3> QED  BY <2>3, <2>4, <3>1, <3>2, <3>3, <3>4 DEF Read
    <2>5. ASSUME NEW d \in Clerks, Write(d)
          PROVE  request' = [request EXCEPT ![d] = NoRequest]
      BY <2>5 DEF Write, Drop, Replace, Move, MoveFails, Swap, Commit
    <2>6. SignUp \/ UNCHANGED vars => request' = request
      BY DEF SignUp, Claim, Seat, Pay, GiveUp, vars
    <2> QED  BY <2>1, <2>2, <2>4, <2>5, <2>6 DEF Next
  <1> QED  BY <1>1, <1>2 DEF RootedInv, Rooted

\* What a step may do to the courses of the registrations and to their slots.
CoursesKept ==
    \A r \in Regs : (r \in made \/ request' # request) /\ OnCourse(r) => OnCourse(r)'

LEMMA CourseStep == ChangesInv /\ RootedInv /\ [Next]_vars => CoursesKept
  <1> SUFFICES ASSUME ChangesInv, RootedInv, [Next]_vars, NEW r \in Regs,
                      r \in made \/ request' # request, OnCourse(r),
                      NEW s \in Slots, slot'[s].reg = r
               PROVE  course'[r] = Course[s]
    BY DEF CoursesKept, OnCourse, SlotsOf
  <1>1. slot[s].reg = r => course[r] = Course[s]
    BY DEF OnCourse, SlotsOf
  <1>2. r # None /\ (slot[s].reg = r => r \in made)
    BY ChangesAssumption DEF RootedInv, Rooted
  <1>3. ASSUME NEW c \in Clerks, Move(c), ~UNCHANGED <<slot, fee, made, course, stale>>
        PROVE  course'[r] = Course[s]
    <2> PICK x \in Regs :
           /\ slot' = Moved(request[c], x)
           /\ \A t \in DOMAIN request[c].to : course'[x] = Course[request[c].to[t]]
           /\ \/ x \in made /\ course' = course
              \/ x \notin made /\ \A y \in Regs \ {x} : course'[y] = course[y]
      BY <1>3, MoveCases
    <2>1. CASE s \in Range(request[c].to) /\ Moved(request[c], x)[s].reg = x
      BY <2>1 DEF Range
    <2>2. CASE Moved(request[c], x)[s] = Free
      BY <2>2, <1>2, FreeRow
    <2>3. CASE Moved(request[c], x)[s] = slot[s]
      BY <2>3, <1>1, <1>2
    <2> QED  BY <2>1, <2>2, <2>3, MovedRegs
  <1> QED  BY <1>1, <1>2, <1>3, RegsWritten

-----------------------------------------------------------------------------

\* The inductive invariant holds of every behaviour.
THEOREM ChangesSafe == Spec => []ChangesInv
  BY InitChangesInv, ChangesNext, PTL DEF Spec

\* Every state of the player changes has the declared types.
THEOREM ChangesTypeCorrect == Spec => []TypeOK
  <1>1. ChangesInv => TypeOK  BY DEF ChangesInv
  <1> QED  BY <1>1, ChangesSafe, PTL

\* An attached fee is for whoever sits in its slot, whatever requests and edits
\* overlap, unless a request wrote outdated rows (dropPlayers, replacePlayer,
\* movePlayers, swapPlayers, updateSlotPlayer).
THEOREM FeesStayWithGolfers == Spec => []FeesFollowGolfers
  <1>1. ChangesInv => FeesFollowGolfers  BY FeesAreWithGolfers DEF ChangesInv
  <1> QED  BY <1>1, ChangesSafe, PTL

\* A reserved slot has a fee on it, with its golfer there or taken out by the
\* group, unless a request wrote outdated rows.
THEOREM SeatsStayPaid == Spec => []SeatsArePaid
  <1>1. ChangesInv => SeatsArePaid  BY DEF ChangesInv
  <1> QED  BY <1>1, ChangesSafe, PTL

\* A registration whose slots are on its course stays so, whatever requests overlap,
\* and a request opens none that is not.
THEOREM RegistrationsKeepCourse == Spec => KeepsCourse
  <1>1. Spec => []RootedInv
    BY ChangesSafe, InitRooted, RootedStep, PTL DEF Spec
  <1>2. Spec => [][CoursesKept]_vars
    BY <1>1, ChangesSafe, CourseStep, PTL DEF Spec
  <1> QED  BY <1>2 DEF KeepsCourse, CoursesKept

\* A paid place is lost only to a request to drop or replace that very golfer, or
\* to the group's own edit of that slot.
THEOREM PaidSeatsAreKept == Spec => SeatsKept
  <1>1. Spec => [][KeepsSeats]_vars
    BY ChangesSafe, ChangesNext, PTL DEF Spec
  <1> QED  BY <1>1 DEF SeatsKept, KeepsSeats
=============================================================================
