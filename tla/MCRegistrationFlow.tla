-------------------------- MODULE MCRegistrationFlow --------------------------
(* RegistrationFlow on small instances.                                      *)
EXTENDS SignUpOutcome, TLC

CONSTANTS alice, bob, t1, t2

\* One tab each, one golfer at one tab, or at two.
OneTabEach == t1 :> alice @@ t2 :> bob
OneTab == t1 :> alice
TwoTabsOfOne == t1 :> alice @@ t2 :> alice

\* Slots, registrations, payments and intents are interchangeable.
Symmetry ==
    Permutations(Slots) \cup Permutations(Regs)
        \cup Permutations(Payments) \cup Permutations(Intents)

\* Symmetry is unsound for liveness.  There, ids are handed out in one fixed
\* order instead, as auto-increment columns do; every other behaviour is one of
\* these under other names.  No fair action hands out an id.
HandsOut(used, Ids, usedNext) ==
    usedNext # used => usedNext = used \cup {CHOOSE x \in Ids \ used : TRUE}

Created == {i \in Intents : piState[i] # "unused"}

IdsInOrder ==
    /\ HandsOut(made, Regs, made')
    /\ HandsOut(issued, Payments, issued')
    /\ HandsOut(Created, Intents, Created')

OrderedSpec == Init /\ [][Next /\ IdsInOrder]_vars /\ Fairness
===============================================================================
