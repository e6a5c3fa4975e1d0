# Verification of the BHMC sign-up

TLA+ models of event registration in this repository (`apps/api`,
`apps/public-next`): signing up and paying, changing players, refunds, live
updates, waves and capacity, and the exchange with Golf Genius. They are checked
with TLC and, for the properties listed in section 4, proved with TLAPS.

## 1. The system

BHMC's members sign up for golf events on the public site. An event either has
tee times to choose from ("choosable": its `registration_slot` rows exist from
the start) or not (rows are created on demand). The NestJS API owns the flow:

```
 tab (public-next)                    API (registration/, stripe/)           Stripe
 ------------------                   ----------------------------           ------
 pick slots        -- POST registration -->  createAndReserve     A -> P, expires = now + 5 min
 seat players      -- PATCH slots/:id ---->  updateSlot
 review            -- POST/PUT payments -->  createPayment / updatePayment
 pay               -- payment-intent ----->  createPaymentIntent -- create --> PaymentIntent
                                             store id, P -> X, expires = null
 confirmPayment    ------------------------------------------------ submit --> capture
                                             webhook <--- payment_intent.succeeded (retried)
                                             paymentConfirmed     X -> R, empty slots -> A
 give up           -- PUT cancel --------->  cancelRegistration   -> A
                                             cron 5 min: cleanUpExpired   P and expired -> A
                                             cron 1 h:  notifyStalePayments  X and long expired -> P
```

Slots go `A`vailable -> `P`ending -> `X` (awaiting payment) -> `R`eserved.

| Component | State | Operations | Hard behaviour | What makes it correct |
|---|---|---|---|---|
| Registration flow (`registration.service.ts`) | slots, registrations | createAndReserve, updateSlot, addPlayers, cancel | several tabs, clean-up committed before the claiming transaction | no slot has two takers; a clean-up never touches what is being paid for |
| Payments (`payments.service.ts`) | payments, fee rows, intents' ids | create, update, createPaymentIntent, paymentConfirmed | a Stripe call in the middle of a handler; retried cards | every charge is recorded, once, and buys what it was for |
| Stripe webhook (`stripe/`) | none of its own | succeeded, refund created and updated | late, repeated, refused deliveries | a capture is confirmed in the end, and once |
| Expired-registration cron (`cleanup.service.ts`) | rows read at its start | cleanUpExpired | acts on what it read earlier | holds end; no payment in flight is deleted |
| Stale-payment cron (`stale-payment.service.ts`) | rows read at its start | notifyStalePayments | mails between read and write | what is reserved stays reserved |
| Admin registration (`admin-registration.service.ts`) | as above | create, payment link | slots that skip `P` | the same ledger |
| Player changes (`player.service.ts`) | slots, fees, registrations' courses | drop, replace, move, swap | reads before the transaction, used inside it; overlapping requests | fees and golfers stay together; nobody loses a paid place to somebody else's change |
| Refunds (`refund.service.ts`, `stripe-webhook.service.ts`) | refund rows, `is_paid` | processRefunds, refund.created, refund.updated | transaction, Stripe call and update are three steps; webhooks overtake them; stale pages | money goes back once, never without a trace, and is confirmed when it arrived |
| Live updates (`registration-broadcast.service.ts`, `use-registration-sse.ts`, `sse-version-tracker.ts`) | a stream per event, a version per tab | notify, subscribe, unsubscribe, apply, poll | throttling, overtaken builds, errors, restarts, crossing answers | a notice reaches every subscriber; a page never goes back |
| Waves and capacity (`wave-calculator.ts`, `reserve-utils.ts`, `createNonChoosableSlots`) | the page's wave and timer; counts read by a transaction | window and wave checks, append_teetime, timer, snapshots; COUNT and insert | integer division, two clocks, late snapshots, groups appended; COUNT without locks | page and API agree on who may sign up; a full event stays full |
| Sign-up client (`public-next/lib/registration`) | the provider's state | reducer, pages | page loss, going back, stale state | sends only what it still holds |
| Golf Genius (`golfgenius/`) | a stream per event, timers, imported rows | import, export, join, complete, fail, clean up | check-then-start, timers that do not know their operation, deletes before fetches, restarts | one operation per event; results are not lost or doubled; no browser waits for ever |
| Domain rules, events CRUD, mail, reports, auth, admin site, Django | - | sums, CRUD, output | - | section 5 |

`PROJECT.json` lists every component with its status, and every hazard of the
code at its line with the properties that would catch it.

## 2. Modules

| Module | What it is |
|---|---|
| `SlotLedger` | Abstract specification of the tee sheet: a slot is free, held by a registration or sold to it; it changes hands only by becoming free; what is sold stays sold. |
| `RegistrationFlow` | The sign-up of a choosable event: tabs, API handlers, cron jobs, Stripe and its webhook. States the properties, and that it implements `SlotLedger`. |
| `BookingInvariant` | The inductive invariant of a sign-up in which at most Stripe's answer is overtaken, in named parts. |
| `SignUpOutcome` | How the sign-up looks from the tee sheet alone: the refinement mapping from `RegistrationFlow` to `PlayerChanges`. |
| `MCRegistrationFlow` | Small instances for TLC: who owns which tab, and symmetry. |
| `RegistrationFlowProofs` | Proofs for any hazards: types, free slots, nothing reserved uncharged, the refinement. |
| `BookingProofs` | Proofs that `BookingInvariant` is inductive and implies the properties of the booking and window runs, and that the sign-up implements that of `PlayerChanges`. |
| `LiveUpdates` | The tee sheet on open pages: change notices, the throttled and numbered snapshots of one event's stream, SSE connections, and what a tab applies or fetches. |
| `MCLiveUpdates` | Small instances for TLC. |
| `LiveUpdatesProofs` | Proofs that `LiveInv` is inductive for any hazards, and of the safety properties of the live updates. |
| `PlayerChanges` | Drop, replace, move and swap as reads and later transactions, any number of them overlapping, among other people's sign-ups. |
| `Refunds` | A refund request step by step, Stripe's refunds, those made in its dashboard, and its two webhook events. |
| `Admission` | Who may sign up when: waves as the API and as the page compute them, under two clocks; the capacity of events without tee times. |
| `GolfGenius` | Imports and exports for one event: starting, progress streams and their timers, and the replacement of rows. |
| `MCPlayerChanges`, `MCRefunds`, `MCAdmission`, `MCGolfGenius` | Small instances for TLC. |
| `PlayerChangesProofs`, `RefundsProofs`, `GolfGeniusProofs`, `AdmissionProofs` | An inductive invariant each, and the safety properties that follow. |
| `Sums` | The sum over a finite set, and how it changes with one element: what `AdmissionProofs` needs of the fold in `Players` and `FairWave`. |

`LiveUpdates` sees the sign-up only as a sequence of committed changes, each
followed later (or never) by `notifyChange`; `RegistrationFlow` does not depend
on what pages display, because every handler checks the database again. The two
are therefore not composed. `PlayerChanges` has the sign-up in it, reduced to
what it does to slots, fees and courses: `Claim`, `Seat`, `Pay` and `GiveUp` are
the outcomes of the handlers that `RegistrationFlow` models in detail. `Refunds`
starts where that ends, with captured payments. `Admission` decides which
requests reach `createAndReserve`. `GolfGenius` shares no table with any of them.

### State and actions of `RegistrationFlow`

| TLA+ | Code |
|---|---|
| `status`, `slotReg`, `occupant` | `registration_slot.status`, `.registration_id`, `.player_id` |
| `made`, `regUser`, `expires` | rows of `registration`, `.user_id`, `.expires` |
| `issued`, `live`, `code`, `confirmed`, `fees` | auto-increment ids, rows of `payment`, `.payment_code`, `.confirmed`, the `registration_fee` rows of each payment by slot |
| `piState`, `piPay`, `piReg`, `piFor` | a PaymentIntent at Stripe, its metadata, and its amount as the slots whose fees were added up for it |
| `stage`, `mode`, `held`, `pay`, `cart`, `tabPI` | the provider's state in a browser tab: step, edit mode, `state.registration`, `state.payment.id`, `state.payment.details`, the intent it waits for |
| `dueSlots`, `staleRegs` | rows held in memory by a running cron job |

| Action | Code |
|---|---|
| `ReserveCleanUp`, `ReserveClaim`, `ReserveConflict` | `createAndReserve` / `reserveChoosableSlots`: the clean-up of what the user still held (committed), then the transaction, or its refusal |
| `UpdateSlot` | `PATCH slots/:id` and the reducer's add-player / remove-player |
| `CreatePayment`, `UpdatePayment`, `Back` | `createPayment`, `updatePayment`, back from the payment page |
| `CreateIntent`, `StoreIntent`, `AbortIntent` | `createPaymentIntent` up to the Stripe call, its success, its failure or a crash |
| `CardDeclined`, `CardSubmitted`, `Capture` | `stripe.confirmPayment` in the page; Stripe (external) |
| `PaymentSucceeded` | `handlePaymentIntentSucceeded` and `paymentConfirmed`, any number of deliveries |
| `Cancel`, `LoseTab` | `cancelRegistration`; a tab closed or reset |
| `Expire`, `FindExpired`, `CleanUpExpired` | time (external); `cleanUpExpired`, its query and its loop body |
| `StartEdit`, `AddPlayers` | `startEditRegistration`; `addPlayersToRegistration` |
| `AdminCreate`, `OpenPaymentLink` | `createChooseableRegistration`; `getAdminPaymentDetails` and the mailed link |
| `FindStale`, `ResetStale` | `notifyStalePayments`, its query and its reset |

### Hazards

`Hazards` names disturbances that are really there, so that each run and each
theorem can say which of them a property survives:

- `window`: a hold may be cancelled or expire while `createPaymentIntent` waits for Stripe;
- `stale`: a tab may save a payment, or edit a slot, for a registration already taken from it;
- `manage`: a group returns to add players or buy fees;
- `admin`: an administrator creates registrations, and the stale-payment job finds them;
- `jobs`: cron jobs act on rows that changed after they read them;
- `unsure`: `confirmPayment` reports an error although Stripe has taken the
  submission (its answer was lost). The page takes every error for a refusal.

`Hazards = {}` is a sign-up in which the answer of Stripe is not overtaken and a
refusal is a refusal, tabs notice that their hold is gone, nobody comes back to a
paid registration and jobs are quick. All interleavings of tabs, Stripe, webhook deliveries, expiry
and clean-up between handlers remain, and so do lost tabs, declined cards,
going back to change the cart, and several tabs of one account.

### State and actions of `LiveUpdates`

| TLA+ | Code |
|---|---|
| `rev`, `wave` | the number of tee-sheet changes committed; `getCurrentWave` of now |
| `owed` | handlers between their commit and `notifyChange` |
| `stream`, `version`, `lastWave`, `cachedEvent`, `count` | the entry of `eventStreams` and its `cleanupTimeout`; the fields of `EventStreamState` |
| `window`, `build`, `result`, `ghosts`, `subs` | RxJS: `throttleTime`'s window and value, `switchMap`'s inner build and what it has read, builds it dropped that still run, `share`'s subscribers |
| `inbox` | snapshots on their way over each SSE connection, in order |
| `conn`, `lastV`, `shown`, `fetch` | a tab's EventSource, `lastVersionByEvent`, its query cache, its HTTP request under way |
| `used`, `told`, `announced` | history: connections opened, what the pipeline was told of on each (nothing once a failed query has skipped it) and the wave sent |

| Action | Code |
|---|---|
| `Commit`, `NotifyChange`, `CommitSilently` | a handler's transaction and its later `notifyChange`; a handler without one |
| `NextWave`, `CheckWaveChange` | time; the 5 s interval |
| `WindowEnds` | the throttle's timer: emit and reopen, or close |
| `BuildReads`, `BuildEnds`, `BuildFails`, `GhostEnds` | `buildUpdateEvent` up to its query, to its end, its `catchError`; a dropped build ending |
| `Connect` (`Subscribe`), `ServerCloses` (`Unsubscribe`), `CleanupStream`, `Crash` | `subscribe`, `onUnsubscribe`, the idle clean-up, death of the process |
| `ReceiveUpdate`, `Disconnect` | `handleSSEUpdate`; `onerror` or leaving the page, which resets the tracker |
| `StartFetch`, `FetchReturns` | `useRegistrationSlots` |

Its hazards: `slow` (a build may outlast the 500 ms window), `errors` (a query
fails), `silent` (a handler does not notify), `crash` (the API restarts). Without
`slow` a window does not emit before the builds under way have ended. A
snapshot is the number of changes it shows: slots are read in one query, so a
snapshot is a prefix of the commits. The wave in a snapshot, which the page
overrides with its own clock, is kept only as `announced`. Several API processes
are not modelled: streams live in the memory of one.

### State and actions of `PlayerChanges`

| TLA+ | Code |
|---|---|
| `slot` | `registration_slot.status`, `.registration_id`, `.player_id` |
| `made`, `course` | the rows of `registration`, `.course_id` |
| `fee` | `registration_fee.registration_slot_id`, and (history) whose place the fee paid for |
| `request` | what a request has read before its transaction, and what it is about to write |
| `stale` | history: golfers a transaction dealt with from rows that had changed since they were read, and the paid slots the group has taken such a golfer out of |

| Action | Code |
|---|---|
| `Claim`, `Seat`, `Pay`, `GiveUp` | `reserveChoosableSlots` and `reserveSlots`, `updateSlotPlayer`, `paymentConfirmed`, `releaseSlots`, in outcome; `IsSignUp` says that the sign-up comes to nothing else |
| `AskDrop`, `AskReplace`, `AskMove`, `AskSwap` | the reads and validations of `dropPlayers`, `replacePlayer`, `movePlayers`, `swapPlayers` |
| `Drop`, `Replace`, `Move`, `Swap` | their transactions, which write by id what was read; rolled back when UNIQUE(event, player) refuses (`Commit`) |
| `MoveFails` | destinations are updated one by one: the unique key may refuse a row that a later update would have freed |

`movePlayers` picks free destinations before its transaction and overwrites them
inside it, so a golfer who claims one in between is overwritten, and the code
has no check against it. The model does what the code does; the golfers
concerned are in `stale`, and the properties speak of everybody else. Only
`KeepsCourse` holds without that exception. The branch for events without tee
times, the membership flag that a season event sets, and mails are left out.

`Claim` takes any free slots under any course the client names (`Asked`): the
API checks that there is a course, and not that the slots are on it; an
administrator's `reserveSlots` stores none. `KeepsCourse` therefore says what the
four changes preserve and what they open. `Seat` edits any slot of a group, paid
for or not, because `updateSlot` checks that the caller is one of the group and
does not look at the status; what was paid for a reserved slot is then for
whoever is put there, as in a replacement, and waits for somebody if nobody is.

### State and actions of `Refunds`

| TLA+ | Code |
|---|---|
| `paid` | `registration_fee.is_paid` |
| `code`, `confirmed`, `rowFees` | rows of `refund`: `refund_code`, `confirmed`; (history) the fees cleared with each row |
| `stage`, `counted`, `row`, `ref` | a request being processed: how far it is, the fees in its amount, its row, Stripe's answer |
| `outcome`, `charge`, `covers`, `acked` | refunds at Stripe (external), the payment or the stray charge (`Strays`) each refunds, and the events answered with 200 |
| `contested`, `early` | history: fees read by two requests before either recorded them; refunds whose success was reported before a row had their code |

| Action | Code |
|---|---|
| `Read`, `Record`, `AskStripe`, `StoreCode` | `processRefunds`: the payment and its paid fees, the transaction, `createRefund`, `updateRefundCode` |
| `Fail` | a refusal, an error, a lost answer, a refused unique key or the end of the process, at any point |
| `RefundCreated`, `RefundUpdated` | the webhook's handlers, any number of deliveries in any order |
| `Dashboard`, `Settle` | Stripe (external) |

A request for several payments is a sequence of such requests that ends with the
first error; the callers never send an empty list of fees. Fees are of one size,
so Stripe's own limit, the amount charged, protects least. The unique key on
`refund_code` is in `src/backend/payments/migrations/0007_refund_code_unique.py`.
`refund.updated` that comes before any row has the code confirms nothing, is
acknowledged, and is not sent again: that refund stays unconfirmed (`early`).
`Strays` are charges whose payment row is gone, such as the one run
`intent_window` ends with. An administrator refunds them in Stripe's dashboard;
`handleRefundCreated` finds no payment, answers 200 and records nothing, so
`RefundGetsRecorded` and `RefundGetsConfirmed` speak of refunds of the others.
Refunds without a payment intent are the same to the handler.

### State and actions of `Admission`

| TLA+ | Code |
|---|---|
| `now`, `total`, `canChoose` | the API's clock, `event.total_groups`, `event.can_choose` |
| `announced`, `mail`, `listening` | the wave last pushed, snapshots on their way, tabs that can connect |
| `skew`, `known`, `wave`, `timer`, `click` | a tab: its clock, the event it loaded, its current wave, its wave timer, its request |
| `count`, `players` | what a transaction has counted; the players in each user's registration |
| `raced` | history: registrations inserted on a count that was out of date |

| Action | Code |
|---|---|
| `Tick`, `AppendTeetime` | time; `append_teetime` in Django |
| `Announce` (`AnnounceChange`) | a snapshot for a change of the tee sheet, or of the wave (`checkWaveChange`) |
| `LoadEvent`, `WaveTimer`, `SSEUpdate` | the provider's wave effect, its timer, `handleSSEUpdate` |
| `Register`, `Reserve` | a click on an offered group; the request's arrival and `validateRegistrationRequest` |
| `CountPlayers`, `InsertRegistration` | `createNonChoosableSlots`: the transaction's snapshot, its inserts or its refusal |
| `FillSlot`, `Leave` | `updateSlotPlayer`, `addPlayersToRegistration`; `releaseSlots` |

Events without waves and shotgun numbering are left out. A request is checked
against the wave of its first slot, as in the code; a page claims slots of one
group only. A tab whose clock is ahead may offer what is then refused, so
`NoRefusedOffer` speaks of clocks that are right or behind.

### State and actions of `GolfGenius`

| TLA+ | Code |
|---|---|
| `stream`, `timers` | `activeOperations` of one event; `setTimeout` calls that will clean it up, which carry the event and not the operation |
| `looking` | requests between finding nothing running and starting |
| `phase`, `action`, `todo`, `work` | an operation: how far it is, what it imports, the tables left, the one at hand |
| `rows` | whose rows each table holds (`tournament_result`, `tournament_points`, pairings) |
| `emptied`, `cut` | history: tournaments an import left without results; operations whose stream was taken away while they ran |

| Action | Code |
|---|---|
| `StartNow`, `LookUp`, `Begin`, `Refuse` | the controller's handlers and `startTracking` |
| `GiveUpOn`, `FetchResults`, `DeleteResults`, `DeleteFirst`, `FetchAfter`, `Insert` | the loops of `importAllResultsStream`, `importTournamentPoints` and `processImportAsync` |
| `Complete`, `Abort`, `Logged`, `CleanupOperation` | `completeOperation`, `errorOperation`, their log entries, `cleanupOperation` |
| `Crash` | death of the process |

After five minutes, or when a timer of an earlier operation fires, the stream of
a running operation is taken away and a second one may start beside it; those
operations are in `cut`, the one exception of `OneAtATime` and `NoDoubleRows`.
Points and tee sheets are deleted before they are fetched, and nothing is
promised of them when the fetch fails. Score, champion and low-score imports,
the syncs, and what the documents of Golf Genius contain are left out.

### Abstractions of `RegistrationFlow`

- An API handler is one step, except where it commits and goes on
  (`createAndReserve`), waits for Stripe (`createPaymentIntent`) or, with
  `jobs`, is a cron job. Interleavings of the statements of two handlers
  are not modelled (plan: `RegistrationRaces`).
- Slots are interchangeable places of one tee time; the requesting player is
  seated in any one of the claimed slots where the code takes the lowest id.
- An account and its player are one value. The rule that a golfer does not
  remove themselves is the page's and is left out: any slot may be emptied.
- Amounts are the set of slots they are for. The cart is not empty when it is
  saved; a free sign-up is left out. `isPaid` of a fee is `confirmed` of its payment.
- `expires` is null, in the future or past; "more than an hour past", which
  the stale-payment job asks for, is also `past`.
- "Requested" and "Waived" are both the code `"admin"`; a waived payment is confirmed.
- Membership, registration windows, waves and session limits refuse requests
  and are left out: a refused request writes nothing.

## 3. Runs

All finish in three minutes at most. `CHECK_DEADLOCK FALSE` in all but the
live runs: ids are finite and time ends, so a system in which all are used up
stops. Tabs of `LiveUpdates` can always poll, so there deadlock is checked.

| Run | Instance | Shows |
|---|---|---|
| `booking` | the two tabs of one golfer; 2 slots, 2 registrations, 2 payments, 2 intents; no hazard; fairness | `ChargeIsRecorded`, `ChargeHasPlace`, `NoDuplicateCharge`, that `SlotLedger` is implemented, `CaptureIsConfirmed`, `HoldEnds` |
| `window` | 2 golfers, a tab each; 2 slots, 2 registrations, 2 payments, 2 intents; holds end while Stripe creates an intent | `ReservedExactlyPaid`, `NoInFlightPaymentDropped`, and that the sign-up of `PlayerChanges` is implemented |
| `everything` | 1 tab, 1 intent; all hazards | types, `AvailableIsUnheld`, `ReservedWasCaptured` |
| `intent_window`, `expiry_job` | 1 tab; the one hazard each needs | two disagreements between the code and what its comments say, see `findings` |
| `live_safety` | 2 tabs, 2 connections, 1 change, all hazards | types, `EntryOutlivesSubscribers`, `NoNoticeLost`, `ConnectedNeverBack` |
| `live_catch_up` | 1 tab, 1 connection, 2 changes, 2 waves; slow builds, restarts; fairness | `ConnectedCatchUp`, `WaveIsAnnounced` |
| `changes` | 2 golfers, 3 slots in 2 tee times on 2 courses, of which clients name 1; 2 registrations, 2 fees, 2 overlapping requests | types, `FeesFollowGolfers`, `SeatsArePaid`, `KeepsCourse`, `SeatsKept` |
| `refunds` | 1 payment with 2 fees, 1 stray charge, 2 requests, 2 rows, 2 refunds at Stripe; fairness | types, the four safety properties, `RefundGetsRecorded`, `RefundGetsConfirmed` |
| `admission` | 3 waves over 5 units of time, 4 groups and then 5, a tab whose clock is right, behind or ahead, 2 snapshots under way; 3 users for 2 places, groups of 2; fairness | types, `NoRefusedOffer`, `WavesArePunctual`, `OnlyRacesOverbook`, `EveryGroupOpens` |
| `overbooked` | as `admission` | players added to a registration are not counted: an event without tee times gets more than its maximum, see `findings` |
| `golf_genius` | 3 operations, a table of results and one of pairings; fairness | types, `OneAtATime`, `NoDoubleRows`, `ResultsSurvive`, `StreamsEnd` |

Bounds. Two slots let a booking be partly filled, over-selected, or overlap
another; two intents let a card be retried, and two payments let two bookings be
charged; two registrations let a golfer give one up and start over, or hold both.
Two tabs of one account are the case of plans/duplicate-payment-analysis.md: what
one of them starts makes the other's hold be cleaned up. Symmetry is unsound for
liveness, so `booking` hands out ids in one fixed order instead (`OrderedSpec`):
a behaviour that uses them in another order is one of these under other names,
and no step that fairness asks for hands out an id. Ids are never reused, as
in the database; when they run out the behaviour simply ends. What the runs
leave to size is what the proofs are for.

In `live_safety` one change is enough to tell an old tee sheet from a new one;
two connections let a tab reconnect while its old connection is still
subscribed, after the stream was dropped, or after a restart, and two tabs share
a stream. In `live_catch_up` the second change is committed and notified while
the first is in the throttle, being built, or already overtaken.

In `changes` two slots share a tee time and a third is on the other course, so a
move can go to another course, a swap can cross it, and a destination can be
claimed between a request's read and its write; two requests are what it takes
for one to act on rows the other has changed. Two golfers can fill a registration,
be swapped, or take each other's seat; clients name one of the courses for slots
on either. In `refunds` two fees of one
payment let requests overlap in one fee, in both, or in none, and leave Stripe
room for a second refund of the same charge; a third refund would only repeat
what the second does. In `admission` three waves share neither the time nor the
groups evenly, before or after a tee time is appended, and two snapshots can be
on their way across a change of wave; tabs share nothing, so one is enough; three
users are one more than there are places. In `golf_genius` a third operation can
start while a second one runs under the timers of a first.

Which hazard breaks what: each admitted alone, on instances of this size with one
tab each and with two tabs of one golfer. `window`, an answer of Stripe that is
overtaken, breaks `ChargeIsRecorded`, `ChargeHasPlace` and `NoDuplicateCharge` and
nothing else, which is why `ReservedExactlyPaid`, `NoInFlightPaymentDropped` and
`IsSignUp` have a run and theorems of their own. `NoDuplicateCharge` goes with the
others because it speaks of the amounts of intents: a tab pays for slots it lost
while Stripe was creating its intent, and so does who claimed them next. Each of
the other hazards breaks all six; `admin` leaves `ReservedIsPaid`, the first half
of `ReservedExactlyPaid`. `IsLedger` survives each of them.

What the code is known to do, and no property therefore denies:

- Players added to a paid registration are reserved by the next payment that
  anybody of the group makes, theirs or not (`ReservedIsPaid` is stated for
  groups that do not come back).
- An error of `confirmPayment` is a refusal to the page. If Stripe had taken the
  submission, the next attempt makes a second intent and stores its id over the
  first, whose charge is then found by nobody (hazard `unsure`).
- A refund of a charge without a payment row is acknowledged and not recorded.
- A sign-up may name a course its slots are not on; a registration of
  `reserveSlots` has none.
- The stale-payment job resets rows that it read earlier, so a slot that was
  reserved meanwhile becomes pending, and under an expiry that has passed the
  expiry job then deletes the payment. `IsLedger` fails when an administrator
  and deferred jobs are both admitted.
- A build of the tee sheet that fails is not retried until the next notice or
  change of wave, though a comment in `registration-broadcast.service.ts` expects
  the wave timer to do it.

What the live updates do not promise, though a reader of their comments may
expect it, is listed under `hazards` without a property: a handler that does not
notify (`updateSlotPlayer`, `replacePlayer`, `resetStaleRegistrations`) is seen
only with the next notice; an answer over HTTP that is newer than the last
snapshot is dropped; a subscriber that is not the first gets nothing until the
next notice. `WaveIsAnnounced` is stated for streams whose builds are never
overtaken: a build that `switchMap` has dropped still writes `lastWave` when it
ends, and the timer then sees no change to announce.

Fairness (`booking`). Weak fairness of the clock and the expiry job (a cron job,
every five minutes), of Stripe's answer to the API (or its failure), and of
the webhook (Stripe retries until it gets a 2xx). Nothing a person does is fair:
nobody has to submit a card, keep a tab open or cancel.

Fairness (`refunds`). Weak fairness of Stripe settling a refund and delivering
each event until it is acknowledged. Requests may end anywhere.

Fairness (`admission`). Weak fairness of the clock, of a tab's timer, of delivery
of snapshots, and of the announcement of a change of wave, which an interval
makes every few seconds.

Fairness (`golf_genius`). Weak fairness of the clean-up timers only: operations
may hang, as they do when Golf Genius does not answer.

Fairness (live runs). Weak fairness of a handler that has committed and is
about to notify, of timers, of started queries, of delivery on a connection
that lasts, and of each side noticing that a connection has ended. Commits,
connections, departures and fetches are free.

## 4. Proofs

For every number of users, tabs, slots, registrations, payments and intents.
The assumption is `FlowAssumption`: hazards are from the list, every tab
has an account, and null and the two fixed codes are not ids. `ImplementsSignUp`
also uses `OutcomeAssumption`: null is no slot, and a golfer is none either.

Whatever the hazards (`RegistrationFlowProofs`):

- `TypeCorrect`: `Spec => []TypeOK`.
- `FreeSlotsAreUnheld`: a slot is AVAILABLE exactly when it has no registration.
- `NothingReservedUncharged`: a reserved slot's registration has a captured charge.
  The invariant alone is inductive: the webhook reserves slots of its intent's
  registration only, the intent is captured for ever, and a slot leaves its
  registration only by ceasing to be reserved.
- `FeesOfLive`, on which `BookingProofs` rests: a payment that was deleted has no fees.
- `ImplementsLedger`: `Spec => IsLedger`, unless both `admin` and `jobs` are
  admitted: the second item of the list at the end of section 3.

As long as at most Stripe's answer is overtaken, `Hazards \subseteq {"window"}`
(`BookingProofs`), from `BookingInv`:

- `ReservedAndPaidAgree`, `InFlightPaymentsStay`.
- `ImplementsSignUp`: `Spec => IsSignUp`. Seen from the tee sheet, tabs, intents, cron
  jobs and the webhook come to the claims, seatings, payments and holds given up of
  `PlayerChanges`, so that what is proved of later changes starts from what
  a sign-up produces. A slot awaiting payment counts as held, a fee counts once its
  payment is confirmed. Each handler is one such step or is not seen: the webhook is
  `Pay` because `SubmittedInv` has every slot of the registration waiting and its
  players exactly those charged for, and a clean-up is `GiveUp` because `ClockInv`
  and the refusals leave it no reserved slot. `PlayerChanges` has no step for what
  the other hazards do (a group that adds players to a registration it has).

Without hazards, from the same invariant:

- `ChargesAreRecorded`, `ChargesHavePlace`.
- `NoSlotChargedTwice`: two submitted intents are for different slots. It compares
  the amounts of the intents, which stay what they were when a payment is changed
  or deleted, and not fee rows. `AmountInv`, inductive together with `BookingInv`,
  ties the two while it matters: from the sum in `createPaymentIntent` until the
  card is submitted, and until the webhook has come, the fee rows are those of
  the amount.

None of these is inductive by itself. That a clean-up spares a payment in flight
depends on the clock having stopped when the intent was attached, that on the
slots still being those of the registration, that on the tab's cart being what
is seated, and that on no other tab having the registration. `BookingInv` says
exactly these things: a registration and its payment belong to one tab
(`TabInv`), whose cart is what is occupied (`CartInv`) and what the payment has
fees for (`TabPayment`); an intent the tab waits for is for that payment
(`TabIntent`), and nobody else can touch what an intent under way is for
(`CreatedInv`); a running clock means pending slots (`ClockInv`) and no payment in
flight (`FeeInv`); codes name answered intents (`CodeInv`); a submitted charge is
out of every tab's reach until it is confirmed (`SubmittedInv`).

With the window, the expiry job or a cancellation may delete the payment while
its intent is being created. All of this then speaks of payments that still
exist, and `LostInv` says what makes the rest harmless: a payment is only deleted
together with the registration's hold on its slots, so an intent whose payment is
gone has no slot to reserve and the tab that asked for it has nothing to save. `KeptInv` says
that without the hazard there is no such intent, which the three theorems about
the charge need. The proof has a lemma per action, each with a step per part that
the action can disturb; an action that leaves a part's variables alone is
dismissed by one of the frame lemmas.

Live updates, whatever the hazards (`LiveUpdatesProofs`), for every number of
tabs, connections, changes and waves; `LiveAssumption` says that connections are
finitely many and that null is none of the values used:

- `LiveTypeCorrect` and `EntriesStay`: types and the subscriber count, which are
  inductive together.
- `LiveSafe`: the invariant `LiveInv`. That a page never goes back is not
  inductive: it needs that every snapshot on its way is newer than what the tab
  has applied, hence that snapshots are sent in the order in which they were
  read, hence that what is being built is at least as new as everything sent, and
  that a stream restarts its numbers only when nobody is subscribed.
- `TabsNeverGoBack`.
- `NoticesArrive`: `NoNoticeLost`, the safety half of `ConnectedCatchUp`. Each
  step hands a notice on: the throttle to a build, the build, which reads after
  it, to a numbered snapshot, the snapshot to the tab. Besides `LiveInv` (the
  number is one the tab has not seen, and a snapshot that comes before it takes
  nothing back) it needs that the pipeline is told only of what is committed,
  and nothing on a connection not yet opened. A query that fails loses the
  notices it was to show, unless the throttle holds a later one; what is left of
  the liveness property is that timers fire and queries end.

Player changes (`PlayerChangesProofs`), for every number of golfers, slots,
courses, registrations, fees and overlapping requests. `ChangesAssumption` says
that slots of one tee time are on one course and that null is no id.

- `ChangesTypeCorrect`, `FeesStayWithGolfers`,
  `SeatsStayPaid`, and the action properties `PaidSeatsAreKept` and
  `RegistrationsKeepCourse`.

`ChangesInv` adds what a request knows while it waits (`RequestInv`: a move goes
from reserved slots to slots that were free, of one course, one for each
player; a swap goes there and back), and that a fee is attached only to a
reserved slot and, but for stale golfers, is for whoever sits there (`FeeInv`),
and that a slot is stale only while it is paid for and empty (`StaleInv`). Lemma `Fresh` carries the argument: if a golfer a
transaction deals with is not stale afterwards, the rows are as they were read,
and then what was true when reading is true when writing. With it each
transaction moves fee and golfer alike.

Refunds (`RefundsProofs`), for every number of payments, fees, requests, rows and
refunds. `RefundsAssumption` says that fees belong to payments, that a stray
charge is no payment, and that the ids of rows and of Stripe's refunds differ
from each other and from null.

- `RefundsTypeCorrect`, `MoneyGoesBackOnce`, `UnpaidFeesAreExplained`,
  `ReturnedFeesAreUnpaid`, `ConfirmedRefundsArrived`.
- `AcknowledgedWorkIsDone`, the safety half of the two liveness properties: an
  event that is acknowledged, so that Stripe will not send it again, has put its
  refund on record, if it is of a payment the club knows, or confirmed its row,
  and no later step takes that back.

`RefundInv` says that a request that has recorded owns its row, and its fees are
no longer paid (`RowInv`), that Stripe's answer is for them (`AnswerInv`), that a
row of the webhook has its own id as its code (`RefInv`), and that a fee not
contested is in the hands of one request, with no money returned yet while that
request has not asked Stripe (`ClaimInv`).

Golf Genius (`GolfGeniusProofs`), for every number of operations and tables.
`GolfGeniusAssumption` says which action replaces each table, and that null and
the old rows are no operations.

- `ImportsTypeCorrect`, `OperationsExclude`, `ImportsReplace`,
  `FailedFetchesSpareResults`.

`ImportInv` says that an operation that runs uncut owns the stream (`StreamInv`,
from which exclusion follows), that a table is replaced only by the action it
belongs to and stays on the operation's list until it is done with it
(`TodoInv`), and that between a delete and an insert only the rows of an
operation running beside it can appear (`WorkInv`).

Waves and capacity (`AdmissionProofs`, `Sums`), for every number of waves,
groups, tabs, users and places, and all times and clocks. `AdmissionAssumption`
says that there are finitely many users, that waves, groups, places and sizes are
positive, and that the priority sign-up begins before the sign-up, and that before
its end. The number of groups need not be a multiple of the number of waves, nor
as large.

- `AdmissionTypeCorrect`, `OffersAreHonoured`, `WavesBeginOnTime`,
  `CountsKeepTheMaximum`.

`NoRefusedOffer` is not inductive: that a request is admitted depends on what the
tab believed when it was clicked. `OfferInv` says that a tab knows of no more
groups than there are (`KnownInv`), that a snapshot under way names a wave whose
time has come (`MailInv`), that a tab with a clock that is right or behind is in
a wave whose time comes within the millisecond, because the tab cuts unlock
times to milliseconds and the API does not (`WaveInv`), and that a request is for
a group whose wave had come by one millisecond after the click, in the numbering
that holds now (`ClickInv`). The lemmas behind it are about the three division
formulas: the waves up to `w` hold `Upto(w, n)` groups (`StartingWaveTakes`), which
grows with `n`, so that an appended tee time moves no group to a later wave
(`StartingWaveFalls`); and the number of unlock times that have passed is
a wave the API has reached (`PassedIsReached`). `WavesBeginOnTime` says of the API
alone, on its own clock, whom it admits from when. It compares with groups dealt out as evenly as possible, whatever the sizes: every
non-increasing sequence of the two sizes with the right sum has `Upto` as its
partial sums (`FairTakes`).

`Sums` gets its facts about `MapThenSumSet`, which is defined by recursion over
a set, by way of the least number that would be a counterexample: the induction
theorems of the library are out of reach, a minimal element is not.

Only model-checked: the liveness properties (`CaptureIsConfirmed`, `HoldEnds`,
`WaveIsAnnounced`, `ConnectedCatchUp`, `RefundGetsRecorded`, `RefundGetsConfirmed`,
`EveryGroupOpens`, `StreamsEnd`). Fairness and `ENABLED` are out of the prover's
reach. Every invariant and action property of the passing runs is proved.

## 5. Plan, and what is not modelled

Next, in this order:

1. `RegistrationRaces`: the same tables as `RegistrationFlow` one SQL statement
   at a time, for the handlers that are not transactions (`updatePayment`,
   `createPaymentIntent` after Stripe's answer, `releaseSlots`, cancel), with a
   crash between any two. Three hazards in `PROJECT.json` wait for it.
2. Events without tee times in `PlayerChanges`: slots that are deleted instead of
   freed, and the administrator's `createNonChoosableRegistration`.
3. `CustomerSession`: one Stripe customer per player under concurrent requests.
4. `PlayerChanges` with groups that come back, so that `IsSignUp` can speak of
   `manage` and `admin` too.
5. The remaining imports of `GolfGenius`.

Not modelled: content CRUD, mail, reports, announcements, documents and
rendering keep no state the flow reads, or only print it. Fee arithmetic and the
points and payout rules are sums over single values without a second actor.
Authentication only names the caller. The admin site is a client of the same
API, and Django owns the schema and content management. They are most of the
repository's lines; behaviour that goes wrong over several steps or actors is in
the parts that are modelled.
