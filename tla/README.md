# Verification of the preparation-notes code

The repository is a study site: a built web application (`src/index.html`,
`src/assets/`), the Markdown notes behind an older edition of it
(`src/New folder/`) with the tool that exports them, and, inside the notes,
complete C# programs: reference implementations of classic designs and the
solutions of the standard interview problems. Most of it is prose; the code it
does have is concurrent or stateful in ways its tests (there are none) would not
reach. This directory models that code in TLA+, checks it with TLC and proves
the safety of its core, for every value of the constants, with TLAPS.

The C# programs live in the content chunks under `src/assets/*.js`, one note
per file; line numbers below and in `PROJECT.json` are lines of those files.
They are what the author presents as correct, with the guarantees spelled out in
prose next to the code, so each claim can be held against it.

## 1. Inventory

| Component (source) | State | Operations | What is hard | Correct means |
|---|---|---|---|---|
| Task scheduler (`04-task-scheduler-*.js` 126-277): `DelayQueue`, `Job`, `FixedRateTrigger`, `JobScheduler` | `_heap` (a list sorted by `NextRunTime`), `_running`, one monitor; `_jobs`, worker threads; `Status`, `NextRunTime`, `_cancelled` | `Add`, `TakeDue`, `Shutdown`; `Schedule`, `Cancel`, `WorkerLoop`, `RunWithRetry`, `Reschedule` | missed or early wake-ups (waits are cut to milliseconds), a `Cancel` between any two steps, one id twice, throwing jobs, shutdown | nothing runs early, twice at once or after a cancellation was seen; nothing is lost; due jobs run |
| Note export tool (`New folder/tools/export-html.cjs`, `.sh`, `.ps1`) | the disk | parse the arguments, export each note to its page, rebuild the catalogue in `index.html`, exit with a code | failing exports, an author who edits meanwhile, a process killed inside a write, half an installation, ambiguous arguments | exit code 0 is to be believed; nothing outside the request is touched |
| Progress store (`index-2XBf-owi.js` 75, 109, 116) | localStorage; hooks that mirror its keys; pending saves | toggles, note box with a 400 ms debounce, import, reset, storage events | two tabs, late events and saves, hooks that do not listen yet, a full store | what is shown is stored; a note is stored where it was typed; no old list is written back; a save happens |
| Movie ticket booking (`01-movie-ticket-booking-*.js` 183-228) | `_seatStatus`, `_holds`, no lock over both | `HoldSeats`, `Confirm` | overlapping requests, roll-backs, lost answers of the gateway, expiry | one claimant per seat, a booking keeps its seats |
| Parking lot (`01-parking-lot-*.js` 173-246) | two concurrent dictionaries | `Enter`, `Exit` | claim and retry against exits | one owner per spot, none leaks |
| Package locker (`05-package-locker-*.js` 168-212) | `_occupied`, `_tokens` | `DepositPackage`, `Pickup`, `OpenExpiredCompartments` | look-then-mark, codes minted again, pick-ups and new deposits against the sweep's snapshot | a code opens its own parcel's compartment |
| Notification service (`06-notification-service-*.js` 193-228) | a blocking queue, `_sentKeys`, attempts | `Run` on several threads | observers that throw, retries, copies, the end of the queue | told once unless a delivery left it open; every end is reported |
| Shopping cart (`02-shopping-cart-*.js` `Checkout`) | stock, completed keys, carts | reserve, charge, record, clear, roll back | two checkouts of the last unit, an inventory and a gateway that fail or lose their answer | every unit is in stock, reserved or sold, but for calls that threw |
| ATM (`04-atm-*.js` 162-202) | account, notes | `Execute`, `Dispense` | bank calls that fail or lose their answer, a jam among the notes, repeats after any end | no debit without its cash |
| Elevator system (`02-elevator-system-*.js` 153-241) | floor, direction, request set of each car | `AddRequest`, `Step`, nearest car | calls that keep coming ahead of or behind a car | at most one reversal before a request is served |
| Order matching (`03-order-matching-engine-*.js` 170-217) | bids and asks | `AddOrder` | partial fills that sweep several levels | never crossed; price-time priority |
| Rate limiter (`02-rate-limiter-*.js`) | a log per key, its lock | `TryAcquire` | times read outside the lock, the edge of the window | the limit is exact |
| LRU cache (`01-lru-and-lfu-cache-*.js` 137-227), LFU cache (`03-advanced-problems-*.js`) | map and linked lists | `TryGet`, `Put`; `Get`, `Put`, `Touch` | pointer writes at the ends; `minFrequency` | the list is the order of use; the least frequent goes |
| Logging framework (`03-logging-framework-*.js` 164-231) | a bounded queue, a worker | `Log`, `Enqueue`, `Run`, `Dispose` | a full queue, sinks that throw, `Dispose` against everything | every sink gets every accepted record above its threshold, in order |
| Solutions of the standard and advanced problems (`02-standard-problems-*.js`, `03-advanced-problems-*.js`) | none (pure) | more than a hundred methods | empty and one-element inputs, ties, shared accumulators, order of events | what the problem defines |

Components interact in two places only. `JobScheduler` calls `DelayQueue` from its
callers and its workers, sharing `Job` objects outside the queue's lock; and the
tabs of the application share localStorage through storage events. Every other
design stands for itself and meets services that the notes name but do not show
(gateways, channels, observers, sinks, a cash dispenser), which are modelled from
their use and marked external. `PROJECT.json` also lists the parts that are not
modelled, and under `hazards` every place where something can go wrong, at its line.

## 2. Modules

| Module | Stands for | Composed of |
|---|---|---|
| `DelayQueue` | the queue, its monitor, the clock; a most general client | |
| `JobScheduler` | callers, registry, workers | extends `DelayQueue`, whose client it replaces |
| `JobLifecycle` | what the scheduler promises: a job waits, runs when due, waits again, ends | implemented by `JobScheduler` (`Lifecycle == INSTANCE`) |
| `NoteExporter` | the tool, its wrapper, the disk, the author | |
| `ProgressStore` | localStorage, tabs, hooks, note boxes | |
| `SeatBooking`, `ParkingLot`, `PackageLocker`, `DeliveryWorker`, `Checkout`, `Withdrawal`, `Elevators`, `OrderBook`, `RateLimiter`, `LruCache`, `LfuCache`, `LogPipeline` | one design each | |
| `Designs` | all of these and `DelayQueue` side by side | extends them |
| `ArrayScans`, `WindowsAndStacks`, `Searches`, `LinkedLists`, `Containers`, `Enumerations`, `DynamicProgrammes`, `IntervalSweeps`, `GraphSearches`, `GridSearches`, `BinaryTrees` | the solutions, as operators, each next to the definition of what it computes | extend one another |
| `ProblemInputs` | every small input; the scans and sweeps on it | extends `IntervalSweeps` (and with it `ArrayScans`), which declare nothing `RECURSIVE` |
| `Solutions` | the other solutions on the same inputs | extends `ProblemInputs` and the other modules of solutions |
| `JobSchedulerProofs` (with the delay queue), `NoteExporterProofs`, `ProgressStoreProofs` | theorems | each extends its module |
| `ClaimProofs` | theorems on seats, parking spots, compartments, checkout, withdrawals | extends the five modules |
| `DesignProofs` | theorems on the order book, elevators, the limiter, logging, delivery, the two caches | extends the seven modules |
| `ArrayProofs` | theorems on the solutions that scan an array | extends `ArrayScans` |
| `IntervalProofs` | theorems on the sweeps over intervals, and on all inputs of `ProblemInputs` | extends `ProblemInputs` and `ArrayProofs` |
| `DataLemmas` | lemmas the proofs share: a smallest counterexample in place of induction, induction over a range, functions by recursion, sums over a function, sequences | |
| `MC...` | instances for TLC | each extends its module |

How state and actions correspond to the code (`map` in `PROJECT.json` has the
lines of every definition):

* **DelayQueue.** `heap` is `_heap`, `running` is `_running`. `lock (_lock)` is modelled
  by `holder` and `at`: a critical section is one action, except that `TakeDue`
  keeps the lock when it drops a cancelled job and goes round its loop, so
  `holder` names that worker. `Monitor.Wait` puts a worker in `at = "waiting"` with a
  `deadline`; `PulseAll` and `WaitTimesOut` put it back to "entering", from where it
  must win the lock again. Each branch of `TakeDue`'s loop is an action. `WholeMs`
  is the cast of the delay to `int`. `Add` takes the due times as a parameter so
  that a client can set `NextRunTime` in the same step. `_heap` really is a sorted
  list and is modelled as one.
* **JobScheduler.** A job instance is what `Schedule` creates, `IdOf` its id. The
  steps between which another thread may act are separate actions:
  `ScheduleRegister`, `ScheduleAdd`; `CancelRemove`, `CancelFlag`, `CancelMark`;
  `WorkerTakes`, `BeginRun`, `ExecuteReturns`/`ExecuteThrows`, `Retry`, `Reschedule`,
  `Requeue`/`Complete`. `IRetryPolicy` and triggers other than `FixedRateTrigger` are
  interfaces without code: a bound on attempts, and `OneTime` for a null next run.
* **ProgressStore.** `store` is localStorage, `view` the lists that the page of each
  tab holds, `box` its note box, `timers` the pending saves, `stale` a storage event
  under way. `Written` and `Dropped` are the two outcomes of `dr`; after the first
  the hooks that listen read again (`ReadAgain`). A hook reads its key in the render
  and listens from its effect on. After a click React runs the effects with the
  commit, so `OpenTopic` and the toggles are one step. The first render of a document
  and the note box, which mounts when the text has loaded, have their effects later:
  `Reload` then `Listen`, `Load` then `Subscribe`. Until then the tab is `deaf`, or
  the box only "mounted", and `missed` says which of the two let an event pass.
  The sidebar's hooks only show, no handler computes from them, and they are left
  out. `dropped` and `typed` are history variables.
* **NoteExporter.** Contents are revisions: `rev[n]` of the note, `page[n]` the one its
  page was rendered from, the catalogue remembers the one its title was read
  from. `Crash` may happen at any point and leaves the file being written old,
  new or cut. `touched` and `before` are history variables.
* **The designs.** Each access to a shared map, each call of a service and each
  body of a `lock` is an action; what a thread has read stays in its own record
  (`gate`, `carrier`, `thread`, `call`, `requester`, `task`), with the place it has
  reached. `SeatBooking.left` is what the `foreach` under way has not visited.
  `ParkingLot.among` and `taken` are what a lazy scan has seen so far.
  `DeliveryWorker.unsure` and the other variables marked "(history)" exist for the
  properties: `LogPipeline.accepted` is the log as `Enqueue` let it in, `LruCache.recent`
  the plain order of use, `Elevators.turns` the reversals a request has waited through.
  `PackageLocker.sweep` holds the tokens of the snapshot that the staff have yet to look
  at, `astray` what they took behind another parcel's token. `Checkout.failures`
  counts the calls of the inventory that threw, with or without effect; `TryReserve`
  is read as the atomic claim the notes describe. In `Withdrawal` every call of the
  bank may fail or lose its answer, `Execute` may be called again whatever became of
  it, and `again` and `short` remember the cases in which the code pays more than
  it takes. Elevators, the order book and the caches are serialised by their
  notes; there the interest is in the sequence of calls, and an operation is one
  action, but for `AddOrder`, which goes match by match.
* **The solutions.** A method is an operator or a recursive definition that takes
  its steps in the code's order: loops are folds or recursive functions over the
  same state, in-place changes are new versions of the array, linked lists are
  `next` functions on nodes. Where a search chooses and undoes its choice, the state
  it shares (the current list, the marks, the array, the board, the route) is passed
  into the recursive call and taken from its result, and undone from there, so
  that a call which left something behind would show in its siblings. `...Right` operators compare it with the plain
  definition of the problem, and the approaches to one problem with each other.

Definitions whose comment begins with "Mutant of" are deliberately wrong variants
of the definition that follows; nothing uses them. They are the changes under
which each property is known to fail.

## 3. What TLC checks

Run `tlc -config X.cfg Module`, with the module each run names in `PROJECT.json`.

| Run | Config | Shows |
|---|---|---|
| `scheduler_safety` | `SchedulerSafety.cfg` | a job is in one place, none is lost, none runs early; a cancelled job can be found; `JobScheduler` implements `JobLifecycle`, in which no cancelled job starts |
| `scheduler_liveness` | `SchedulerLiveness.cfg` | due jobs run, recurring jobs come back even when they throw, cancelled ones leave |
| `scheduler_shared_id` | `SchedulerSharedId.cfg` | **violated**: with both jobs under one id, `Cancel(id)` returns true and an instance of the id runs afterwards |
| `exporter` | `Exporter.cfg` | what an exit code promises, what is left alone, that a run ends |
| `exporter_index_only` | `ExporterIndexOnly.cfg` | **violated**: `--index-only` describes pages that do not exist yet |
| `progress` | `Progress.cfg` | handlers see the store, notes stay with their topic, no old list is written back, saves are made |
| `progress_saved_notes` | `ProgressSavedNotes.cfg` | **violated**: a delayed save wipes a note saved meanwhile |
| `booking_twice` | `BookingTwice.cfg` | **violated**: two Bookings for one seat |
| `cart_one_order` | `CartOneOrder.cfg` | **violated**: two orders for one idempotency key |
| `locker_race` | `LockerRace.cfg` | **violated**: two carriers are handed one compartment |
| `designs` | `Designs.cfg` | the properties of every other design, listed below |
| `solutions` | `Solutions.cfg` | every solution returns what its problem defines, and all approaches to one problem the same |

The six violations are disagreements between the code and its own text or labels;
each is quoted under `findings`.

**`designs`.** The designs share no state, so the product of their behaviours
would show nothing that one at a time does not. `Designs` therefore chooses one at
the start (`design`), lets it move, and lets the others rest in their initial
states; each property is about one design, and its fairness holds while that
design is the one that moves. The run has 137 855 distinct states. By design:
queue `HeapSorted`, `NoMissedWakeup`, `ShutdownReleases`; booking `OneClaimant`,
`BookingKept`; parking `OneOwnerPerSpot`; locker `CodeOpensItsParcel`, a temporal
property: if no compartment is ever handed out to two carriers at once
(`HandedOutApart`), every code opens the compartment of its own parcel, or finds it
empty once the staff took the parcel; delivery
`SentTwiceOnlyIfUnsure`, `QueuedIsReported`; checkout `StockAccounted` (without a
failure of the inventory no unit is missing, with one at most those of one checkout);
ATM `AccountMatchesNotes` (an `Execute` that returned took at most what was paid in notes,
and exactly that but in the cases it names); elevators `AtMostOneReversal`; orders `NeverCrossed`,
`PriceTimePriority`; limiter `LimitIsExact`; LRU `ListIsRecency`; LFU
`EvictsLeastFrequent`; logging `EverySinkGetsTheLog`.

**`solutions`.** One input of one kind (numbers, intervals, edges, cells) grows by
an element at a time, so TLC visits every input up to the bound once (6811), and
each property evaluates all methods that take such an input. What a method needs
besides (a target, a second array, k) is derived from the input or quantified over
in the `...Right` operator.

**Bounds and why they suffice.**

* Scheduler: a recurring and a one-time job, 2 workers, 2 callers (1 for liveness),
  2 attempts, 2 ticks to a millisecond, 3 ticks (2 for liveness). Two workers and
  two jobs are the least with which workers compete for a head, a new head
  overtakes a waiter, and a job could run twice at once; two callers let a `Cancel`
  fall into another `Schedule`. The delays are and are not whole milliseconds. Two
  attempts reach failure, back-off and giving up. `MaxTime` is a bound of the
  model; the clock then stops, and the liveness properties speak of jobs due by
  then. In `designs` the queue alone has a most general client, with shutdown.
* Exporter: 2 notes, 8 argument lists, 2 runs, 2 edits, a crash anywhere. The
  second run starts from what the first left behind.
* Progress: 2 tabs, 2 topics, 4 reader actions: the shortest overwriting is read,
  write elsewhere, write back, and a reload leaves room for it before its effects run.
* Booking: 3 users, 2 seats, requests that overlap in both orders and one that
  names a seat twice, one call of `Confirm` for a hold (the theorems have any number). Parking: 2 gates, 2 spots of which a bus fits one, 3 tickets.
  Locker: 2 carriers, 2 customers, 2 small compartments, so that a big parcel is
  refused, and 2 codes for 2 parcels: a code can be in use when it is
  minted, and a compartment handed out anew under a sweep. Delivery: 2 threads, 2 copies of one event, 2
  attempts. Checkout: 2 calls, carts with the same two products in opposite orders,
  one unit of one of them, 3 calls in all, 2 failures of the inventory, so that
  both a reservation and its release can fail. `cart_one_order` has two units of each.
* ATM: withdrawals of 60 and 70 from notes 50 x 1 and 20 x 4, each executed up to
  twice: 60 needs the fallback, and paid again it leaves no notes for 70. Elevators: 2 cars, 3 floors, 4 hall buttons. Orders: 3 orders
  of quantity 1 or 2 at 3 prices: a sweep over two levels with a partial fill.
  Limiter: 2 threads, 2 requests in a window of 2, time up to 5: windows that do and
  do not overlap. Its clock does not run backwards, although `SystemClock` is
  `DateTime.UtcNow`, which an adjustment can set back. LRU: 4 keys, capacity 2. LFU: 4 keys, capacity 3, frequencies up
  to 3. Logging: 2 sinks with different thresholds, a queue of 2, 5 records at 3
  levels: the queue fills and records are dropped between accepted ones.
* Solutions: numbers -1..2 up to 5 of them, intervals within 0..3 up to 4, edges over
  4 nodes up to 4, grids of up to 6 cells: empty, one-element, repeated, negative and
  tied inputs, cycles and parallel edges, touching and nested intervals.

**Fairness.** Scheduler: weak fairness of the clock and of every worker and call
under way: threads are scheduled, `Execute` and `Thread.Sleep` end. `Schedule`,
`Cancel` and `Shutdown` are never obliged to happen. Progress store: the browser
delivers events, runs effects and fires timers (`Background`); readers do nothing
unless they want to. Exporter: a started process makes steps (`Tool`), a crash is
never obliged. Delivery: every thread goes on (`Run`), as the calls it makes return
or throw. All other designs are checked for safety; where liveness is at stake
(elevators) a safety property bounds what may delay it.

`CHECK_DEADLOCK FALSE` is set where the system may stop: a scheduler whose jobs are
done at the last tick, tabs, runs or orders that have used up their actions, inputs
of full length. No symmetry is used.

Some definitions are stated and no run checks them: the type invariants,
`NoSelfOverlap`, `CompletedIsFinal`, `IndexAllOrNothing` and `NoPileUp`, which are
proved instead.

## 4. What is proved

The theorems hold for every value of the constants that satisfies the `ASSUME`s
of the modules: any sets of jobs, workers, threads, seats, keys, any intervals,
attempts, capacities and bounds, finite or not unless said otherwise (calls and
withdrawals are finite, because their units are added up). Each proof has the same
plan: an inductive invariant, one lemma per kind of step, and a temporal step by
PTL. With them every safety invariant and every action property that a run checks
of a system with state is a theorem. The solutions that scan an array or sweep
over intervals are proved for inputs of any length, by an invariant of each loop.

* `JobSchedulerProofs`, the queue: `QueueInv` = `QueueTypeOK /\ HeapSorted /\ NoSelfOverlap /\
  NoMissedWakeup` is inductive. `InsertAtFacts`, `TailFacts` and `InsertSorted` say
  what insertion and removal do to a list; `AddStep`, `RemoveHead` and `TakeDueStep`
  say that every operation keeps `QueueInv` for any client, and are what the
  scheduler's proof uses again. `NoMissedWakeup` needs the list to be sorted (the
  head is the minimum, so a waiter's deadline bounds all jobs) and `PulseAll` in
  `Add`; truncation keeps a deadline at or before the due time (`WholeMsFacts`).
* `JobSchedulerProofs`, the scheduler: it replaces the queue's client, which the queue
  trusts not to add a job that is queued or held, nor to move the time of a
  queued one. `SchedInv` discharges that trust: `OnePlace` says a job being added
  or rescheduled is in no list, `Fresh` that an unscheduled one is nowhere. With
  `Timely` (a held job is due until `Reschedule` moves its time), `NotLost`,
  `CompletedIsFinal` and `running` it is inductive. `SchedulerCancellable` needs in
  addition that no id is used twice (`UniqueIds`); without it TLC finds
  `scheduler_shared_id`.
* `SchedulerImplementsLifecycle`, the refinement, for finitely many workers: a job
  is `pending` from its registration, or from `Reschedule`, until it is taken from
  the heap, `running` while a worker has it, `gone` after. Beyond `SchedInv` it needs
  `Known`: whatever is registered or in the hands of a call was scheduled.
  `TakesHead` maps to `Start`, for which `RoomInThePool` shows a free place by an
  injection of the running jobs into the other workers; `RescheduleDecides` to
  `Again` or `Finish`; `DropsHead` and a cancelled job's `Reschedule` to their ends;
  `FlagCancels` to `CancelJob`; every other step to a stutter.
* `NoteExporterProofs`: `ExporterInv` joins the promises with what makes them true
  on the way: `Phase` (what each stage says of the run's own variables), `Exported`
  (each note of the request is still to do, failed or rendered), `Collected` (the
  sections agree with the disk but for files the author touched) and `Unwritten`
  (no page or index is written before its stage). Wherever the process is killed.
* `ProgressStoreProofs`: `StoreInv` is type correctness with `TabsSee` and `NotesOwned`.
  `HandlersSeeStore` speaks of note boxes that listen; `TabsSee` adds what a box that
  is mounted and does not listen yet will have when it does: what is stored, or
  `missed` names it. Both it and `OneTopicAtATime` except the lists of a tab that an
  event passed between its first render and its effects, and nothing else. `NotesOwned` says of
  every note in hand (a box, a pending save) what `NotesStayWithTheirTopic`
  says of the stored ones, because a save writes what a hook read long before.
  `OneTopicAtATime` follows step by step: a toggle starts from a list that, with no
  event under way, is the stored one.
* `ClaimProofs`, seats: `BookInv` is type correctness, `Sound` (claims are disjoint and
  account for exactly the seats that are not `Available`) and a part for each user:
  `Stage` (what is decided at each point of a call) and `Kept` (the seats of an
  unpaid claim are `Held`, those `Confirm` has visited are `Booked`). `OneClaimant` is
  not inductive: that a roll-back's `TryUpdate` succeeds needs its seats to be
  `Held`, and that it visits each once needs the list to be injective.
* `ClaimProofs`, spots: `OneOwnerPerSpot` is inductive once it is said spot by spot
  (`Owners`), so that a step which changes one spot leaves the others to be.
* `ClaimProofs`, compartments: for any number of carriers, `CodeOpensItsParcel` says that
  as long as no compartment has been handed out to two of them at once
  (`HandedOutApart`) each code opens the compartment of its parcel, which is inside
  unless the staff took it, as expired (`stale`) or behind an older token of their
  snapshot (`astray`). `LockerInv` adds that free compartments are empty and that a
  deposit under way has its compartment for itself (`DepositAlone`); the step
  (`LockerStep`) uses `HandedOutApart` before and after it. The code does not guarantee
  that premise (`locker_race`), so it is part of the property and not an assumption on
  the constants. That the types are kept (`LockerTypes`) needs no premise.
* `ClaimProofs`, checkout: `CheckoutInv` is `StockAccounted` with `CheckoutTypes` and
  `HoldsPartOfCart`: what a call has reserved begins as its cart does, so it never holds
  more units of a product than some cart has (`MostOf`). A step moves one unit of one
  product, from the shelf to a call (`ReserveLine`), back (`ReleaseLine`) or from the
  call to an order (`RecordResult`); `UnitsAppend` and `UnitsTail` count it,
  `SumChangesAt` carries it to the sum over all calls. A step in which the inventory
  throws loses what the call still held, at most `MostOf`, and `OneFailureMore` pays
  for it; `StepKeepsBooks` puts both together.
* `ClaimProofs`, withdrawals: `WithdrawalInv` says at every stage what was charged and
  paid (`StageTells`): whoever reached a result was debited once, whoever reached
  "paid" got at least the amount, and whoever neither jammed with notes out nor was
  executed again after notes or a credit (`CleanlyAt`) exactly what was taken. That
  the notes of a plan are worth the amount is `GreedyIsRight`: after each
  denomination the rest and the notes chosen so far make the amount, and no more
  notes are taken than there are.
* `DesignProofs`, orders: `BookInv` needs the queues to be `InTurn` (each of its side and
  price, in order of arrival, all before the order at hand) and `Uncrossed`, which is
  `NeverCrossed` said also while `AddOrder` runs. It assumes that a non-empty set of
  prices has a least and a greatest one, as a dictionary with finitely many has.
* `DesignProofs`, elevators: the bound on reversals is not inductive; `TurnedFor` is: a
  request for which a car has turned lies ahead of it, so the car cannot turn again
  before it is there, whatever calls come in. That no car leaves the shaft comes
  with it.
* `DesignProofs`, the limiter: `LogIsTheRest` (the log is the end of what was allowed, and
  what was pruned is out of every window to come) is the heart. It needs the log to
  be in the order of its times, which it is because a time is read under the lock
  (`LogIsPast`); then pruning from the front stops exactly where the window begins
  (`PrunedIs`), and the length of the log is the count the property asks for.
* `DesignProofs`, logging: `LogInv` adds to the property that a worker which has ended
  left nothing in a queue that is closed, and that `Dispose` returns after it.
  `Shown` of a concatenation, record by record (`ShowingStep`), makes every step a
  move of one record from "to come" to "offered".
* `DesignProofs`, delivery: `OwnKeys` (a thread that delivers has its key for itself) and
  `Accounted`: as long as a key is open every send so far was unsure.
* `DesignProofs`, LRU: `LruInv` says the nodes from `HeadNode` to `TailNode` are a walk (`Linked`) of
  the keys used last, none met twice. `UnlinkTakesOut` and `AddFirstPutsIn` say what
  the pointer writes do to any walk; `MoveToFront`, an insertion and an eviction are
  compositions of the two. The sentinels must be two different nodes that are no
  keys, as the constructor makes them.
* `DesignProofs`, LFU: `LfuInv` says a key's frequency counts its uses (`UsesCounted`), a bucket
  holds exactly the keys of its frequency in the order of their last use
  (`BucketsRight`), and `minFrequency` is the lowest that has any (`MinIsLowest`); then
  the last node of that bucket is the victim the property asks for. `minFrequency`
  moves only by one, in `Touch`, and is right because the key that leaves the lowest
  bucket enters the next.

* `ArrayProofs`, for arrays of any length: each loop is a recursive function on the
  number of iterations, whose existence is `RecursionExists`, and its invariant goes
  over the iterations by `RangeInduction`. Where the problem asks for it an array is
  not empty; heights are naturals, colours 0 to 2, the other elements any integers.
  `MaxSubArrayIsRight` (`RunningIs`: the best sum of a segment that ends here, `BestIs`:
  that ends so far), `MaxProfitIsRight`, `MaxAreaIsRight` (`NarrowedIs`: no container with a
  line left behind is larger than the best), `MajorityElementIsRight` (`LeadBounds`: the
  voters the candidate may still lack), `LongestConsecutiveIsRight`,
  `SortColorsIsRight` (`ColoredKeepsZones`), `RotateIsRight`, and two whose preconditions
  are the problem's own, elements between 1 and n: `FindDuplicatesIsRight`
  (`MarksRight`: a negative element says its position was met once) and
  `FindDuplicateIsRight`. The last is Floyd's cycle: `WalkReturns` by the pigeonhole
  principle, `TheyMeet`, `WalkGoesRound`; that exactly one number is repeated is not
  needed. `MaxProductIsRight` and `ProductExceptSelfIsRight` multiply: a segment
  with the largest product can be stretched to a zero or an end of the array on one
  of its sides, and what starts at 1 and grows factor by factor ends at the product.
  `SubarraySumIsRight`: a segment of sum k is a pair of prefix sums, counted when
  its later one is reached. `TrapIsRight`: behind each pointer lie the highest walls
  passed, the lower of which bounds the water of the column that is left; the
  columns' water adds up to the cells the problem counts. `NextPermutationIsRight`:
  behind the pivot the numbers do not rise, so every greater arrangement that agrees
  up to the pivot has at the pivot at least what was put there, and behind it at
  least the reversed rest. `ArraysAreRight` joins them all.
* `IntervalProofs`, for any number of intervals that start before they end: sorting
  is insertion in order of the keys (`OrderedIs`: in order, and the same intervals).
  `MergeIsRight` (`MergeIs`: what is merged has gaps and covers the points of what was
  taken); `InsertIsRight`, because two lists with gaps that cover the same points are
  the same list (`SeparatedUnique`); `CanAttendIsRight`; `NonOverlappingIsRight` by exchange
  (`KeepsMostStep`: of those that are apart as many as were kept end no earlier), and
  what is erased is counted against what is granted (`ErasedAndGranted`);
  `ArrowsAreRight` (`ShotWell`: the arrows hit what was passed, and balloons as many as
  the arrows lie apart from each other); `SweepIs`, on which meeting rooms and car
  pooling rest: after the last event of a time the running sum is the load of that
  time (`LoadIs`), and since ends sort before starts no sum on the way is above the
  loads on either side; `CarPoolingIsRight` says all three approaches agree
  (`BruteForceFits`: the loads of the first trips never exceed those of all;
  `DifferenceArrayFits`: the changes up to a time add up to its load). In
  `MostBookedIsRight` the heaps simulate the rule of the problem: the busy heap is the
  set of rooms with the times they are free again (`Booked`), and a room in the free
  heap was free before the meeting at hand starts (`Agree`). `IntervalsAreRight` joins
  them.
* `SweepsAreRight`, the invariant `SweepsRight` of the run `solutions`: an input holds
  elements of the constants only (`InputsTypes`), and the two theorems above apply to
  it. The constants are assumed to have numbers from -1 on (one more is a height)
  and intervals of naturals that start before they end, as the problems do.

Induction over numbers is done by a smallest counterexample: `SmallestCounterexample`
in `DataLemmas` gives the least element of a set of numbers, and the step refutes it.
From it follow induction over a range, upwards and downwards (`RangeInduction`,
`DownInduction`), with the property given as the set of numbers that have it, and
that a function defined by recursion exists (`RecursionExists`, `RecursionDownExists`).
In this way the recursive functions of the models (`Greedy`, `Shown`, the loops of
`ArrayScans`, `SumFunction` of the community modules) are unfolded for every length.

Only model-checked:

* Liveness (`DueJobRuns`, `RecurringComesBack`, `CancelledLeaves`, `RunEnds`, `SavesAreMade`,
  `ShutdownReleases`, `QueuedIsReported`): the prover has no fairness and no `ENABLED`.
* The solutions of the other modules (`SequencesRight`, `ChoicesRight`, `TraversalsRight`),
  which declare recursive operators, as trees, backtracking and merge sort call for,
  or count in bits: the prover has no backend for arithmetic there.

One thing is fixed where the code leaves it open: `Array.Sort` may leave equal keys in
any order, `Ordered` keeps that of the input. Each order of equal intervals is that
of some input, and the theorems hold for every input.

## 5. What the models show besides the findings

Steps that the properties above allow, because the code takes them, and that are
worth knowing. Of some the notes say otherwise:

* ATM: the notes (line 26) want no jam to leave the account debited without cash "or
  vice versa", and their answer on jams (line 261) credits "the amount not
  dispensed", but `Execute` credits the whole amount (line 178): a jam after some notes
  gives them away. Executed again after it was paid, a withdrawal pays its notes
  again for one debit; executed again after it was reversed, for none. `AccountMatchesNotes`
  names these cases (`short`, `again`) and bounds them to the bank's side.
* ATM: when the dispenser refuses for want of notes, or the reversal's `Credit` throws,
  `Execute` throws and the account stays debited.
* Checkout: "a partial reservation must never survive a failed checkout attempt", but
  an answer of `TryReserve` that is lost leaves its unit reserved for nobody, and a
  `Release` that throws (line 245) leaves the rest of the list. `StockAccounted` bounds
  what each failure costs.
* Locker: the notes consider a pick-up against the sweep (lines 217 to 224). The
  sweep's snapshot (line 209) reaches further: it opens the door of an expired token
  whose compartment has been emptied and handed out anew, and the staff take a
  parcel that has not expired. A code collision is thrown after the compartment was
  marked, which then stays marked.
* Progress: "Progress imported" (line 116) is shown although writes failed; a tab
  whose first render missed an event shows, and writes back, an old list.
* Notifications: an observer that throws after a successful `Send` leads to a second
  one, which `SentTwiceOnlyIfUnsure` excuses as unsure.
* Scheduler: when an orphaned instance of an id ends (line 273), it removes the
  registration of the later one.

Of others they promise nothing:

* Booking: nothing frees an abandoned hold.
* Vending machine: `CalculateChange` takes coins out of the stock before it knows
  that exact change can be made (line 193).
* Logging: `Log` after `Dispose` throws into the caller.
* Exporter: an interrupted `npm install` is never repeated, and a note that vanishes
  under the catalogue's scan ends the run without an index; `--filter` takes the next
  argument even if that is an option.

## 6. Not modelled, and why

The repository counts 73 633 lines. Its own code is a small part of that: about
11 300 lines of C# in 153 notes (3309 in `02-standard-problems`, 1671 in
`03-advanced-problems`, at most 171 in any other), the export tool, and a few
functions of the bundle. The rest is prose, HTML, diagrams, a minified bundle and
third-party libraries. The models cover 7 % of all lines, close to half of that code;
a share of 30 % of all lines is out of reach, as there is no code to model in most
of them.

* Fragments in other notes: a transition table or a check whose callers have no
  code (ride hailing, authentication), snippets that illustrate one language
  feature, prose and class diagrams only (auction, library, board games).
* Vending machine: the state in which money becomes a product and change, the
  inventory and the machine have no code; a model would be of an invented machine.
* Rate limiters: the token bucket computes with doubles, which TLC does not have;
  the others have no code. Sharded cache, formatters, `IAccountService`, `OutOfService`:
  no code. `BeginScope`: a record carries its scope unchanged.
* Scheduler: exceptions of a trigger or a retry policy (interfaces without code);
  the length of the back-off. The class has no `Shutdown`, the note describes one;
  `DelayQueue.Shutdown` is checked in `designs`. A `Cancel` that returns between the
  pop of a job and its `Execute` does not stop that run: the note counts it as in
  flight, and so does `JobLifecycle`.
* Progress store: the settings keys (one writer, no reader elsewhere), the last
  visit, search, routing, rendering, and the sidebar, which shows the lists through
  hooks of its own and may show old ones after its first render. A tab that is closed loses its pending save; the
  code keeps nothing to recover it from.
* Exporter: the text of pages, titles and descriptions, grouping and sorting
  (character-level parsing and wording); console output. A write of `index.html` cut
  behind the second marker is modelled (`intact`), but no property forbids it.
* Booking: `Cancel`, `SearchMovies`, pricing (no code). Two calls for one hold at the
  same time, which would matter only to `ReleaseHold`, which the note does not show.
* Solutions: integers are unbounded, the 32-bit overflow of a sum or a product is not
  modelled.
* Vendored libraries, content, styling, the catalogue page's filter, the deployment
  workflow.

## 7. What is left

1. The loops of `Searches` and `WindowsAndStacks` as recursive functions, so that they
   can be proved for inputs of any length in the manner of `ArrayProofs`.
2. An abstract booking service (a seat is free, held or booked, one user each) that
   `SeatBooking` implements, in the manner of `JobLifecycle`.
