------------------------------- MODULE Designs --------------------------------
(* The reference designs side by side.  They share no state in the notes, so a *)
(* behaviour is that of one design, chosen at the start, while the others rest *)
(* in their initial states.                                                    *)
EXTENDS DelayQueue, SeatBooking, ParkingLot, PackageLocker, DeliveryWorker,
        Checkout, Withdrawal, Elevators, OrderBook, RateLimiter, LruCache, LfuCache,
        LogPipeline

VARIABLE design   \* the one that moves

designVars ==
  <<design, queueVars, vars, parkingVars, lockerVars, deliveryVars, checkoutVars,
    withdrawalVars, elevatorVars, bookVars, limiterVars, cacheVars, lfuVars, logVars>>

DesignsInit ==
  /\ design \in {"queue", "booking", "parking", "locker", "delivery", "checkout",
                 "withdrawal", "elevators", "orders", "limiter", "lru", "lfu",
                 "log"}
  /\ QueueInit /\ Init /\ ParkingInit /\ LockerInit /\ DeliveryInit /\ CheckoutInit
  /\ WithdrawalInit /\ ElevatorInit /\ BookInit /\ LimiterInit /\ CacheInit /\ LfuInit
  /\ LogInit

\* The design of that name may move; any other rests.
Rests(name, state) == design = name \/ UNCHANGED state

OnlyMoves(name) ==
  /\ design = name /\ UNCHANGED design
  /\ Rests("queue", queueVars) /\ Rests("booking", vars)
  /\ Rests("parking", parkingVars) /\ Rests("locker", lockerVars)
  /\ Rests("delivery", deliveryVars) /\ Rests("checkout", checkoutVars)
  /\ Rests("withdrawal", withdrawalVars) /\ Rests("elevators", elevatorVars)
  /\ Rests("orders", bookVars) /\ Rests("limiter", limiterVars)
  /\ Rests("lru", cacheVars) /\ Rests("lfu", lfuVars)
  /\ Rests("log", logVars)

DesignsNext ==
  \/ OnlyMoves("queue") /\ QueueNext
  \/ OnlyMoves("booking") /\ Next
  \/ OnlyMoves("parking") /\ ParkingNext
  \/ OnlyMoves("locker") /\ LockerNext
  \/ OnlyMoves("delivery") /\ DeliveryNext
  \/ OnlyMoves("checkout") /\ CheckoutNext
  \/ OnlyMoves("withdrawal") /\ WithdrawalNext
  \/ OnlyMoves("elevators") /\ ElevatorNext
  \/ OnlyMoves("orders") /\ BookNext
  \/ OnlyMoves("limiter") /\ LimiterNext
  \/ OnlyMoves("lru") /\ CacheNext
  \/ OnlyMoves("lfu") /\ LfuNext
  \/ OnlyMoves("log") /\ LogNext

\* The fairness of each design, while it is the one that moves.
DesignsFairness ==
  /\ WF_queueVars(design = "queue" /\ Tick)
  /\ \A w \in Workers : WF_queueVars(design = "queue" /\ WorkerSide(w))
  /\ \A w \in Threads : WF_deliveryVars(design = "delivery" /\ Run(w))

DesignsSpec == DesignsInit /\ [][DesignsNext]_designVars /\ DesignsFairness
=============================================================================
