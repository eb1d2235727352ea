--------------------------- MODULE DeliveryWorker ----------------------------
(* The notification service's DeliveryWorker (06-notification-service): some  *)
(* threads run Run of one worker object over one BlockingCollection.  The     *)
(* channels, the observers and the retry policy have no code in the notes:    *)
(* they may throw, and a policy bounds the attempts.                          *)
EXTENDS Naturals, Sequences, SequencesExt

CONSTANTS Threads, Messages, Keys,
          KeyOf,        \* IdempotencyKey: an event published twice has one key
          MaxAttempts,  \* ShouldRetry(n) is n < MaxAttempts
          NoMessage

ASSUME DeliveryAssumption ==
  /\ KeyOf \in [Messages -> Keys]
  /\ MaxAttempts \in Nat \ {0}
  /\ NoMessage \notin Messages

VARIABLES
  mail,       \* _queue
  published,  \* the messages the service has enqueued
  closed,     \* CompleteAdding was called on _queue
  sentKeys,   \* _sentKeys
  tries,      \* Attempt of each message
  thread,     \* where each thread is in Run, and the message it has
  sends,      \* (history) how often the user got the notification of a key
  unsure,     \* (history) how often a send that reached the user threw, or an
              \* observer threw after it
  reported    \* (history) the keys whose end the observers were told

deliveryVars == <<mail, published, closed, sentKeys, tries, thread, sends, unsure, reported>>

At(w, place) == thread[w].at = place
Msg(w) == thread[w].message
KeyAt(w) == KeyOf[Msg(w)]
Goes(w, place) == thread' = [thread EXCEPT ![w].at = place]
NextMessage == [at |-> "taking", message |-> NoMessage]

DeliveryInit ==
  /\ mail = <<>>
  /\ published = {}
  /\ closed = FALSE
  /\ sentKeys = {}
  /\ tries = [m \in Messages |-> 0]
  /\ thread = [w \in Threads |-> NextMessage]
  /\ sends = [k \in Keys |-> 0]
  /\ unsure = [k \in Keys |-> 0]
  /\ reported = {}

\* The service enqueues a rendered message, once; after CompleteAdding it cannot.
Publish(m) ==
  /\ ~closed
  /\ m \notin published
  /\ published' = published \cup {m}
  /\ mail' = Append(mail, m)
  /\ UNCHANGED <<closed, sentKeys, tries, thread, sends, unsure, reported>>

CompleteAdding ==
  /\ ~closed
  /\ closed' = TRUE
  /\ UNCHANGED <<mail, published, sentKeys, tries, thread, sends, unsure, reported>>

\* GetConsumingEnumerable: blocks while the queue is empty, ends when it is
\* complete too.
Take(w) ==
  /\ At(w, "taking")
  /\ \/ /\ mail # <<>>
        /\ thread' = [thread EXCEPT ![w] = [at |-> "claiming", message |-> Head(mail)]]
        /\ mail' = Tail(mail)
     \/ /\ mail = <<>> /\ closed
        /\ Goes(w, "ended")
        /\ UNCHANGED mail
  /\ UNCHANGED <<published, closed, sentKeys, tries, sends, unsure, reported>>

\* Mutant: no idempotency guard.
ClaimKeyAlways(w) ==
  /\ At(w, "claiming")
  /\ sentKeys' = sentKeys \cup {KeyAt(w)}
  /\ Goes(w, "sending")
  /\ UNCHANGED <<mail, published, closed, tries, sends, unsure, reported>>

\* lock (_sentKeys): a key that is there is "already delivered", or on its way.
ClaimKey(w) ==
  /\ At(w, "claiming")
  /\ IF KeyAt(w) \in sentKeys
       THEN thread' = [thread EXCEPT ![w] = NextMessage] /\ UNCHANGED sentKeys
       ELSE sentKeys' = sentKeys \cup {KeyAt(w)} /\ Goes(w, "sending")
  /\ UNCHANGED <<mail, published, closed, tries, sends, unsure, reported>>

\* Send returns, or throws before or after the provider had the message.
Send(w) ==
  /\ At(w, "sending")
  /\ \E reached, returns \in BOOLEAN :
       /\ returns => reached
       /\ sends' = IF reached THEN [sends EXCEPT ![KeyAt(w)] = @ + 1] ELSE sends
       /\ unsure' = IF reached /\ ~returns THEN [unsure EXCEPT ![KeyAt(w)] = @ + 1] ELSE unsure
       /\ Goes(w, IF returns THEN "telling" ELSE "catching")
  /\ UNCHANGED <<mail, published, closed, sentKeys, tries, reported>>

\* OnDelivered of every observer, inside the try: one that throws makes the
\* delivery count as failed.
TellDelivered(w) ==
  /\ At(w, "telling")
  /\ \/ /\ reported' = reported \cup {KeyAt(w)}
        /\ thread' = [thread EXCEPT ![w] = NextMessage]
        /\ UNCHANGED unsure
     \/ /\ unsure' = [unsure EXCEPT ![KeyAt(w)] = @ + 1]
        /\ Goes(w, "catching")
        /\ UNCHANGED reported
  /\ UNCHANGED <<mail, published, closed, sentKeys, tries, sends>>

\* Mutant: the key of a failed delivery is not removed.
CatchKeepingTheKey(w) ==
  /\ At(w, "catching")
  /\ tries' = [tries EXCEPT ![Msg(w)] = @ + 1]
  /\ Goes(w, IF tries'[Msg(w)] < MaxAttempts THEN "requeueing" ELSE "failing")
  /\ UNCHANGED <<mail, published, closed, sentKeys, sends, unsure, reported>>

\* Attempt++ and the locked Remove.
Catch(w) ==
  /\ At(w, "catching")
  /\ tries' = [tries EXCEPT ![Msg(w)] = @ + 1]
  /\ sentKeys' = sentKeys \ {KeyAt(w)}
  /\ Goes(w, IF tries'[Msg(w)] < MaxAttempts THEN "requeueing" ELSE "failing")
  /\ UNCHANGED <<mail, published, closed, sends, unsure, reported>>

\* _queue.Add throws once adding is complete: out of the catch block, out of
\* Run, and the thread is gone.
PutBack(w) ==
  /\ At(w, "requeueing")
  /\ IF closed THEN Goes(w, "dead") /\ UNCHANGED mail
     ELSE mail' = Append(mail, Msg(w)) /\ thread' = [thread EXCEPT ![w] = NextMessage]
  /\ UNCHANGED <<published, closed, sentKeys, tries, sends, unsure, reported>>

\* OnFailed of every observer: an exception here ends the thread as well.
TellFailed(w) ==
  /\ At(w, "failing")
  /\ \/ /\ reported' = reported \cup {KeyAt(w)}
        /\ thread' = [thread EXCEPT ![w] = NextMessage]
     \/ Goes(w, "dead") /\ UNCHANGED reported
  /\ UNCHANGED <<mail, published, closed, sentKeys, tries, sends, unsure>>

Run(w) ==
  \/ Take(w) \/ ClaimKey(w) \/ Send(w) \/ TellDelivered(w)
  \/ Catch(w) \/ PutBack(w) \/ TellFailed(w)

DeliveryNext ==
  \/ \E m \in Messages : Publish(m)
  \/ CompleteAdding
  \/ \E w \in Threads : Run(w)

\* The threads keep going; every call they make returns or throws.
DeliveryFairness == \A w \in Threads : WF_deliveryVars(Run(w))
DeliverySpec == DeliveryInit /\ [][DeliveryNext]_deliveryVars /\ DeliveryFairness

-----------------------------------------------------------------------------
\* A user gets a notification again only after a send that left it open
\* whether he had it, or an observer that threw: with no such event at most one
\* notification per key, whatever the threads, the retries and the copies of
\* the message ("a retried send must not become a duplicate").
SentTwiceOnlyIfUnsure == \A k \in Keys : sends[k] <= 1 + unsure[k]

\* Every message that is queued ends in a report for its key, delivered or
\* failed, unless an exception has ended a thread: neither the guard that skips
\* copies nor a retry loses it.
QueuedIsReported ==
  \A m \in Messages :
    (m \in ToSet(mail)) ~> (KeyOf[m] \in reported \/ \E w \in Threads : At(w, "dead"))
=============================================================================
