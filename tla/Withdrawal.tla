----------------------------- MODULE Withdrawal ------------------------------
(* WithdrawTransaction.Execute and CashDispenser.Dispense (04-atm): an        *)
(* account, the notes in the machine, and withdrawals that run one after the  *)
(* other or, at several machines' accounts, interleaved, and executed again   *)
(* whatever became of them.  A call of the bank may fail, or its answer be    *)
(* lost after it took effect; the bank dedupes on the key.  It, the hardware  *)
(* that jams and TryFallbackCombination have no code in the notes.            *)
EXTENDS Integers, FiniteSetsExt, SequencesExt

CONSTANTS Withdrawals, AmountOf,
          Denominations,   \* in descending order
          NotesAtFirst,
          MaxExecutions    \* bound: how often one withdrawal is executed

Notes == ToSet(Denominations)

ASSUME WithdrawalAssumption ==
  /\ IsFiniteSet(Withdrawals)
  /\ Denominations \in Seq(Nat \ {0}) /\ IsInjective(Denominations)
  /\ AmountOf \in [Withdrawals -> Nat]
  /\ NotesAtFirst \in [Notes -> Nat]

VARIABLES
  notes,      \* _notesByDenomination
  debits,     \* the bank: how often it debited each withdrawal
  credits,    \* and how often it credited it back
  stage,      \* where each Execute is, or how it ended
  executions, \* how often each withdrawal was executed
  paid,       \* the notes each withdrawal was given, in all its executions
  again,      \* (history) those executed again after a note was out or a credit made
  short       \* (history) those that jammed after some notes were out

withdrawalVars == <<notes, debits, credits, stage, executions, paid, again, short>>

NoNotes == [n \in Notes |-> 0]
Worth(plan) == SumFunction([n \in Notes |-> n * plan[n]])
Becomes(t, s) == stage' = [stage EXCEPT ![t] = s]

WithdrawalInit ==
  /\ notes = NotesAtFirst
  /\ debits = [t \in Withdrawals |-> 0]
  /\ credits = [t \in Withdrawals |-> 0]
  /\ stage = [t \in Withdrawals |-> "new"]
  /\ executions = [t \in Withdrawals |-> 0]
  /\ paid = [t \in Withdrawals |-> NoNotes]
  /\ again = {} /\ short = {}

\* Execute begins, for the first time or again after whatever end.
Executes(t) ==
  /\ stage[t] \in {"new", "threw", "paid", "refused", "reversed"}
  /\ executions[t] < MaxExecutions
  /\ executions' = [executions EXCEPT ![t] = @ + 1]
  /\ again' = IF paid[t] # NoNotes \/ credits[t] > 0 THEN again \cup {t} ELSE again

\* Mutant: a key of its own for every attempt.
DebitAgain(t) ==
  /\ Executes(t)
  /\ \/ debits' = [debits EXCEPT ![t] = @ + 1] /\ (Becomes(t, "dispensing") \/ Becomes(t, "threw"))
     \/ UNCHANGED debits /\ Becomes(t, "threw")
  /\ UNCHANGED <<notes, credits, paid, short>>

\* The bank debits a key once.  When it fails, or its answer is lost, Execute
\* throws.
Debit(t) ==
  /\ Executes(t)
  /\ \/ debits' = [debits EXCEPT ![t] = 1] /\ (Becomes(t, "dispensing") \/ Becomes(t, "threw"))
     \/ UNCHANGED debits /\ Becomes(t, "threw")
  /\ UNCHANGED <<notes, credits, paid, short>>

\* One turn of the loop: as many notes as fit into the rest, or as there are.
TakeNotes(acc, n) ==
  LET take == Min({acc.rest \div n, notes[n]})
  IN [rest |-> acc.rest - take * n, plan |-> [acc.plan EXCEPT ![n] = take]]

\* The loop over the denominations, largest first.
Greedy(amount) ==
  LET after[i \in 0 .. Len(Denominations)] ==
        IF i = 0 THEN [rest |-> amount, plan |-> NoNotes]
        ELSE TakeNotes(after[i - 1], Denominations[i])
  IN after[Len(Denominations)]

\* What TryFallbackCombination may find: any exact combination the stock allows.
Combinations(amount) ==
  {plan \in [Notes -> 0 .. SumFunction(NotesAtFirst)] :
     Worth(plan) = amount /\ \A n \in Notes : plan[n] <= notes[n]}

Plans(amount) ==
  IF Greedy(amount).rest = 0 THEN {Greedy(amount).plan} ELSE Combinations(amount)

\* The notes leave the machine for the customer.
Out(t, these) ==
  /\ notes' = [n \in Notes |-> notes[n] - these[n]]
  /\ paid' = [paid EXCEPT ![t] = [n \in Notes |-> @[n] + these[n]]]

\* The greedy plan, or when it leaves a rest one of the fallback's.
Dispense(t) ==
  /\ stage[t] = "dispensing"
  /\ \E plan \in Plans(AmountOf[t]) : Out(t, plan)
  /\ Becomes(t, "paid")
  /\ UNCHANGED <<debits, credits, executions, again, short>>

\* "Cannot dispense exact amount with current stock": an exception that Execute
\* does not catch.
RefuseAmount(t) ==
  /\ stage[t] = "dispensing"
  /\ Plans(AmountOf[t]) = {}
  /\ Becomes(t, "refused")
  /\ UNCHANGED <<notes, debits, credits, executions, paid, again, short>>

\* The parts of a plan that may be out when the machine jams.
PartsOf(plan) ==
  {part \in [Notes -> 0 .. SumFunction(NotesAtFirst)] : \A n \in Notes : part[n] <= plan[n]}

\* A CashJamException, before a note is out or after some are.
Jam(t) ==
  /\ stage[t] = "dispensing"
  /\ \E plan \in Plans(AmountOf[t]) : \E part \in PartsOf(plan) :
       /\ Out(t, part)
       /\ short' = IF part = NoNotes THEN short ELSE short \cup {t}
  /\ Becomes(t, "jammed")
  /\ UNCHANGED <<debits, credits, executions, again>>

\* The whole amount, whatever is out; the bank credits the reversal's key once.
\* When it fails, or its answer is lost, Execute throws.
CreditBack(t) ==
  /\ stage[t] = "jammed"
  /\ \/ credits' = [credits EXCEPT ![t] = 1] /\ (Becomes(t, "reversed") \/ Becomes(t, "threw"))
     \/ UNCHANGED credits /\ Becomes(t, "threw")
  /\ UNCHANGED <<notes, debits, executions, paid, again, short>>

WithdrawalNext ==
  \E t \in Withdrawals :
    Debit(t) \/ Dispense(t) \/ RefuseAmount(t) \/ Jam(t) \/ CreditBack(t)

WithdrawalSpec == WithdrawalInit /\ [][WithdrawalNext]_withdrawalVars

-----------------------------------------------------------------------------
\* Execute returned a result, rather than throw.
Returned(t) == stage[t] \in {"paid", "reversed"}
Taken(t) == (debits[t] - credits[t]) * AmountOf[t]

\* Whatever answers were lost and whatever was executed again, a withdrawal whose
\* Execute returned took no more from the account than it paid in notes: the
\* customer is never debited with no cash delivered.  It took exactly that, unless
\* it jammed with notes out (the credit is of the whole amount) or was executed
\* again after it had paid or credited (the debit is deduplicated, the notes are
\* not).  And no note is made or lost.
AccountMatchesNotes ==
  /\ \A t \in Withdrawals : Returned(t) =>
       /\ Taken(t) <= Worth(paid[t])
       /\ t \notin again \cup short => Taken(t) = Worth(paid[t])
  /\ \A n \in Notes : NotesAtFirst[n] = notes[n] + SumFunction([t \in Withdrawals |-> paid[t][n]])
=============================================================================
