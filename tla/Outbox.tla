------------------------------- MODULE Outbox -------------------------------
(***************************************************************************)
(* The outbox dispatchers of workers/tasks.py: dispatch_alerts over        *)
(* alert_events and dispatch_emails over email_outbox share _claim,        *)
(* _mark_failed and one commit for the whole batch, and so share this      *)
(* module.  HasChats tells them apart: an alert message needs a telegram   *)
(* chat, an e-mail always has its address.                                 *)
(*                                                                         *)
(* Time is the local hour of the recipient, which goes round for ever, and *)
(* next_retry_at is kept as the number of hour turns until it is reached:  *)
(* quiet hours end on the hour (_quiet_delay), while the retry delays, all *)
(* at most 30 minutes, are over within the hour or after its next turn.    *)
(***************************************************************************)
EXTENDS AlertEngine, FiniteSets

CONSTANTS
    Rows,           \* outbox rows, all of one user
    Workers,        \* dispatcher runs that may overlap
    Retries,        \* Len(TELEGRAM_RETRY), Len(RETRY_SCHEDULE)
    BatchSize,      \* BATCH
    HasChats,       \* TRUE: dispatch_alerts; FALSE: dispatch_emails
    HoursPerDay,    \* 24 in the program
    QuietFrom, QuietTo,     \* the user's quiet hours, or None
    Patience,       \* sends that may hang for 20 s before arq, which gives a
                    \* run 120 s, cancels it: 6 in the program
    MaxLost,        \* BOUND: deliveries of one row the database never learns of
    MaxCrashes      \* BOUND: runs that die with their worker

Hours == 0 .. HoursPerDay - 1

ASSUME OutboxAssumption ==
    /\ Retries \in Nat /\ BatchSize \in Nat \ {0} /\ Patience \in Nat \ {0}
    /\ MaxLost \in Nat /\ MaxCrashes \in Nat
    /\ HasChats \in BOOLEAN
    /\ HoursPerDay \in Nat \ {0}
    /\ QuietFrom \in Hours \cup {None} /\ QuietTo \in Hours \cup {None}

VARIABLES
    hour,     \* the recipient's local hour
    linked,   \* does the user have a telegram chat?
    row,      \* the outbox table
    worker,   \* what each dispatcher run holds
    inbox,    \* copies the recipient got (outside the program)
    lost,     \* lost[r]: deliveries of r that the database never learned of
    crashes

vars == <<hour, linked, row, worker, inbox, lost, crashes>>

Undelivered == {"pending", "failed"}
States      == {"none", "pending", "failed", "sent", "dead", "gone"}
Row         == [state : States, attempts : Nat, due : Nat]
NoRow       == [state |-> "none", attempts |-> 0, due |-> 0]

\* batch: the rows claimed, locked until the run ends; todo: those not tried
\* yet; value: the rows as the session has them, flushed but not committed;
\* chat: the user as first loaded, which the session then keeps; hung: how many
\* sends of this run had no answer until they timed out
IdleWorker == [batch |-> {}, todo |-> {}, value |-> [r \in Rows |-> NoRow],
               chat |-> None, hung |-> 0]
Busy(w) == worker[w].batch # {}

Quiet(h) == in_quiet_hours(h, QuietFrom, QuietTo)

\* mutant: the delay stops an hour short
quiet_delay_short(h) ==
    CHOOSE k \in Hours : /\ ~ Quiet((h + k + 1) % HoursPerDay)
                         /\ \A i \in 1 .. k : Quiet((h + i) % HoursPerDay)

\* _quiet_delay: whole hours until the first one that is not quiet
quiet_delay(h) ==
    CHOOSE k \in Hours : /\ ~ Quiet((h + k) % HoursPerDay)
                         /\ \A i \in 0 .. k - 1 : Quiet((h + i) % HoursPerDay)

\* mutant: the retry time runs past zero
Sooner_past(r) == [r EXCEPT !.due = @ - 1]

Sooner(r) == [r EXCEPT !.due = IF @ > 0 THEN @ - 1 ELSE 0]
-----------------------------------------------------------------------------
\* The local hour turns.
Tick ==
    /\ hour' = (hour + 1) % HoursPerDay
    /\ row' = [r \in Rows |-> Sooner(row[r])]
    /\ worker' = [w \in Workers |-> [worker[w] EXCEPT
                    !.value = [r \in Rows |-> Sooner(worker[w].value[r])]]]
    /\ UNCHANGED <<linked, inbox, lost, crashes>>

\* _record_event with _quiet_delay, or email.enqueue, which sends at once
Enqueue(r) ==
    /\ row[r].state = "none"
    /\ row' = [row EXCEPT ![r] =
                [state |-> "pending", attempts |-> 0,
                 due |-> IF HasChats THEN quiet_delay(hour) ELSE 0]]
    /\ UNCHANGED <<hour, linked, worker, inbox, lost, crashes>>

\* telegram.consume_link_token and telegram.unlink
Relink ==
    /\ HasChats
    /\ linked' = ~ linked
    /\ UNCHANGED <<hour, row, worker, inbox, lost, crashes>>

Locked == UNION {worker[w].batch : w \in Workers}

\* mutant: rows that another run has locked are claimed too
Claimable_locked(r) == row[r].state \in Undelivered /\ row[r].due = 0
\* mutant: rows already sent are claimed again
Claimable_sent(r) ==
    row[r].state \in Undelivered \cup {"sent"} /\ row[r].due = 0 /\ r \notin Locked
\* mutant: only rows never tried are claimed
Claimable_untried(r) == row[r].state = "pending" /\ row[r].due = 0 /\ r \notin Locked

\* The retry time has come, and nobody has the row locked (skip_locked).
Claimable(r) == row[r].state \in Undelivered /\ row[r].due = 0 /\ r \notin Locked

\* _claim: as many rows as there are, up to BatchSize.  All of them are due;
\* which of them come first is left open.
Claim(w) ==
    LET due == {r \in Rows : Claimable(r)}
    IN  \E batch \in SUBSET due :
        /\ ~ Busy(w) /\ batch # {}
        /\ IF Cardinality(due) <= BatchSize THEN batch = due
           ELSE Cardinality(batch) = BatchSize
        /\ worker' = [worker EXCEPT ![w] = [IdleWorker EXCEPT !.batch = batch, !.todo = batch]]
        /\ UNCHANGED <<hour, linked, row, inbox, lost, crashes>>

\* The user as this run knows them: session.get answers from the session.
Chat(w) == IF worker[w].chat = None THEN linked ELSE worker[w].chat

\* The run has tried row r and assigned it `value`; `hangs` is 1 if that took until
\* the timeout.
Handled(w, r, value, hangs) ==
    /\ r \in worker[w].todo
    /\ worker' = [worker EXCEPT ![w] = [batch |-> @.batch, todo |-> @.todo \ {r},
                                        value |-> [@.value EXCEPT ![r] = value],
                                        chat |-> Chat(w), hung |-> @.hung + hangs]]

\* mutant: one attempt too few
mark_failed_early(old, delay) ==
    IF old.attempts + 1 >= Retries
    THEN [old EXCEPT !.attempts = @ + 1, !.state = "dead", !.due = 0]
    ELSE [old EXCEPT !.attempts = @ + 1, !.state = "failed", !.due = delay]

\* _mark_failed and _schedule_retry
mark_failed(old, delay) ==
    IF old.attempts + 1 > Retries
    THEN [old EXCEPT !.attempts = @ + 1, !.state = "dead", !.due = 0]
    ELSE [old EXCEPT !.attempts = @ + 1, !.state = "failed", !.due = delay]

\* No telegram account: the row is dead at once.
NoChat(w, r) ==
    /\ HasChats /\ ~ Chat(w)
    /\ Handled(w, r, [row[r] EXCEPT !.state = "dead"], 0)
    /\ UNCHANGED <<hour, linked, row, inbox, lost, crashes>>

\* The message is accepted by telegram, or by the mail server.
SendOk(w, r) ==
    /\ HasChats => Chat(w)
    /\ Handled(w, r, [row[r] EXCEPT !.state = "sent"], 0)
    /\ inbox' = [inbox EXCEPT ![r] = @ + 1]
    /\ UNCHANGED <<hour, linked, row, lost, crashes>>

\* It is refused, or the service cannot be reached.
SendFail(w, r) ==
    /\ HasChats => Chat(w)
    /\ \E delay \in {0, 1} : Handled(w, r, mark_failed(row[r], delay), 0)
    /\ UNCHANGED <<hour, linked, row, inbox, lost, crashes>>

\* The service hangs until the send times out, and may have accepted the message
\* all the same: the run cannot tell that from a failure.
SendUnanswered(w, r) ==
    /\ HasChats => Chat(w)
    /\ \E delay \in {0, 1} : Handled(w, r, mark_failed(row[r], delay), 1)
    /\ \/ /\ lost[r] < MaxLost
          /\ inbox' = [inbox EXCEPT ![r] = @ + 1]
          /\ lost' = [lost EXCEPT ![r] = @ + 1]
       \/ UNCHANGED <<inbox, lost>>
    /\ UNCHANGED <<hour, linked, row, crashes>>

\* The one commit at the end of the batch.
Commit(w) ==
    /\ Busy(w) /\ worker[w].todo = {}
    /\ row' = [r \in Rows |-> IF r \in worker[w].batch THEN worker[w].value[r] ELSE row[r]]
    /\ worker' = [worker EXCEPT ![w] = IdleWorker]
    /\ UNCHANGED <<hour, linked, inbox, lost, crashes>>

SentBy(w) == {r \in worker[w].batch \ worker[w].todo : worker[w].value[r].state = "sent"}

\* mutant: what was tried before the crash stays marked as sent
Crash_keeps(w) ==
    /\ Busy(w) /\ crashes < MaxCrashes
    /\ worker' = [worker EXCEPT ![w] = IdleWorker]
    /\ row' = [r \in Rows |-> IF r \in worker[w].batch
                              THEN [row[r] EXCEPT !.state = "sent"] ELSE row[r]]
    /\ crashes' = crashes + 1
    /\ UNCHANGED <<hour, linked, inbox, lost>>

\* The run ends before its commit: nothing of the batch is written, no attempt
\* and not even that messages have left; the locks are gone.
Abort(w) ==
    /\ Busy(w)
    /\ worker' = [worker EXCEPT ![w] = IdleWorker]
    /\ lost' = [r \in Rows |-> IF r \in SentBy(w) THEN lost[r] + 1 ELSE lost[r]]
    /\ UNCHANGED <<hour, linked, row, inbox>>

\* The worker process dies.
Crash(w) == Abort(w) /\ crashes < MaxCrashes /\ crashes' = crashes + 1

\* arq cancels a run that hanging sends have kept for 120 s.  That comes back
\* with every batch the service hangs on, so it has no bound of its own.
Cancel(w) ==
    /\ Abort(w) /\ worker[w].hung >= Patience
    /\ \A r \in SentBy(w) : lost[r] < MaxLost
    /\ UNCHANGED crashes

\* The row goes with its alert (ON DELETE CASCADE) or by prune_old_data; a
\* delete waits for the lock of the run that has the row.
Remove(r) ==
    /\ row[r].state \notin {"none", "gone"} /\ r \notin Locked
    /\ row' = [row EXCEPT ![r] = [NoRow EXCEPT !.state = "gone"]]
    /\ UNCHANGED <<hour, linked, worker, inbox, lost, crashes>>

Handle(w) ==
    \E r \in Rows : NoChat(w, r) \/ SendOk(w, r) \/ SendFail(w, r) \/ SendUnanswered(w, r)

Init ==
    /\ hour \in Hours /\ linked \in BOOLEAN
    /\ row = [r \in Rows |-> NoRow]
    /\ worker = [w \in Workers |-> IdleWorker]
    /\ inbox = [r \in Rows |-> 0]
    /\ lost = [r \in Rows |-> 0]
    /\ crashes = 0

Next ==
    \/ Tick \/ Relink
    \/ \E r \in Rows : Enqueue(r) \/ Remove(r)
    \/ \E w \in Workers : Claim(w) \/ Handle(w) \/ Commit(w) \/ Crash(w) \/ Cancel(w)

Spec == Init /\ [][Next]_vars

\* Time passes, cron starts a run twice a minute, and a run goes on to its commit
\* unless it dies or is cancelled first.  No service is assumed to answer and no
\* user to link an account.
Fairness ==
    /\ WF_vars(Tick)
    /\ \A w \in Workers : WF_vars(Claim(w)) /\ WF_vars(Handle(w)) /\ WF_vars(Commit(w))

FairSpec == Spec /\ Fairness
-----------------------------------------------------------------------------
WorkerState == [batch : SUBSET Rows, todo : SUBSET Rows, value : [Rows -> Row],
                chat : BOOLEAN \cup {None}, hung : Nat]

TypeOK ==
    /\ hour \in Hours /\ linked \in BOOLEAN
    /\ row \in [Rows -> Row]
    /\ worker \in [Workers -> WorkerState]
    /\ \A w \in Workers : worker[w].todo \subseteq worker[w].batch
    /\ inbox \in [Rows -> Nat] /\ lost \in [Rows -> Nat]
    /\ crashes \in 0 .. MaxCrashes

\* "skip_locked keeps two workers apart": no row is in two batches, and a row
\* in a batch is still undelivered in the table.
OneRunPerRow ==
    \A w \in Workers :
        /\ \A r \in worker[w].batch : row[r].state \in Undelivered
        /\ \A v \in Workers \ {w} : worker[w].batch \cap worker[v].batch = {}

\* A run that will commit a row as sent has sent it, and so has one that did.
SentWasDelivered ==
    /\ \A r \in Rows : row[r].state = "sent" => inbox[r] > 0
    /\ \A w \in Workers : \A r \in SentBy(w) : inbox[r] > 0

\* The program knows, or will know when a run commits, that r was delivered; of
\* a row that is gone nothing is known any more.
Confirmed(r) ==
    row[r].state \in {"sent", "gone"} \/ \E w \in Workers : r \in SentBy(w)

\* The recipient gets a second copy only when the database did not learn of the
\* first: without lost answers and crashes, overlapping runs, retries and the
\* rows of a failed neighbour never send anything twice.
OneCopyUnlessLost ==
    \A r \in Rows : inbox[r] <= lost[r] + (IF Confirmed(r) THEN 1 ELSE 0)

\* A message is given up only when every retry is used up or when the run that
\* does so found no telegram account.
GivenUpOnlyWhenExhausted ==
    [][\A r \in Rows :
        (row[r].state # "dead" /\ row'[r].state = "dead") =>
            \/ row'[r].attempts = Retries + 1
            \/ \E w \in Workers : r \in worker[w].batch /\ worker[w].chat = FALSE
      ]_vars

\* "Delivery waits": the time a message recorded in quiet hours is put off to is
\* the end of those hours, for windows that wrap midnight too.
PutOffToTheEndOfQuiet ==
    \A r \in Rows : (row[r].state = "pending" /\ row[r].due > 0) =>
        ~ Quiet((hour + row[r].due) % HoursPerDay)

\* A job "tries once, and writes down what happened", so that after the retries
\* of its plan every message is sent or given up, unless its alert goes first.
Settles ==
    \A r \in Rows : row[r].state \in Undelivered ~> row[r].state \notin Undelivered

\* It does, whatever dies or times out, unless the runs that have the message are
\* cancelled for ever: these write nothing down.
SettlesUnlessCancelled ==
    \A r \in Rows :
        \/ row[r].state \in Undelivered ~> row[r].state \notin Undelivered
        \/ []<><<\E w \in Workers : r \in worker[w].batch /\ Cancel(w)>>_vars

\* Outbox implements Delivery: a row waiting for its first try or for a retry
\* is a queued message.
Promise == INSTANCE Delivery WITH
    state <- [r \in Rows |-> IF row[r].state \in Undelivered THEN "queued"
                             ELSE row[r].state]

KeepsPromise == Promise!Spec
=============================================================================
