---------------------------- MODULE OutboxProofs ----------------------------
(***************************************************************************)
(* What the outbox keeps for any number of messages and overlapping        *)
(* dispatchers, any retry plan and batch size, any quiet hours and any     *)
(* number of crashes and cancelled runs; and that it implements Delivery.  *)
(***************************************************************************)
EXTENDS Outbox, TLAPS, WellFoundedInduction

\* Any nonempty set of natural numbers has a least one.
LEMMA LeastNumber ==
    ASSUME NEW T, T \subseteq Nat, T # {}
    PROVE  \E least \in T : \A n \in T : least <= n
<1>1. PICK least \in T : \A n \in T : ~ (<<n, least>> \in OpToRel(<, Nat))
  BY WFMin, NatLessThanWellFounded
<1>2. \A n \in T : ~ (n < least)
  BY <1>1 DEF OpToRel
<1> QED BY <1>2

\* A day always has an hour that is not quiet, whatever the quiet hours are.
LEMMA SomeHourIsLoud ==
    ASSUME NEW h \in Hours
    PROVE  \E k \in Hours : ~ Quiet((h + k) % HoursPerDay)
<1>1. CASE ~ Quiet(h)
  <2>1. (h + 0) % HoursPerDay = h
    BY OutboxAssumption DEF Hours
  <2> QED BY <1>1, <2>1, OutboxAssumption DEF Hours
<1>2. CASE Quiet(h)
  <2>1. QuietTo \in Hours /\ ~ Quiet(QuietTo)
    BY <1>2, OutboxAssumption, NoneAssumption DEF Quiet, in_quiet_hours, Hours
  <2> DEFINE k == IF QuietTo >= h THEN QuietTo - h ELSE QuietTo - h + HoursPerDay
  <2>2. k \in Hours /\ (h + k = QuietTo \/ h + k = QuietTo + HoursPerDay)
    BY <2>1, OutboxAssumption DEF Hours
  <2>3. QuietTo % HoursPerDay = QuietTo /\ (QuietTo + HoursPerDay) % HoursPerDay = QuietTo
    BY <2>1, OutboxAssumption DEF Hours
  <2>4. (h + k) % HoursPerDay = QuietTo
    BY <2>2, <2>3
  <2> QED BY <2>1, <2>2, <2>4
<1> QED BY <1>1, <1>2

\* _quiet_delay ends: it counts a number of hours within the day.
LEMMA QuietDelayExists ==
    ASSUME NEW h \in Hours
    PROVE  /\ quiet_delay(h) \in Hours
           /\ ~ Quiet((h + quiet_delay(h)) % HoursPerDay)
           /\ \A i \in 0 .. quiet_delay(h) - 1 : Quiet((h + i) % HoursPerDay)
<1> DEFINE Loud == {k \in Hours : ~ Quiet((h + k) % HoursPerDay)}
<1>1. Loud \subseteq Nat /\ Loud # {}
  <2>1. Hours \subseteq Nat
    BY OutboxAssumption DEF Hours
  <2> QED BY <2>1, SomeHourIsLoud
<1>2. PICK k \in Loud : \A n \in Loud : k <= n
  BY <1>1, LeastNumber
<1>3. \A i \in 0 .. k - 1 : Quiet((h + i) % HoursPerDay)
  <2> SUFFICES ASSUME NEW i \in 0 .. k - 1 PROVE Quiet((h + i) % HoursPerDay)
    OBVIOUS
  <2>1. k \in Hours /\ i \in Hours /\ i < k
    BY <1>2, OutboxAssumption DEF Hours
  <2>2. i \notin Loud
    BY <1>2, <2>1 DEF Hours
  <2> QED BY <2>1, <2>2
<1> QED BY <1>2, <1>3 DEF quiet_delay
-----------------------------------------------------------------------------
\* A run tries row r and assigns it `value`, timing out over it or not.
Handles(w, r, value) == \E hangs \in {0, 1} : Handled(w, r, value, hangs)

\* A run ends before its commit: its worker dies, or arq cancels it.
EndsEarly(w) == Crash(w) \/ Cancel(w)

\* The value of a row after an attempt is a row.
LEMMA HandledRowOK ==
    ASSUME NEW old \in Row, NEW delay \in {0, 1}
    PROVE  /\ mark_failed(old, delay) \in Row
           /\ [old EXCEPT !.state = "sent"] \in Row
           /\ [old EXCEPT !.state = "dead"] \in Row
<1>1. [old EXCEPT !.state = "sent"] \in Row /\ [old EXCEPT !.state = "dead"] \in Row
  BY DEF Row, States
<1>2. old.attempts + 1 \in Nat /\ delay \in Nat /\ 0 \in Nat
  BY DEF Row
<1>3. \A n, d \in Nat, to \in States :
        [old EXCEPT !.attempts = n, !.state = to, !.due = d] \in Row
  BY DEF Row
<1>4. "dead" \in States /\ "failed" \in States
  BY DEF States
<1> QED BY <1>1, <1>2, <1>3, <1>4 DEF mark_failed

\* Trying one row of a batch keeps every run's record well formed.
LEMMA HandledOK ==
    ASSUME TypeOK, NEW w \in Workers, NEW r \in Rows, NEW value \in Row,
           Handles(w, r, value)
    PROVE  /\ worker' \in [Workers -> WorkerState]
           /\ \A v \in Workers : worker'[v].todo \subseteq worker'[v].batch
<1>1. Chat(w) \in BOOLEAN \cup {None}
  BY DEF Chat, TypeOK, WorkerState
<1> QED BY <1>1 DEF Handles, Handled, TypeOK, WorkerState

\* Every step keeps every variable in its set.
LEMMA StepTypeOK == TypeOK /\ [Next]_vars => TypeOK'
<1> SUFFICES ASSUME TypeOK, [Next]_vars PROVE TypeOK'
  OBVIOUS
<1>1. CASE Tick
  <2>1. hour' \in Hours
    BY <1>1, OutboxAssumption DEF Tick, TypeOK, Hours
  <2>2. \A old \in Row : Sooner(old) \in Row
    BY DEF Sooner, Row
  <2> QED BY <1>1, <2>1, <2>2 DEF Tick, TypeOK, WorkerState
<1>2. CASE Relink
  BY <1>2 DEF Relink, TypeOK
<1>3. ASSUME NEW r \in Rows, Enqueue(r) PROVE TypeOK'
  <2>1. quiet_delay(hour) \in Nat
    BY QuietDelayExists, OutboxAssumption DEF TypeOK, Hours
  <2> QED BY <1>3, <2>1 DEF Enqueue, TypeOK, Row, States
<1>4. ASSUME NEW r \in Rows, Remove(r) PROVE TypeOK'
  BY <1>4 DEF Remove, TypeOK, Row, States, NoRow
<1>5. ASSUME NEW w \in Workers, Claim(w) PROVE TypeOK'
  <2>1. PICK batch \in SUBSET Rows :
          worker' = [worker EXCEPT ![w] = [IdleWorker EXCEPT !.batch = batch, !.todo = batch]]
    BY <1>5 DEF Claim
  <2>2. IdleWorker \in WorkerState
    BY DEF IdleWorker, WorkerState, NoRow, Row, States
  <2>3. [IdleWorker EXCEPT !.batch = batch, !.todo = batch] \in WorkerState
    BY <2>2 DEF WorkerState
  <2>4. \A v \in Workers : worker'[v].todo \subseteq worker'[v].batch
    BY <2>1, <2>2 DEF TypeOK, WorkerState
  <2> QED BY <1>5, <2>1, <2>3, <2>4 DEF Claim, TypeOK
<1>6. ASSUME NEW w \in Workers, NEW r \in Rows, NoChat(w, r) PROVE TypeOK'
  BY <1>6, HandledRowOK, HandledOK DEF NoChat, TypeOK, Handles
<1>7. ASSUME NEW w \in Workers, NEW r \in Rows, SendOk(w, r) PROVE TypeOK'
  <2>1. inbox' \in [Rows -> Nat]
    BY <1>7 DEF SendOk, TypeOK
  <2>2. PICK value \in Row : Handles(w, r, value)
    BY <1>7, HandledRowOK DEF SendOk, TypeOK, Handles
  <2> QED BY <1>7, <2>1, <2>2, HandledOK DEF SendOk, TypeOK
<1>8. ASSUME NEW w \in Workers, NEW r \in Rows, SendFail(w, r) PROVE TypeOK'
  BY <1>8, HandledRowOK, HandledOK DEF SendFail, TypeOK, Handles
<1>9. ASSUME NEW w \in Workers, NEW r \in Rows, SendUnanswered(w, r) PROVE TypeOK'
  <2>1. inbox' \in [Rows -> Nat] /\ lost' \in [Rows -> Nat]
    BY <1>9 DEF SendUnanswered, TypeOK
  <2>2. PICK value \in Row : Handles(w, r, value)
    BY <1>9, HandledRowOK DEF SendUnanswered, TypeOK, Handles
  <2> QED BY <1>9, <2>1, <2>2, HandledOK DEF SendUnanswered, TypeOK
<1>10. ASSUME NEW w \in Workers, Commit(w) PROVE TypeOK'
  BY <1>10 DEF Commit, TypeOK, IdleWorker, WorkerState, NoRow, Row, States
<1>11. ASSUME NEW w \in Workers, EndsEarly(w) PROVE TypeOK'
  <2>1. IdleWorker \in WorkerState /\ IdleWorker.todo \subseteq IdleWorker.batch
    BY DEF IdleWorker, WorkerState, NoRow, Row, States
  <2>2. /\ worker' = [worker EXCEPT ![w] = IdleWorker]
        /\ lost' = [r \in Rows |-> IF r \in SentBy(w) THEN lost[r] + 1 ELSE lost[r]]
        /\ UNCHANGED <<hour, linked, row, inbox>>
    BY <1>11 DEF EndsEarly, Crash, Cancel, Abort
  <2>3. crashes' \in 0 .. MaxCrashes
    BY <1>11, OutboxAssumption DEF EndsEarly, Crash, Cancel, TypeOK
  <2>4. lost' \in [Rows -> Nat]
    BY <2>2 DEF TypeOK
  <2>5. /\ worker' \in [Workers -> WorkerState]
        /\ \A v \in Workers : worker'[v].todo \subseteq worker'[v].batch
    BY <2>1, <2>2 DEF TypeOK
  <2> QED BY <2>2, <2>3, <2>4, <2>5 DEF TypeOK
<1>12. CASE UNCHANGED vars
  BY <1>12 DEF vars, TypeOK
<1> QED
  BY <1>1, <1>2, <1>3, <1>4, <1>5, <1>6, <1>7, <1>8, <1>9, <1>10, <1>11, <1>12
     DEF Next, EndsEarly, Handle

\* Type correctness for any instance: in particular the delay to the end of
\* the quiet hours is always a number (the loop of _quiet_delay ends).
THEOREM TypeCorrect == Spec => []TypeOK
<1>1. Init => TypeOK
  BY OutboxAssumption DEF Init, TypeOK, IdleWorker, WorkerState, NoRow, Row, States
<1> QED BY <1>1, StepTypeOK, PTL DEF Spec
-----------------------------------------------------------------------------
(* The inductive invariant.  OneRunPerRow, SentWasDelivered and             *)
(* OneCopyUnlessLost are not inductive alone: they need to know what a run  *)
(* may hold for the rows it has tried.                                      *)

Tried(w) == worker[w].batch \ worker[w].todo

\* An attempt ends as sent, dead or failed; it gives a row up for a missing
\* account or a used-up plan, and a failed row has retries left.
Decided(value, chat) ==
    /\ value.state \in {"sent", "dead", "failed"}
    /\ value.state = "dead" => value.attempts = Retries + 1 \/ chat = FALSE
    /\ value.state = "failed" => value.attempts <= Retries

TriedAreDecided ==
    \A w \in Workers : \A r \in Tried(w) : Decided(worker[w].value[r], worker[w].chat)

AttemptsWithinPlan ==
    \A r \in Rows : row[r].state \in Undelivered => row[r].attempts <= Retries

IInv ==
    /\ TypeOK
    /\ OneRunPerRow
    /\ TriedAreDecided
    /\ AttemptsWithinPlan
    /\ SentWasDelivered
    /\ OneCopyUnlessLost

\* What Handled writes, field by field.
LEMMA HandledFields ==
    ASSUME TypeOK, NEW w \in Workers, NEW r \in Rows, NEW value \in Row,
           Handles(w, r, value)
    PROVE  /\ worker'[w].batch = worker[w].batch
           /\ worker'[w].todo = worker[w].todo \ {r}
           /\ worker'[w].chat = Chat(w)
           /\ worker'[w].value[r] = value
           /\ \A s \in Rows \ {r} : worker'[w].value[s] = worker[w].value[s]
           /\ \A v \in Workers \ {w} : worker'[v] = worker[v]
           /\ Tried(w)' = Tried(w) \cup {r}
           /\ \A v \in Workers \ {w} : Tried(v)' = Tried(v)
BY DEF Handles, Handled, TypeOK, WorkerState, Tried

\* The four ways an attempt may end, as the invariant sees them.
LEMMA AttemptEffect ==
    ASSUME IInv, NEW w \in Workers, Handle(w)
    PROVE  \E r \in worker[w].todo, value \in Row :
              /\ Handles(w, r, value)
              /\ Decided(value, Chat(w))
              /\ UNCHANGED <<hour, linked, row, crashes>>
              /\ \/ value.state # "sent" /\ UNCHANGED <<inbox, lost>>
                 \/ /\ value.state # "sent"
                    /\ inbox' = [inbox EXCEPT ![r] = @ + 1]
                    /\ lost' = [lost EXCEPT ![r] = @ + 1]
                 \/ /\ value.state = "sent"
                    /\ inbox' = [inbox EXCEPT ![r] = @ + 1]
                    /\ UNCHANGED lost
<1>1. PICK r \in Rows :
        NoChat(w, r) \/ SendOk(w, r) \/ SendFail(w, r) \/ SendUnanswered(w, r)
  BY DEF Handle
<1>2. row[r] \in Row /\ r \in worker[w].todo /\ r \in worker[w].batch
  BY <1>1 DEF IInv, TypeOK, NoChat, SendOk, SendFail, SendUnanswered, Handled
<1>3. row[r].state \in Undelivered /\ row[r].attempts <= Retries
  BY <1>2 DEF IInv, OneRunPerRow, AttemptsWithinPlan
<1>4. \A delay \in {0, 1} : /\ mark_failed(row[r], delay) \in Row
                            /\ mark_failed(row[r], delay).state # "sent"
                            /\ Decided(mark_failed(row[r], delay), Chat(w))
  <2> SUFFICES ASSUME NEW delay \in {0, 1}
               PROVE  /\ mark_failed(row[r], delay).state # "sent"
                      /\ Decided(mark_failed(row[r], delay), Chat(w))
    BY <1>2, HandledRowOK
  <2> DEFINE new == mark_failed(row[r], delay)
  <2>1. row[r].attempts \in Nat /\ Retries \in Nat
    BY <1>2, OutboxAssumption DEF Row
  <2>2. CASE row[r].attempts + 1 > Retries
    <3>1. new.state = "dead" /\ new.attempts = row[r].attempts + 1
      BY <1>2, <2>2 DEF mark_failed, Row
    <3> QED BY <1>3, <2>1, <2>2, <3>1 DEF Decided
  <2>3. CASE ~ (row[r].attempts + 1 > Retries)
    <3>1. new.state = "failed" /\ new.attempts = row[r].attempts + 1
      BY <1>2, <2>3 DEF mark_failed, Row
    <3> QED BY <1>3, <2>1, <2>3, <3>1 DEF Decided
  <2> QED BY <2>2, <2>3
<1>5. CASE NoChat(w, r)
  <2> DEFINE value == [row[r] EXCEPT !.state = "dead"]
  <2>1. value \in Row /\ value.state = "dead"
    BY <1>2, HandledRowOK DEF Row
  <2>2. Chat(w) = FALSE
    BY <1>5, NoneAssumption DEF NoChat, Chat, IInv, TypeOK, WorkerState
  <2>3. Decided(value, Chat(w))
    BY <2>1, <2>2 DEF Decided
  <2> QED BY <1>2, <1>5, <2>1, <2>3 DEF NoChat, Handles
<1>6. CASE SendOk(w, r)
  <2> DEFINE value == [row[r] EXCEPT !.state = "sent"]
  <2>1. value \in Row /\ value.state = "sent"
    BY <1>2, HandledRowOK DEF Row
  <2>2. Decided(value, Chat(w))
    BY <2>1 DEF Decided
  <2> QED BY <1>2, <1>6, <2>1, <2>2 DEF SendOk, Handles
<1>7. CASE SendFail(w, r)
  BY <1>2, <1>4, <1>7 DEF SendFail, Handles
<1>8. CASE SendUnanswered(w, r)
  BY <1>2, <1>4, <1>8 DEF SendUnanswered, Handles
<1> QED BY <1>1, <1>5, <1>6, <1>7, <1>8

\* What the other steps of a run write.
LEMMA RunFields ==
    ASSUME TypeOK, NEW w \in Workers
    PROVE  /\ Claim(w) =>
                \E batch \in SUBSET Rows :
                    /\ \A r \in batch : Claimable(r)
                    /\ worker'[w].batch = batch /\ worker'[w].todo = batch
                    /\ Tried(w)' = {}
           /\ Commit(w) \/ EndsEarly(w) => worker'[w] = IdleWorker /\ Tried(w)' = {}
           /\ Claim(w) \/ Commit(w) \/ EndsEarly(w) =>
                \A v \in Workers \ {w} : worker'[v] = worker[v] /\ Tried(v)' = Tried(v)
<1>1. ASSUME Claim(w)
      PROVE  /\ \E batch \in SUBSET Rows :
                    /\ \A r \in batch : Claimable(r)
                    /\ worker'[w].batch = batch /\ worker'[w].todo = batch
                    /\ Tried(w)' = {}
             /\ \A v \in Workers \ {w} : worker'[v] = worker[v]
  <2>1. PICK batch \in SUBSET {r \in Rows : Claimable(r)} :
          worker' = [worker EXCEPT ![w] = [IdleWorker EXCEPT !.batch = batch, !.todo = batch]]
    BY <1>1 DEF Claim
  <2>2. /\ worker'[w].batch = batch /\ worker'[w].todo = batch
        /\ \A v \in Workers \ {w} : worker'[v] = worker[v]
    BY <2>1 DEF TypeOK, IdleWorker
  <2> QED BY <2>1, <2>2 DEF Tried
<1>2. ASSUME Commit(w) \/ EndsEarly(w)
      PROVE  /\ worker'[w] = IdleWorker /\ Tried(w)' = {}
             /\ \A v \in Workers \ {w} : worker'[v] = worker[v]
  <2>1. worker' = [worker EXCEPT ![w] = IdleWorker]
    BY <1>2 DEF Commit, EndsEarly, Crash, Cancel, Abort
  <2>2. worker'[w] = IdleWorker /\ \A v \in Workers \ {w} : worker'[v] = worker[v]
    BY <2>1 DEF TypeOK
  <2>3. Tried(w)' = {}
    BY <2>2 DEF Tried, IdleWorker
  <2> QED BY <2>2, <2>3
<1> QED BY <1>1, <1>2 DEF Tried

\* The passing of time leaves every run and row as it is, but for the hours
\* left to wait.
LEMMA TickFields ==
    ASSUME TypeOK, Tick
    PROVE  /\ UNCHANGED <<linked, inbox, lost, crashes>>
           /\ \A w \in Workers :
                /\ worker'[w].batch = worker[w].batch
                /\ worker'[w].todo = worker[w].todo
                /\ worker'[w].chat = worker[w].chat
                /\ Tried(w)' = Tried(w)
                /\ \A r \in Rows :
                     /\ worker'[w].value[r].state = worker[w].value[r].state
                     /\ worker'[w].value[r].attempts = worker[w].value[r].attempts
           /\ \A r \in Rows : /\ row'[r].state = row[r].state
                              /\ row'[r].attempts = row[r].attempts
<1>1. \A old \in Row : Sooner(old).state = old.state /\ Sooner(old).attempts = old.attempts
  BY DEF Sooner, Row
<1>2. \A w \in Workers :
        /\ worker'[w].batch = worker[w].batch
        /\ worker'[w].todo = worker[w].todo
        /\ worker'[w].chat = worker[w].chat
        /\ \A r \in Rows : worker'[w].value[r] = Sooner(worker[w].value[r])
  BY DEF Tick, TypeOK, WorkerState
<1>3. \A r \in Rows : row'[r] = Sooner(row[r]) /\ row[r] \in Row
  BY DEF Tick, TypeOK
<1>4. \A w \in Workers, r \in Rows : worker[w].value[r] \in Row
  BY DEF TypeOK, WorkerState
<1>5. \A w \in Workers : Tried(w)' = Tried(w)
  BY <1>2 DEF Tried
<1>6. \A w \in Workers, r \in Rows :
        /\ worker'[w].value[r].state = worker[w].value[r].state
        /\ worker'[w].value[r].attempts = worker[w].value[r].attempts
  BY <1>1, <1>2, <1>4
<1>7. \A r \in Rows : row'[r].state = row[r].state /\ row'[r].attempts = row[r].attempts
  BY <1>1, <1>3
<1>8. UNCHANGED <<linked, inbox, lost, crashes>>
  BY DEF Tick
<1> QED BY <1>2, <1>5, <1>6, <1>7, <1>8
-----------------------------------------------------------------------------
\* skip_locked: a row is claimed only when no other run has it, and the lock
\* holds until the run is over.
LEMMA OneRunPerRowStep == IInv /\ [Next]_vars => OneRunPerRow'
<1> SUFFICES ASSUME IInv, [Next]_vars PROVE OneRunPerRow'
  OBVIOUS
<1> USE DEF IInv
<1>1. CASE Tick
  BY <1>1, TickFields DEF OneRunPerRow, TypeOK, WorkerState
<1>2. CASE Relink
  BY <1>2 DEF Relink, OneRunPerRow
<1>3. ASSUME NEW r \in Rows, Enqueue(r) PROVE OneRunPerRow'
  BY <1>3 DEF Enqueue, OneRunPerRow, TypeOK, WorkerState, Undelivered
<1>4. ASSUME NEW r \in Rows, Remove(r) PROVE OneRunPerRow'
  BY <1>4 DEF Remove, OneRunPerRow, TypeOK, WorkerState, Locked
<1>5. ASSUME NEW w \in Workers, Claim(w) PROVE OneRunPerRow'
  <2>1. UNCHANGED row
    BY <1>5 DEF Claim
  <2>2. PICK batch \in SUBSET Rows :
          (\A r \in batch : Claimable(r)) /\ worker'[w].batch = batch
    BY <1>5, RunFields
  <2>3. \A v \in Workers \ {w} : worker'[v] = worker[v] /\ batch \cap worker[v].batch = {}
    BY <1>5, <2>2, RunFields DEF Claimable, Locked
  <2> QED BY <2>1, <2>2, <2>3 DEF OneRunPerRow, Claimable
<1>6. ASSUME NEW w \in Workers, Handle(w) PROVE OneRunPerRow'
  <2>1. PICK r \in worker[w].todo, value \in Row :
          Handles(w, r, value) /\ UNCHANGED row
    BY <1>6, AttemptEffect
  <2>2. \A v \in Workers : worker'[v].batch = worker[v].batch
    BY <2>1, HandledFields DEF TypeOK, WorkerState
  <2> QED BY <2>1, <2>2 DEF OneRunPerRow
<1>7. ASSUME NEW w \in Workers, Commit(w) PROVE OneRunPerRow'
  <2>1. \A r \in Rows \ worker[w].batch : row'[r] = row[r]
    BY <1>7 DEF Commit
  <2>2. worker'[w].batch = {} /\ \A v \in Workers \ {w} : worker'[v] = worker[v]
    BY <1>7, RunFields DEF IdleWorker
  <2>3. \A v \in Workers \ {w} : worker[v].batch \subseteq Rows \ worker[w].batch
    BY DEF OneRunPerRow, TypeOK, WorkerState
  <2> QED BY <2>1, <2>2, <2>3 DEF OneRunPerRow
<1>8. ASSUME NEW w \in Workers, EndsEarly(w) PROVE OneRunPerRow'
  BY <1>8, RunFields DEF EndsEarly, Crash, Cancel, Abort, OneRunPerRow, IdleWorker
<1>9. CASE UNCHANGED vars
  BY <1>9 DEF vars, OneRunPerRow
<1> QED BY <1>1, <1>2, <1>3, <1>4, <1>5, <1>6, <1>7, <1>8, <1>9 DEF Next, EndsEarly

\* The order of things in a batch: whatever happens meanwhile, a row the run has
\* tried keeps the outcome until the commit.
LEMMA TriedAreDecidedStep == IInv /\ [Next]_vars => TriedAreDecided'
<1> SUFFICES ASSUME IInv, [Next]_vars PROVE TriedAreDecided'
  OBVIOUS
<1> USE DEF IInv
<1>0. \A w \in Workers : Tried(w) \subseteq Rows
  BY DEF Tried, TypeOK, WorkerState
<1>1. CASE Tick
  BY <1>0, <1>1, TickFields DEF TriedAreDecided, Decided
<1>2. CASE Relink \/ \E r \in Rows : Enqueue(r) \/ Remove(r)
  BY <1>2 DEF Relink, Enqueue, Remove, TriedAreDecided, Tried
<1>3. ASSUME NEW w \in Workers, Claim(w) \/ Commit(w) \/ EndsEarly(w)
      PROVE  TriedAreDecided'
  BY <1>3, RunFields DEF TriedAreDecided
<1>4. ASSUME NEW w \in Workers, Handle(w) PROVE TriedAreDecided'
  <2>1. PICK r \in worker[w].todo, value \in Row :
          Handles(w, r, value) /\ Decided(value, Chat(w))
    BY <1>4, AttemptEffect
  <2>2. r \in Rows
    BY <2>1 DEF TypeOK, WorkerState
  <2>3. \A s \in Tried(w) : s # r => Decided(worker'[w].value[s], worker'[w].chat)
    <3> SUFFICES ASSUME NEW s \in Tried(w), s # r
                 PROVE  Decided(worker'[w].value[s], worker'[w].chat)
      OBVIOUS
    <3>1. worker'[w].value[s] = worker[w].value[s] /\ worker'[w].chat = Chat(w)
      BY <1>0, <2>1, <2>2, HandledFields
    <3>2. Decided(worker[w].value[s], worker[w].chat)
      BY DEF TriedAreDecided
    <3>3. worker[w].chat = FALSE => Chat(w) = FALSE
      BY NoneAssumption DEF Chat
    <3> QED BY <3>1, <3>2, <3>3 DEF Decided
  <2>4. /\ Decided(worker'[w].value[r], worker'[w].chat)
        /\ Tried(w)' = Tried(w) \cup {r}
        /\ \A v \in Workers \ {w} : worker'[v] = worker[v] /\ Tried(v)' = Tried(v)
    BY <2>1, <2>2, HandledFields
  <2> QED BY <2>3, <2>4 DEF TriedAreDecided
<1>5. CASE UNCHANGED vars
  BY <1>5 DEF vars, TriedAreDecided, Tried
<1> QED BY <1>1, <1>2, <1>3, <1>4, <1>5 DEF Next, EndsEarly

\* The retry plan: an undelivered row has never been tried more often than the
\* plan allows.
LEMMA AttemptsStep == IInv /\ [Next]_vars => AttemptsWithinPlan'
<1> SUFFICES ASSUME IInv, [Next]_vars PROVE AttemptsWithinPlan'
  OBVIOUS
<1> USE DEF IInv
<1>1. CASE Tick
  BY <1>1, TickFields DEF AttemptsWithinPlan
<1>2. ASSUME NEW r \in Rows, Enqueue(r) PROVE AttemptsWithinPlan'
  BY <1>2, OutboxAssumption DEF Enqueue, AttemptsWithinPlan, TypeOK
<1>3. ASSUME NEW r \in Rows, Remove(r) PROVE AttemptsWithinPlan'
  BY <1>3 DEF Remove, AttemptsWithinPlan, TypeOK, NoRow, Undelivered
<1>4. ASSUME NEW w \in Workers, Commit(w) PROVE AttemptsWithinPlan'
  <2>1. \A r \in worker[w].batch : Decided(worker[w].value[r], worker[w].chat)
    BY <1>4 DEF Commit, TriedAreDecided, Tried
  <2> QED BY <1>4, <2>1 DEF Commit, AttemptsWithinPlan, Decided, Undelivered
<1>5. ASSUME NEW w \in Workers, Claim(w) \/ Handle(w) \/ EndsEarly(w)
      PROVE  AttemptsWithinPlan'
  <2>1. UNCHANGED row
    BY <1>5, AttemptEffect DEF Claim, EndsEarly, Crash, Cancel, Abort
  <2> QED BY <2>1 DEF AttemptsWithinPlan
<1>6. CASE Relink \/ UNCHANGED vars
  BY <1>6 DEF Relink, vars, AttemptsWithinPlan
<1> QED BY <1>1, <1>2, <1>3, <1>4, <1>5, <1>6 DEF Next, EndsEarly
-----------------------------------------------------------------------------
\* How the steps change what the program knows to be sent.
LEMMA SentByFields ==
    ASSUME IInv, NEW w \in Workers
    PROVE  /\ Tick \/ Relink \/ (\E r \in Rows : Enqueue(r) \/ Remove(r))
                => SentBy(w)' = SentBy(w)
           /\ Claim(w) => SentBy(w)' = {} /\ SentBy(w) = {}
           /\ Commit(w) \/ EndsEarly(w) => SentBy(w)' = {}
           /\ \A v \in Workers \ {w} : Claim(v) \/ Handle(v) \/ Commit(v) \/ EndsEarly(v)
                => SentBy(w)' = SentBy(w)
<1> USE DEF IInv
<1>0. SentBy(w) = {r \in Tried(w) : worker[w].value[r].state = "sent"}
  BY DEF SentBy, Tried
<1>1. SentBy(w)' = {r \in Tried(w)' : worker'[w].value[r].state = "sent"}
  BY DEF SentBy, Tried
<1>2. Tried(w) \subseteq Rows
  BY DEF Tried, TypeOK, WorkerState
<1>3. Tick => SentBy(w)' = SentBy(w)
  <2> SUFFICES ASSUME Tick PROVE SentBy(w)' = SentBy(w)
    OBVIOUS
  <2>1. Tried(w)' = Tried(w) /\ \A r \in Rows : worker'[w].value[r].state = worker[w].value[r].state
    BY TickFields
  <2> QED BY <1>0, <1>1, <1>2, <2>1
<1>4. Relink \/ (\E r \in Rows : Enqueue(r) \/ Remove(r)) => SentBy(w)' = SentBy(w)
  BY DEF Relink, Enqueue, Remove, SentBy
<1>5. Claim(w) => SentBy(w)' = {} /\ SentBy(w) = {}
  BY <1>1, RunFields DEF Claim, Busy, SentBy
<1>6. Commit(w) \/ EndsEarly(w) => SentBy(w)' = {}
  BY <1>1, RunFields
<1>7. ASSUME NEW v \in Workers \ {w}, Claim(v) \/ Handle(v) \/ Commit(v) \/ EndsEarly(v)
      PROVE  SentBy(w)' = SentBy(w)
  <2>1. CASE Claim(v) \/ Commit(v) \/ EndsEarly(v)
    BY <1>0, <1>1, <2>1, RunFields
  <2>2. CASE Handle(v)
    <3>1. PICK r \in worker[v].todo, value \in Row : Handles(v, r, value)
      BY <2>2, AttemptEffect
    <3>2. worker'[w] = worker[w] /\ Tried(w)' = Tried(w)
      BY <3>1, HandledFields DEF TypeOK, WorkerState
    <3> QED BY <1>0, <1>1, <3>2
  <2> QED BY <1>7, <2>1, <2>2
<1> QED BY <1>3, <1>4, <1>5, <1>6, <1>7

\* An attempt adds its row to those known to be sent when it was, and no other.
LEMMA AttemptSends ==
    ASSUME IInv, NEW w \in Workers, NEW r \in worker[w].todo, NEW value \in Row,
           Handles(w, r, value)
    PROVE  /\ r \in Rows /\ ~ Confirmed(r)
           /\ SentBy(w)' = IF value.state = "sent" THEN SentBy(w) \cup {r} ELSE SentBy(w)
<1> USE DEF IInv
<1>1. r \in Rows /\ r \in worker[w].batch /\ r \notin SentBy(w)
  BY DEF TypeOK, WorkerState, SentBy
<1>2. \A v \in Workers \ {w} : r \notin SentBy(v)
  BY <1>1 DEF OneRunPerRow, SentBy
<1>3. row[r].state \in Undelivered
  BY <1>1 DEF OneRunPerRow
<1>4. Tried(w)' = Tried(w) \cup {r} /\ worker'[w].value[r] = value
  BY <1>1, HandledFields
<1>5. \A s \in Tried(w) : worker'[w].value[s] = worker[w].value[s]
  BY <1>1, HandledFields DEF Tried, TypeOK, WorkerState
<1>6. SentBy(w)' = {s \in Tried(w)' : worker'[w].value[s].state = "sent"}
  BY DEF SentBy, Tried
<1>7. SentBy(w)' = IF value.state = "sent" THEN SentBy(w) \cup {r} ELSE SentBy(w)
  BY <1>1, <1>4, <1>5, <1>6 DEF SentBy, Tried
<1> QED BY <1>1, <1>2, <1>3, <1>7 DEF Confirmed, Undelivered

\* A row confirmed has reached the recipient: a run assigns "sent" only after
\* the service took the message, and commits nothing else as sent.
LEMMA SentWasDeliveredStep == IInv /\ [Next]_vars => SentWasDelivered'
<1> SUFFICES ASSUME IInv, [Next]_vars PROVE SentWasDelivered'
  OBVIOUS
<1> USE DEF IInv
<1>0. /\ inbox \in [Rows -> Nat]
      /\ \A w \in Workers : SentBy(w) \subseteq Rows
  BY DEF TypeOK, WorkerState, SentBy
<1>1. CASE Tick
  BY <1>1, TickFields, SentByFields DEF SentWasDelivered
<1>2. CASE Relink
  BY <1>2, SentByFields DEF Relink, SentWasDelivered
<1>3. ASSUME NEW r \in Rows, Enqueue(r) \/ Remove(r) PROVE SentWasDelivered'
  <2>1. UNCHANGED inbox /\ \A w \in Workers : SentBy(w)' = SentBy(w)
    BY <1>3, SentByFields DEF Enqueue, Remove
  <2>2. \A s \in Rows : row'[s].state = "sent" => row[s].state = "sent"
    BY <1>3 DEF Enqueue, Remove, TypeOK, NoRow
  <2> QED BY <2>1, <2>2 DEF SentWasDelivered
<1>4. ASSUME NEW w \in Workers, Claim(w) \/ EndsEarly(w) PROVE SentWasDelivered'
  <2>1. UNCHANGED <<row, inbox>>
    BY <1>4 DEF Claim, EndsEarly, Crash, Cancel, Abort
  <2> QED BY <1>4, <2>1, SentByFields DEF SentWasDelivered
<1>5. ASSUME NEW w \in Workers, Commit(w) PROVE SentWasDelivered'
  <2>1. UNCHANGED inbox
    BY <1>5 DEF Commit
  <2>2. \A s \in Rows : row'[s].state = "sent" => row[s].state = "sent" \/ s \in SentBy(w)
    BY <1>5 DEF Commit, SentBy
  <2> QED BY <1>5, <2>1, <2>2, SentByFields DEF SentWasDelivered
<1>6. ASSUME NEW w \in Workers, Handle(w) PROVE SentWasDelivered'
  <2>1. PICK r \in worker[w].todo, value \in Row :
          /\ Handles(w, r, value) /\ UNCHANGED row
          /\ \/ value.state # "sent" /\ UNCHANGED <<inbox, lost>>
             \/ value.state # "sent" /\ inbox' = [inbox EXCEPT ![r] = @ + 1]
             \/ value.state = "sent" /\ inbox' = [inbox EXCEPT ![r] = @ + 1]
    BY <1>6, AttemptEffect
  <2>2. r \in Rows
    BY <2>1 DEF TypeOK, WorkerState
  <2>3. \A s \in Rows : inbox[s] > 0 => inbox'[s] > 0
    BY <1>0, <2>1, <2>2
  <2>4. value.state = "sent" => inbox'[r] > 0
    BY <1>0, <2>1, <2>2
  <2>5. SentBy(w)' \subseteq SentBy(w) \cup {s \in {r} : value.state = "sent"}
    BY <2>1, AttemptSends
  <2>6. \A v \in Workers \ {w} : SentBy(v)' = SentBy(v)
    BY <1>6, SentByFields
  <2> QED BY <1>0, <2>1, <2>3, <2>4, <2>5, <2>6 DEF SentWasDelivered
<1>7. CASE UNCHANGED vars
  BY <1>7 DEF vars, SentWasDelivered, SentBy
<1> QED BY <1>1, <1>2, <1>3, <1>4, <1>5, <1>6, <1>7 DEF Next, EndsEarly

\* No retry, no overlap and no failed neighbour makes a second copy: only an
\* answer lost, or a run that ends before its commit, does.
LEMMA OneCopyStep == IInv /\ [Next]_vars => OneCopyUnlessLost'
<1> SUFFICES ASSUME IInv, [Next]_vars PROVE OneCopyUnlessLost'
  OBVIOUS
<1> USE DEF IInv
<1>0. /\ inbox \in [Rows -> Nat] /\ lost \in [Rows -> Nat]
      /\ inbox' \in [Rows -> Nat] /\ lost' \in [Rows -> Nat]
  BY StepTypeOK DEF TypeOK
<1>1. \A r \in Rows : inbox[r] <= lost[r] + 1 /\ (~ Confirmed(r) => inbox[r] <= lost[r])
  BY <1>0 DEF OneCopyUnlessLost
<1>2. SUFFICES \A r \in Rows :
        inbox'[r] <= lost'[r] + 1 /\ (~ Confirmed(r)' => inbox'[r] <= lost'[r])
  BY <1>0, <1>2 DEF OneCopyUnlessLost
<1>3. ASSUME UNCHANGED <<inbox, lost>>, \A r \in Rows : Confirmed(r) => Confirmed(r)'
      PROVE  \A r \in Rows :
        inbox'[r] <= lost'[r] + 1 /\ (~ Confirmed(r)' => inbox'[r] <= lost'[r])
  BY <1>1, <1>3
<1>4. CASE Tick
  <2>1. \A w \in Workers : SentBy(w)' = SentBy(w)
    BY <1>4, SentByFields
  <2> QED BY <1>3, <1>4, <2>1, TickFields DEF Confirmed
<1>5. CASE Relink \/ \E r \in Rows : Enqueue(r) \/ Remove(r)
  <2>1. UNCHANGED <<inbox, lost>> /\ \A w \in Workers : SentBy(w)' = SentBy(w)
    BY <1>5, SentByFields DEF Relink, Enqueue, Remove
  <2>2. \A s \in Rows : row[s].state \in {"sent", "gone"} => row'[s].state \in {"sent", "gone"}
    BY <1>5 DEF Relink, Enqueue, Remove, TypeOK, NoRow
  <2> QED BY <1>3, <2>1, <2>2 DEF Confirmed
<1>6. ASSUME NEW w \in Workers, Claim(w)
      PROVE  \A r \in Rows :
        inbox'[r] <= lost'[r] + 1 /\ (~ Confirmed(r)' => inbox'[r] <= lost'[r])
  <2>1. UNCHANGED <<row, inbox, lost>>
    BY <1>6 DEF Claim
  <2>2. \A v \in Workers : SentBy(v)' = SentBy(v)
    BY <1>6, SentByFields
  <2> QED BY <1>3, <2>1, <2>2 DEF Confirmed
<1>7. ASSUME NEW w \in Workers, Commit(w)
      PROVE  \A r \in Rows :
        inbox'[r] <= lost'[r] + 1 /\ (~ Confirmed(r)' => inbox'[r] <= lost'[r])
  <2>1. UNCHANGED <<inbox, lost>> /\ \A v \in Workers \ {w} : SentBy(v)' = SentBy(v)
    BY <1>7, SentByFields DEF Commit
  <2>2. \A r \in SentBy(w) : r \in Rows => row'[r].state = "sent"
    BY <1>7 DEF Commit, SentBy
  <2>3. \A r \in Rows : row[r].state \in {"sent", "gone"} => row'[r] = row[r]
    BY <1>7 DEF Commit, OneRunPerRow, Undelivered
  <2> QED BY <1>3, <2>1, <2>2, <2>3 DEF Confirmed
<1>8. ASSUME NEW w \in Workers, EndsEarly(w)
      PROVE  \A r \in Rows :
        inbox'[r] <= lost'[r] + 1 /\ (~ Confirmed(r)' => inbox'[r] <= lost'[r])
  <2>1. UNCHANGED <<row, inbox>> /\ \A v \in Workers \ {w} : SentBy(v)' = SentBy(v)
    BY <1>8, SentByFields DEF EndsEarly, Crash, Cancel, Abort
  <2>2. \A r \in Rows : lost'[r] = IF r \in SentBy(w) THEN lost[r] + 1 ELSE lost[r]
    BY <1>8 DEF EndsEarly, Crash, Cancel, Abort
  <2>3. \A r \in Rows : r \notin SentBy(w) => (Confirmed(r) => Confirmed(r)')
    BY <2>1 DEF Confirmed
  <2> QED BY <1>0, <1>1, <2>1, <2>2, <2>3
<1>9. ASSUME NEW w \in Workers, Handle(w)
      PROVE  \A r \in Rows :
        inbox'[r] <= lost'[r] + 1 /\ (~ Confirmed(r)' => inbox'[r] <= lost'[r])
  <2>1. PICK r \in worker[w].todo, value \in Row :
          /\ Handles(w, r, value) /\ UNCHANGED row
          /\ \/ value.state # "sent" /\ UNCHANGED <<inbox, lost>>
             \/ /\ value.state # "sent"
                /\ inbox' = [inbox EXCEPT ![r] = @ + 1]
                /\ lost' = [lost EXCEPT ![r] = @ + 1]
             \/ /\ value.state = "sent"
                /\ inbox' = [inbox EXCEPT ![r] = @ + 1]
                /\ UNCHANGED lost
    BY <1>9, AttemptEffect
  <2>2. r \in Rows /\ ~ Confirmed(r)
    BY <2>1, AttemptSends
  <2>3. SentBy(w) \subseteq SentBy(w)' /\ (value.state = "sent" => r \in SentBy(w)')
    BY <2>1, AttemptSends
  <2>4. \A v \in Workers \ {w} : SentBy(v)' = SentBy(v)
    BY <1>9, SentByFields
  <2>5. \A s \in Rows : Confirmed(s) => Confirmed(s)'
    BY <2>1, <2>3, <2>4 DEF Confirmed
  <2>6. value.state = "sent" => Confirmed(r)'
    BY <2>3 DEF Confirmed
  <2> QED BY <1>0, <1>1, <2>1, <2>2, <2>5, <2>6
<1>10. CASE UNCHANGED vars
  BY <1>3, <1>10 DEF vars, Confirmed, SentBy
<1> QED BY <1>4, <1>5, <1>6, <1>7, <1>8, <1>9, <1>10 DEF Next, EndsEarly
-----------------------------------------------------------------------------
\* The inductive invariant holds in every reachable state.
THEOREM Invariant == Spec => []IInv
<1>1. Init => IInv
  <2> SUFFICES ASSUME Init PROVE IInv
    OBVIOUS
  <2>1. TypeOK
    BY OutboxAssumption DEF Init, TypeOK, IdleWorker, WorkerState, NoRow, Row, States
  <2>2. /\ \A w \in Workers : worker[w].batch = {} /\ Tried(w) = {} /\ SentBy(w) = {}
        /\ \A r \in Rows : row[r].state = "none" /\ inbox[r] = 0 /\ lost[r] = 0
    BY DEF Init, IdleWorker, NoRow, Tried, SentBy
  <2> QED BY <2>1, <2>2
          DEF IInv, OneRunPerRow, TriedAreDecided, AttemptsWithinPlan, Undelivered,
              SentWasDelivered, OneCopyUnlessLost, Confirmed
<1>2. IInv /\ [Next]_vars => IInv'
  BY StepTypeOK, OneRunPerRowStep, TriedAreDecidedStep, AttemptsStep,
     SentWasDeliveredStep, OneCopyStep DEF IInv
<1> QED BY <1>1, <1>2, PTL DEF Spec

\* "skip_locked keeps two workers apart": for any number of overlapping
\* dispatchers no row is in two batches, nor in one after it was settled.
THEOREM RunsAreApart == Spec => []OneRunPerRow
BY Invariant, PTL DEF IInv

\* A row the program calls sent, or will when a run commits, has reached its
\* recipient.
THEOREM SentMeansDelivered == Spec => []SentWasDelivered
BY Invariant, PTL DEF IInv

\* The recipient gets at most one copy more than there were lost answers and
\* runs cut short between sending and commit, whatever the retry plan, the
\* batches and the number of dispatchers.
THEOREM CopiesAreAccounted == Spec => []OneCopyUnlessLost
BY Invariant, PTL DEF IInv

\* No message is given up while a retry is left, but for a missing account
\* (_mark_failed, _schedule_retry, dispatch_alerts).
THEOREM GivesUpOnlyWhenExhausted == Spec => GivenUpOnlyWhenExhausted
<1> DEFINE Excused ==
      \A r \in Rows :
        (row[r].state # "dead" /\ row'[r].state = "dead") =>
            \/ row'[r].attempts = Retries + 1
            \/ \E w \in Workers : r \in worker[w].batch /\ worker[w].chat = FALSE
<1>1. IInv /\ [Next]_vars => [Excused]_vars
  <2> SUFFICES ASSUME IInv, Next PROVE Excused
    OBVIOUS
  <2>1. ASSUME NEW w \in Workers, Commit(w) PROVE Excused
    <3>1. \A r \in worker[w].batch : Decided(worker[w].value[r], worker[w].chat)
      BY <2>1 DEF IInv, Commit, TriedAreDecided, Tried
    <3> QED BY <2>1, <3>1 DEF Commit, Decided
  <2>2. CASE Tick
    BY <2>2, TickFields DEF IInv
  <2>3. ASSUME NEW r \in Rows, Enqueue(r) \/ Remove(r) PROVE Excused
    BY <2>3 DEF Enqueue, Remove, NoRow, IInv, TypeOK
  <2>4. CASE Relink \/ \E w \in Workers : Claim(w) \/ Handle(w) \/ EndsEarly(w)
    <3>1. UNCHANGED row
      BY <2>4, AttemptEffect DEF Relink, Claim, EndsEarly, Crash, Cancel, Abort
    <3> QED BY <3>1
  <2> QED BY <2>1, <2>2, <2>3, <2>4 DEF Next, EndsEarly
<1> QED BY <1>1, Invariant, PTL DEF Spec, GivenUpOnlyWhenExhausted
-----------------------------------------------------------------------------
\* A whole turn changes no remainder.
LEMMA NextTurn ==
    ASSUME NEW x \in Nat, NEW m \in Nat \ {0}
    PROVE  (x + m) % m = x % m
<1>1. x = m * (x \div m) + (x % m)
  OBVIOUS
<1>2. x + m = m * ((x \div m) + 1) + (x % m)
  BY <1>1
<1>3. x % m \in 0 .. m - 1 /\ (x \div m) + 1 \in Int
  OBVIOUS
<1>4. ASSUME NEW y \in Int, NEW q \in Int, NEW r \in 0 .. m - 1, y = m * q + r
      PROVE  y % m = r
  BY <1>4
<1> QED BY <1>2, <1>3, <1>4

\* An hour later there is an hour less to wait, and the hour waited for is the
\* same, midnight or not.
LEMMA HourWaitedFor ==
    ASSUME NEW h \in Hours, NEW d \in Nat \ {0}
    PROVE  (((h + 1) % HoursPerDay) + (d - 1)) % HoursPerDay = (h + d) % HoursPerDay
<1>1. CASE h + 1 < HoursPerDay
  <2>1. (h + 1) % HoursPerDay = h + 1
    BY <1>1, OutboxAssumption DEF Hours
  <2>2. h + 1 + (d - 1) = h + d
    BY OutboxAssumption DEF Hours
  <2> QED BY <2>1, <2>2
<1>2. CASE h + 1 = HoursPerDay
  <2>1. (h + 1) % HoursPerDay = 0
    BY <1>2, OutboxAssumption DEF Hours
  <2>2. h + d = (d - 1) + HoursPerDay
    BY <1>2, OutboxAssumption DEF Hours
  <2>3. ((d - 1) + HoursPerDay) % HoursPerDay = (d - 1) % HoursPerDay
    <3>1. d - 1 \in Nat /\ HoursPerDay \in Nat \ {0}
      BY OutboxAssumption
    <3> QED BY <3>1, NextTurn, Zenon
  <2>4. 0 + (d - 1) = d - 1
    OBVIOUS
  <2> QED BY <2>1, <2>2, <2>3, <2>4
<1> QED BY <1>1, <1>2, OutboxAssumption DEF Hours

\* A message recorded in quiet hours waits for their end: the hour it is put off
\* to is not quiet, in every time zone's day and for windows that wrap midnight.
THEOREM WaitsOutTheQuiet == Spec => []PutOffToTheEndOfQuiet
<1>1. Init => PutOffToTheEndOfQuiet
  BY DEF Init, NoRow, PutOffToTheEndOfQuiet
<1>2. IInv /\ PutOffToTheEndOfQuiet /\ [Next]_vars => PutOffToTheEndOfQuiet'
  <2> SUFFICES ASSUME IInv, PutOffToTheEndOfQuiet, [Next]_vars
               PROVE  PutOffToTheEndOfQuiet'
    OBVIOUS
  <2>0. hour \in Hours /\ row \in [Rows -> Row]
    BY DEF IInv, TypeOK
  <2>1. CASE Tick
    <3> SUFFICES ASSUME NEW r \in Rows, row'[r].state = "pending", row'[r].due > 0
                 PROVE  ~ Quiet((hour' + row'[r].due) % HoursPerDay)
      BY DEF PutOffToTheEndOfQuiet
    <3>1. row'[r] = Sooner(row[r]) /\ row[r].due \in Nat /\ row[r] \in Row
      BY <2>0, <2>1 DEF Tick, Row
    <3>2. row[r].state = "pending" /\ row[r].due \in Nat \ {0} /\ row'[r].due = row[r].due - 1
      BY <3>1 DEF Sooner, Row
    <3>3. ~ Quiet((hour + row[r].due) % HoursPerDay)
      BY <3>2 DEF PutOffToTheEndOfQuiet
    <3>4. (hour' + row'[r].due) % HoursPerDay = (hour + row[r].due) % HoursPerDay
      BY <2>0, <2>1, <3>2, HourWaitedFor DEF Tick
    <3> QED BY <3>3, <3>4
  <2>2. ASSUME NEW r \in Rows, Enqueue(r) PROVE PutOffToTheEndOfQuiet'
    <3>1. row'[r].due > 0 => ~ Quiet((hour + row'[r].due) % HoursPerDay)
      BY <2>0, <2>2, QuietDelayExists DEF Enqueue
    <3>2. \A s \in Rows \ {r} : row'[s] = row[s]
      BY <2>0, <2>2 DEF Enqueue
    <3>3. hour' = hour
      BY <2>2 DEF Enqueue
    <3> QED BY <3>1, <3>2, <3>3 DEF PutOffToTheEndOfQuiet
  <2>3. ASSUME NEW w \in Workers, Commit(w) PROVE PutOffToTheEndOfQuiet'
    <3>1. \A r \in worker[w].batch : worker[w].value[r].state # "pending"
      BY <2>3 DEF IInv, Commit, TriedAreDecided, Tried, Decided
    <3> QED BY <2>3, <3>1 DEF Commit, PutOffToTheEndOfQuiet
  <2>4. ASSUME NEW r \in Rows, Remove(r) PROVE PutOffToTheEndOfQuiet'
    BY <2>0, <2>4 DEF Remove, NoRow, PutOffToTheEndOfQuiet
  <2>5. CASE Relink \/ UNCHANGED vars \/ \E w \in Workers : Claim(w) \/ Handle(w) \/ EndsEarly(w)
    <3>1. UNCHANGED <<hour, row>>
      BY <2>5, AttemptEffect DEF Relink, vars, Claim, EndsEarly, Crash, Cancel, Abort
    <3> QED BY <3>1 DEF PutOffToTheEndOfQuiet
  <2> QED BY <2>1, <2>2, <2>3, <2>4, <2>5 DEF Next, EndsEarly
<1> QED BY <1>1, <1>2, Invariant, PTL DEF Spec
-----------------------------------------------------------------------------
(* Outbox implements Delivery.                                             *)

\* Where Delivery sees a row in the state the table has.
Seen(state) == IF state \in Undelivered THEN "queued" ELSE state

\* A commit settles the rows of the batch that were sent or given up; those put
\* off to a retry stay queued.
LEMMA CommitSettles ==
    ASSUME IInv, NEW w \in Workers, Commit(w)
    PROVE  Promise!Settle(SentBy(w), {r \in worker[w].batch : worker[w].value[r].state = "dead"})
<1> DEFINE dead == {r \in worker[w].batch : worker[w].value[r].state = "dead"}
<1>1. /\ worker[w].batch \subseteq Rows
      /\ SentBy(w) = {r \in worker[w].batch : worker[w].value[r].state = "sent"}
      /\ \A r \in worker[w].batch : row[r].state \in Undelivered
      /\ \A r \in worker[w].batch : worker[w].value[r].state \in {"sent", "dead", "failed"}
  BY DEF IInv, TypeOK, WorkerState, OneRunPerRow, Commit, SentBy, TriedAreDecided, Tried, Decided
<1>2. \A r \in SentBy(w) : inbox[r] > 0
  BY DEF IInv, SentWasDelivered
<1>3. SentBy(w) \cap dead = {}
  BY <1>1
<1>4. \A r \in SentBy(w) \cup dead : r \in Rows /\ row[r].state \in Undelivered
  BY <1>1
<1>5. \A r \in Rows :
        Seen(row'[r].state) = IF r \in SentBy(w) THEN "sent"
                              ELSE IF r \in dead THEN "dead" ELSE Seen(row[r].state)
  <2> SUFFICES ASSUME NEW r \in Rows
               PROVE  Seen(row'[r].state) = IF r \in SentBy(w) THEN "sent"
                              ELSE IF r \in dead THEN "dead" ELSE Seen(row[r].state)
    OBVIOUS
  <2>1. CASE r \in worker[w].batch
    <3>1. row'[r] = worker[w].value[r]
      BY <2>1 DEF Commit
    <3> QED BY <1>1, <2>1, <3>1 DEF Seen, Undelivered
  <2>2. CASE r \notin worker[w].batch
    <3>1. row'[r] = row[r]
      BY <2>2 DEF Commit
    <3> QED BY <1>1, <2>2, <3>1
  <2> QED BY <2>1, <2>2
<1>6. UNCHANGED inbox
  BY DEF Commit
<1> QED BY <1>2, <1>3, <1>4, <1>5, <1>6 DEF Promise!Settle, Seen

\* Every step of the dispatchers is a step of Delivery or changes nothing that
\* Delivery sees; so the outbox keeps the promise, for any number of messages,
\* runs, retries, crashes and cancellations.
THEOREM OutboxImplementsDelivery == Spec => KeepsPromise
<1>1. Init => Promise!Init
  BY DEF Init, Promise!Init, NoRow, Undelivered
<1>2. IInv /\ [Next]_vars => [Promise!Next]_(Promise!vars)
  <2> SUFFICES ASSUME IInv, [Next]_vars PROVE [Promise!Next]_(Promise!vars)
    OBVIOUS
  <2>0. row \in [Rows -> Row] /\ inbox \in [Rows -> Nat]
    BY DEF IInv, TypeOK
  <2>1. ASSUME UNCHANGED inbox, \A r \in Rows : Seen(row'[r].state) = Seen(row[r].state)
        PROVE  UNCHANGED Promise!vars
    BY <2>1 DEF Promise!vars, Seen
  <2>2. CASE Tick
    BY <2>1, <2>2, TickFields DEF IInv
  <2>3. CASE Relink \/ \E w \in Workers : Claim(w) \/ EndsEarly(w)
    BY <2>1, <2>3 DEF Relink, Claim, EndsEarly, Crash, Cancel, Abort
  <2>4. ASSUME NEW r \in Rows, Enqueue(r) PROVE Promise!Accept(r)
    BY <2>0, <2>4 DEF Enqueue, Promise!Accept, Undelivered
  <2>5. ASSUME NEW r \in Rows, Remove(r) PROVE Promise!Withdraw(r)
    BY <2>0, <2>5 DEF Remove, Promise!Withdraw, Undelivered, NoRow
  <2>6. ASSUME NEW w \in Workers, Commit(w) PROVE Promise!Next
    <3> DEFINE dead == {r \in worker[w].batch : worker[w].value[r].state = "dead"}
    <3>1. SentBy(w) \in SUBSET Rows /\ dead \in SUBSET Rows
      BY DEF SentBy, IInv, TypeOK, WorkerState
    <3>2. Promise!Settle(SentBy(w), dead)
      BY <2>6, CommitSettles
    <3> HIDE DEF dead
    <3>3. \E sent, given_up \in SUBSET Rows : Promise!Settle(sent, given_up)
      BY <3>1, <3>2, Zenon DEF Promise!Settle
    <3> QED BY <3>3 DEF Promise!Next
  <2>7. ASSUME NEW w \in Workers, Handle(w)
        PROVE  UNCHANGED Promise!vars \/ \E r \in Rows : Promise!Deliver(r)
    <3>1. PICK r \in worker[w].todo :
            /\ UNCHANGED row
            /\ UNCHANGED inbox \/ inbox' = [inbox EXCEPT ![r] = @ + 1]
      BY <2>7, AttemptEffect
    <3>2. r \in Rows /\ row[r].state \in Undelivered
      BY <3>1 DEF IInv, TypeOK, WorkerState, OneRunPerRow
    <3>3. CASE UNCHANGED inbox
      BY <2>1, <3>1, <3>3
    <3>4. CASE inbox' = [inbox EXCEPT ![r] = @ + 1]
      BY <3>1, <3>2, <3>4 DEF Promise!Deliver
    <3> QED BY <3>1, <3>2, <3>3, <3>4
  <2>8. CASE UNCHANGED vars
    BY <2>1, <2>8 DEF vars
  <2> QED BY <2>2, <2>3, <2>4, <2>5, <2>6, <2>7, <2>8 DEF Next, EndsEarly, Promise!Next
<1> QED BY <1>1, <1>2, Invariant, PTL DEF Spec, KeepsPromise, Promise!Spec
=============================================================================
