------------------------------- MODULE Market -------------------------------
(***************************************************************************)
(* Which coins the program follows (services/market.py, workers/tasks.py,    *)
(* price_source/coingecko.py).  A poll asks upstream for the tracked coins   *)
(* and for those that holdings and alerts refer to; a sync asks for the top  *)
(* of the market and then says which coins are tracked.  Jobs overlap: cron  *)
(* starts polls and syncs apart from each other, oneshot commands at will.   *)
(* The prices themselves go their way in AlertPipeline and Candles.          *)
(***************************************************************************)
EXTENDS Portfolio

CONSTANTS
    Jobs,          \* polls and syncs running at once
    TopN,          \* settings.top_n_coins
    PerPage,       \* rows one answer of upstream may hold (250)
    MaxBusy        \* BOUND: jobs and requests that overlap

ASSUME MarketAssumption ==
    /\ TopN \in Nat \ {0} /\ PerPage \in Nat /\ TopN <= PerPage /\ MaxBusy \in Nat
    /\ IsFiniteSet(Coins) /\ None \notin Coins

VARIABLES
    watched,       \* coins with a row in alerts whose status is not 'expired'
    job,           \* what each job holds in memory
    list,          \* ghost: the coins of the last sync that marked them
    stray          \* ghost: a sync died after storing its coins since then

mvars == <<portfolios, holding, ask, coin, watched, job, list, stray>>

IdleJob == [pc |-> "idle", tracked |-> {}, ids |-> {}, rows |-> {}]

Known      == {c \in Coins : coin[c] # None}
Tracked    == {c \in Known : coin[c]}
Referenced == Held \cup watched

JobStep(j, from, changes) ==
    /\ job[j].pc = from
    /\ job' = [job EXCEPT ![j] = changes]

InFlight == Cardinality({j \in Jobs : job[j].pc # "idle"})
                + Cardinality({r \in Requests : ask[r].pc # "idle"})

\* What upstream may answer: it leaves out coins it cannot price, and those that
\* do not fit on the one page that is asked for, whoever refers to them.
Answers(asked, perPage) == {rows \in SUBSET asked : Cardinality(rows) <= perPage}
-----------------------------------------------------------------------------
\* tracked_coin_ids, first select; the limit keeps the best ranked.
ReadTracked(j) ==
    /\ InFlight < MaxBusy
    /\ \E top \in SUBSET Tracked :
        /\ Cardinality(top) = IF Cardinality(Tracked) < TopN THEN Cardinality(Tracked) ELSE TopN
        /\ JobStep(j, "idle", [IdleJob EXCEPT !.pc = "tracked", !.tracked = top])
    /\ UNCHANGED <<portfolios, holding, ask, coin, watched, list, stray>>

\* tracked_coin_ids, second select
Wanted(j) == job[j].tracked \cup Referenced

\* With no ids at all a poll does what a sync does.
ReadReferenced(j) ==
    /\ JobStep(j, "tracked",
            IF Wanted(j) = {} THEN [IdleJob EXCEPT !.pc = "asking_top"]
            ELSE [job[j] EXCEPT !.pc = "asking", !.ids = Wanted(j), !.tracked = {}])
    /\ UNCHANGED <<portfolios, holding, ask, coin, watched, list, stray>>

\* markets_by_ids, one request; an answer without rows leaves everything as it is
PollAnswered(j) ==
    /\ \E rows \in Answers(job[j].ids, PerPage) :
        JobStep(j, "asking", IF rows = {} THEN IdleJob
                             ELSE [IdleJob EXCEPT !.pc = "storing", !.rows = rows])
    /\ UNCHANGED <<portfolios, holding, ask, coin, watched, list, stray>>

StartSync(j) ==
    /\ InFlight < MaxBusy
    /\ JobStep(j, "idle", [IdleJob EXCEPT !.pc = "asking_top"])
    /\ UNCHANGED <<portfolios, holding, ask, coin, watched, list, stray>>

\* top_markets
SyncAnswered(j) ==
    /\ \E rows \in Answers(Coins, TopN) :
        JobStep(j, "asking_top", IF rows = {} THEN IdleJob
                                 ELSE [IdleJob EXCEPT !.pc = "storing_top", !.rows = rows])
    /\ UNCHANGED <<portfolios, holding, ask, coin, watched, list, stray>>

\* mutant: is_tracked is among the columns of the update
Upserted_tracked(rows) == [c \in Coins |-> IF c \in rows THEN TRUE ELSE coin[c]]

\* _upsert_coins: a new row is tracked, an old one keeps its is_tracked
Upserted(rows) == [c \in Coins |-> IF c \in rows /\ coin[c] = None THEN TRUE ELSE coin[c]]

\* _store_rows, the commit; what follows it writes redis only
StoreRows(j) ==
    /\ job[j].pc \in {"storing", "storing_top"}
    /\ coin' = Upserted(job[j].rows)
    /\ JobStep(j, job[j].pc, IF job[j].pc = "storing" THEN IdleJob
                             ELSE [job[j] EXCEPT !.pc = "marking"])
    /\ UNCHANGED <<portfolios, holding, ask, watched, list, stray>>

\* sync_top_list: one UPDATE of all rows, in a transaction of its own
MarkTracked(j) ==
    /\ JobStep(j, "marking", IdleJob)
    /\ coin' = [c \in Coins |-> IF c \in Known THEN c \in job[j].rows ELSE None]
    /\ list' = job[j].rows
    /\ stray' = FALSE
    /\ UNCHANGED <<portfolios, holding, ask, watched>>

\* The worker dies, upstream fails, or redis does.
JobDies(j) ==
    /\ job[j].pc # "idle"
    /\ job' = [job EXCEPT ![j] = IdleJob]
    /\ stray' = (stray \/ job[j].pc = "marking")
    /\ UNCHANGED <<portfolios, holding, ask, coin, watched, list>>

\* The alerts of all users (AlertPipeline): the first one on a coin, and the end of
\* the last
Watch(c) ==
    /\ c \in Known \ watched
    /\ watched' = watched \cup {c}
    /\ UNCHANGED <<portfolios, holding, ask, coin, job, list, stray>>

Unwatch(c) ==
    /\ c \in watched
    /\ watched' = watched \ {c}
    /\ UNCHANGED <<portfolios, holding, ask, coin, job, list, stray>>

\* A request of a user
Ask ==
    /\ PortfolioNext
    /\ UNCHANGED <<watched, job, list, stray>>
    /\ InFlight' <= MaxBusy
-----------------------------------------------------------------------------
MarketInit ==
    /\ PortfolioInit
    /\ coin = [c \in Coins |-> None]
    /\ watched = {} /\ list = {} /\ stray = FALSE
    /\ job = [j \in Jobs |-> IdleJob]

MarketNext ==
    \/ Ask
    \/ \E c \in Coins : Watch(c) \/ Unwatch(c)
    \/ \E j \in Jobs :
        \/ ReadTracked(j) \/ ReadReferenced(j) \/ PollAnswered(j)
        \/ StartSync(j) \/ SyncAnswered(j) \/ StoreRows(j) \/ MarkTracked(j)
        \/ JobDies(j)

MarketSpec == MarketInit /\ [][MarketNext]_mvars
-----------------------------------------------------------------------------
MarketTypeOK ==
    /\ PortfolioTypeOK
    /\ coin \in [Coins -> BOOLEAN \cup {None}]
    /\ watched \in SUBSET Coins /\ list \in SUBSET Coins /\ stray \in BOOLEAN
    /\ job \in [Jobs -> [pc : {"idle", "tracked", "asking", "asking_top", "storing",
                               "storing_top", "marking"},
                         tracked : SUBSET Coins, ids : SUBSET Coins, rows : SUBSET Coins]]

\* "is_tracked is owned by sync_top_list only": what is tracked is the list of the
\* last sync, with polls in between and beside it; a sync that has stored and not
\* yet marked, or died there, may leave more.
TrackedIsTopList ==
    /\ MarketTypeOK
    /\ (~ stray /\ \A j \in Jobs : job[j].pc # "marking") => Tracked = list
=============================================================================
