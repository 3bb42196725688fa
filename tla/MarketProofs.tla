---------------------------- MODULE MarketProofs ----------------------------
(***************************************************************************)
(* What Market and Portfolio keep for any number of users, coins, holdings,  *)
(* requests and jobs, any list length and any edits.                        *)
(***************************************************************************)
EXTENDS Market, TLAPS

-----------------------------------------------------------------------------
(* Portfolios.  Registration leaves every user with one portfolio, so no     *)
(* request ever creates a second.                                           *)

PortfolioHeld(r) ==
    ask[r].pc \in {"found", "adding"} =>
        /\ ask[r].user \in Users /\ ask[r].coin \in Coins
        /\ ask[r].portfolio = 1 /\ portfolios[ask[r].user] = 1

CoinKnown(r) == ask[r].pc = "adding" => coin[ask[r].coin] # None

RowLoaded(r) ==
    /\ ask[r].pc \in {"patching", "deleting"} =>
            ask[r].id \in Holdings /\ ask[r].row \in [Columns -> Values]
    /\ ask[r].pc = "patching" => ask[r].given \in Patches

AskOK(r) == PortfolioHeld(r) /\ CoinKnown(r) /\ RowLoaded(r)

HoldingsOK ==
    /\ \A h \in Rows : holding[h].portfolio = 1 /\ coin[holding[h].coin] # None
    /\ \A g, h \in Rows : (holding[g].user = holding[h].user /\ holding[g].coin = holding[h].coin)
            => g = h

CoinOK == coin \in [Coins -> BOOLEAN \cup {None}]

PInv ==
    /\ PortfolioTypeOK /\ CoinOK
    /\ \A u \in Users : portfolios[u] \in {None, 1}
    /\ HoldingsOK
    /\ \A r \in Requests : AskOK(r)

\* A request whose record is replaced by one that is fine leaves the others alone.
LEMMA OthersKeepAsk ==
  ASSUME PInv, NEW r \in Requests, NEW next, UNCHANGED <<portfolios, coin>>,
         ask' = [ask EXCEPT ![r] = next], AskOK(r)'
  PROVE  \A s \in Requests : AskOK(s)'
  <1> SUFFICES ASSUME NEW s \in Requests PROVE AskOK(s)'
    OBVIOUS
  <1>1. CASE s = r
    BY <1>1
  <1>2. CASE s # r
    <2>1. ask'[s] = ask[s]
      BY <1>2 DEF PInv, PortfolioTypeOK
    <2> QED BY <2>1 DEF PInv, AskOK, PortfolioHeld, CoinKnown, RowLoaded
  <1> QED BY <1>1, <1>2

\* The idle record is fine.
LEMMA IdleAskOK ==
  ASSUME PInv, NEW r \in Requests, ask' = [ask EXCEPT ![r] = IdleAsk],
         UNCHANGED <<portfolios, coin>>
  PROVE  /\ \A s \in Requests : AskOK(s)'
         /\ ask' \in [Requests -> [pc : {"idle", "found", "adding", "patching", "deleting"},
                             user : Users \cup {None}, portfolio : Nat \cup {None},
                             coin : Coins \cup {None}, id : Holdings \cup {None},
                             row : [Columns -> Values] \cup {None},
                             given : Patches \cup {None}]]
  <1>1. ask'[r] = IdleAsk
    BY DEF PInv, PortfolioTypeOK
  <1>2. AskOK(r)'
    BY <1>1 DEF AskOK, PortfolioHeld, CoinKnown, RowLoaded, IdleAsk
  <1>3. \A s \in Requests : AskOK(s)'
    BY <1>2, OthersKeepAsk
  <1> QED BY <1>3 DEF PInv, PortfolioTypeOK, IdleAsk

LEMMA SignUpKeeps == ASSUME PInv, NEW u \in Users, SignUp(u) PROVE PInv'
  <1>1. PortfolioTypeOK' /\ CoinOK'
    BY DEF PInv, PortfolioTypeOK, SignUp, CoinOK
  <1>2. \A v \in Users : portfolios'[v] \in {None, 1}
    BY DEF PInv, PortfolioTypeOK, SignUp
  <1>3. HoldingsOK'
    BY DEF PInv, HoldingsOK, SignUp, Rows
  <1>4. \A v \in Users : portfolios[v] = 1 => portfolios'[v] = 1
    BY DEF PInv, PortfolioTypeOK, SignUp
  <1>5. \A r \in Requests : AskOK(r)'
    BY <1>4 DEF PInv, SignUp, AskOK, PortfolioHeld, CoinKnown, RowLoaded
  <1> QED BY <1>1, <1>2, <1>3, <1>5 DEF PInv

LEMMA FindPortfolioKeeps ==
  ASSUME PInv, NEW r \in Requests, NEW u \in Users, NEW c \in Coins, FindPortfolio(r, u, c)
  PROVE  PInv'
  <1> DEFINE next == [IdleAsk EXCEPT !.pc = "found", !.user = u, !.coin = c, !.portfolio = 1]
  <1>1. portfolios[u] = 1
    BY PortfolioAssumption DEF PInv, FindPortfolio
  <1>2. ask' = [ask EXCEPT ![r] = next]
    BY <1>1 DEF FindPortfolio, AskStep, IdleAsk
  <1>3. ask'[r] = next
    BY <1>2 DEF PInv, PortfolioTypeOK
  <1>4. AskOK(r)'
    BY <1>1, <1>3 DEF AskOK, PortfolioHeld, CoinKnown, RowLoaded, IdleAsk, FindPortfolio
  <1>5. \A s \in Requests : AskOK(s)'
    BY <1>2, <1>4, OthersKeepAsk DEF FindPortfolio
  <1>6. PortfolioTypeOK'
    BY <1>2 DEF PInv, PortfolioTypeOK, IdleAsk, FindPortfolio
  <1> QED BY <1>5, <1>6 DEF PInv, FindPortfolio, HoldingsOK, Rows, CoinOK

LEMMA LookUpCoinKeeps == ASSUME PInv, NEW r \in Requests, LookUpCoin(r) PROVE PInv'
  <1>1. ask[r].pc = "found" /\ PortfolioHeld(r) /\ ask[r].portfolio # None
    BY PortfolioAssumption DEF PInv, AskOK, LookUpCoin, AskStep, PortfolioHeld
  <1>2. UNCHANGED <<portfolios, holding, coin>>
    BY <1>1 DEF LookUpCoin
  <1>3. CASE coin[ask[r].coin] = None
    <2>1. ask' = [ask EXCEPT ![r] = IdleAsk]
      BY <1>3 DEF LookUpCoin, AskStep
    <2> QED BY <1>2, <2>1, IdleAskOK DEF PInv, PortfolioTypeOK, HoldingsOK, Rows, CoinOK
  <1>4. CASE coin[ask[r].coin] # None
    <2> DEFINE next == [ask[r] EXCEPT !.pc = "adding"]
    <2>1. ask[r] \in [pc : {"idle", "found", "adding", "patching", "deleting"},
                      user : Users \cup {None}, portfolio : Nat \cup {None},
                      coin : Coins \cup {None}, id : Holdings \cup {None},
                      row : [Columns -> Values] \cup {None}, given : Patches \cup {None}]
      BY DEF PInv, PortfolioTypeOK
    <2>2. ask' = [ask EXCEPT ![r] = next]
      <3>1. [ask[r] EXCEPT !.pc = "adding",
                           !.portfolio = IF @ = None THEN portfolios[ask[r].user] + 1 ELSE @] = next
        BY <1>1, <2>1
      <3> QED BY <1>4, <3>1 DEF LookUpCoin, AskStep
    <2>3. ask'[r] = next
      BY <2>2 DEF PInv, PortfolioTypeOK
    <2>4. AskOK(r)'
      BY <1>1, <1>2, <1>4, <2>1, <2>3 DEF AskOK, PortfolioHeld, CoinKnown, RowLoaded
    <2>5. \A s \in Requests : AskOK(s)'
      BY <1>2, <2>2, <2>4, OthersKeepAsk
    <2>6. PortfolioTypeOK'
      BY <1>2, <2>1, <2>2 DEF PInv, PortfolioTypeOK
    <2> QED BY <1>2, <2>5, <2>6 DEF PInv, HoldingsOK, Rows, CoinOK
  <1> QED BY <1>3, <1>4

\* The unique index refuses the second row; all rows are of portfolio 1.
LEMMA AddHoldingKeeps == ASSUME PInv, NEW r \in Requests, AddHolding(r) PROVE PInv'
  <1>1. /\ ask' = [ask EXCEPT ![r] = IdleAsk] /\ UNCHANGED <<portfolios, coin>>
        /\ ask[r].pc = "adding"
    BY DEF AddHolding, AskDone, AskStep
  <1>2. CASE Duplicate(r)
    <2>1. UNCHANGED holding
      BY <1>2 DEF AddHolding
    <2> QED BY <1>1, <2>1, IdleAskOK DEF PInv, PortfolioTypeOK, HoldingsOK, Rows, CoinOK
  <1>3. CASE ~ Duplicate(r)
    <2> DEFINE new == [user |-> ask[r].user, portfolio |-> ask[r].portfolio,
                       coin |-> ask[r].coin, columns |-> NewRow]
    <2>1. PICK h \in Holdings : holding[h] = None /\ holding' = [holding EXCEPT ![h] = new]
      BY <1>3 DEF AddHolding
    <2>2. /\ ask[r].user \in Users /\ ask[r].coin \in Coins /\ ask[r].portfolio = 1
          /\ coin[ask[r].coin] # None
      BY <1>1 DEF PInv, AskOK, PortfolioHeld, CoinKnown
    <2>3. new \in HoldingRow
      BY <2>2, PortfolioAssumption DEF HoldingRow
    <2>4. PortfolioTypeOK'
      BY <1>1, <2>1, <2>3, IdleAskOK DEF PInv, PortfolioTypeOK
    <2>5. \A g \in Rows' : g # h => g \in Rows /\ holding'[g] = holding[g]
      BY <2>1 DEF Rows, PInv, PortfolioTypeOK
    <2>6. holding'[h] = new
      BY <2>1 DEF PInv, PortfolioTypeOK
    <2>7. \A g \in Rows : ~ (holding[g].user = new.user /\ holding[g].coin = new.coin)
      BY <1>3, <2>2 DEF Duplicate, PInv, HoldingsOK
    <2>8. HoldingsOK'
      <3>1. \A g \in Rows' : holding'[g].portfolio = 1 /\ coin'[holding'[g].coin] # None
        BY <1>1, <2>2, <2>5, <2>6 DEF PInv, HoldingsOK
      <3>2. ASSUME NEW g \in Rows', NEW i \in Rows', holding'[g].user = holding'[i].user,
                   holding'[g].coin = holding'[i].coin
            PROVE  g = i
        <4> HIDE DEF new
        <4>1. CASE g = h /\ i # h
          BY <3>2, <4>1, <2>5, <2>6, <2>7
        <4>2. CASE g # h /\ i = h
          BY <3>2, <4>2, <2>5, <2>6, <2>7
        <4>3. CASE g # h /\ i # h
          BY <3>2, <4>3, <2>5 DEF PInv, HoldingsOK
        <4> QED BY <4>1, <4>2, <4>3
      <3> QED BY <3>1, <3>2 DEF HoldingsOK
    <2> QED BY <1>1, <2>4, <2>8, IdleAskOK DEF PInv, CoinOK
  <1> QED BY <1>2, <1>3

LEMMA LoadHoldingKeeps ==
  ASSUME PInv, NEW r \in Requests, NEW h \in Holdings, NEW given \in Patches \cup {None},
         LoadHolding(r, h, given)
  PROVE  PInv'
  <1> DEFINE next == [IdleAsk EXCEPT !.pc = IF given = None THEN "deleting" ELSE "patching",
                              !.id = h, !.row = holding[h].columns, !.given = given]
  <1>1. holding[h].columns \in [Columns -> Values]
    BY DEF LoadHolding, Rows, PInv, PortfolioTypeOK, HoldingRow
  <1>2. ask' = [ask EXCEPT ![r] = next] /\ UNCHANGED <<portfolios, holding, coin>>
    BY DEF LoadHolding, AskStep
  <1>3. ask'[r] = next
    BY <1>2 DEF PInv, PortfolioTypeOK
  <1>4. AskOK(r)'
    BY <1>1, <1>3 DEF AskOK, PortfolioHeld, CoinKnown, RowLoaded, IdleAsk
  <1>5. \A s \in Requests : AskOK(s)'
    BY <1>2, <1>4, OthersKeepAsk
  <1>6. PortfolioTypeOK'
    BY <1>1, <1>2 DEF PInv, PortfolioTypeOK, IdleAsk
  <1> QED BY <1>2, <1>5, <1>6 DEF PInv, HoldingsOK, Rows, CoinOK

\* An edit changes neither user nor coin of a row.
LEMMA PatchHoldingKeeps == ASSUME PInv, NEW r \in Requests, PatchHolding(r) PROVE PInv'
  <1>1. /\ ask' = [ask EXCEPT ![r] = IdleAsk] /\ UNCHANGED <<portfolios, coin>>
        /\ ask[r].pc = "patching"
    BY DEF PatchHolding, AskDone, AskStep
  <1>2. CASE ask[r].id \notin Rows
    <2>1. UNCHANGED holding
      BY <1>2 DEF PatchHolding
    <2> QED BY <1>1, <2>1, IdleAskOK DEF PInv, PortfolioTypeOK, HoldingsOK, Rows, CoinOK
  <1>3. CASE ask[r].id \in Rows
    <2> DEFINE h == ask[r].id
    <2>1. holding[h] \in HoldingRow /\ ask[r].given \in Patches
      BY <1>1, <1>3 DEF Rows, PInv, PortfolioTypeOK, AskOK, RowLoaded
    <2>2. Patched(r) \in [Columns -> Values]
      <3>1. ask[r].given \in [Columns -> Values \cup {None}]
        BY <2>1, PortfolioAssumption
      <3>2. holding[h].columns \in [Columns -> Values]
        BY <2>1 DEF HoldingRow
      <3> QED BY <3>1, <3>2 DEF Patched
    <2>3. holding' = [holding EXCEPT ![h] = [@ EXCEPT !.columns = Patched(r)]]
      BY <1>3 DEF PatchHolding
    <2> DEFINE row == [holding[h] EXCEPT !.columns = Patched(r)]
    <2>4. row \in HoldingRow /\ row.user = holding[h].user /\ row.coin = holding[h].coin
          /\ row.portfolio = holding[h].portfolio
      BY <2>1, <2>2 DEF HoldingRow
    <2>5. holding' = [holding EXCEPT ![h] = row]
      BY <2>3
    <2> HIDE DEF row
    <2>6. PortfolioTypeOK'
      BY <1>1, <1>3, <2>4, <2>5, IdleAskOK DEF PInv, PortfolioTypeOK
    <2>7. \A g \in Rows' : /\ g \in Rows /\ holding'[g].user = holding[g].user
                           /\ holding'[g].coin = holding[g].coin
                           /\ holding'[g].portfolio = holding[g].portfolio
      BY <1>3, <2>4, <2>5 DEF Rows, PInv, PortfolioTypeOK
    <2>8. HoldingsOK'
      BY <1>1, <2>7 DEF PInv, HoldingsOK
    <2> QED BY <1>1, <2>6, <2>8, IdleAskOK DEF PInv, CoinOK
  <1> QED BY <1>2, <1>3

LEMMA DeleteHoldingKeeps == ASSUME PInv, NEW r \in Requests, DeleteHolding(r) PROVE PInv'
  <1>1. /\ ask' = [ask EXCEPT ![r] = IdleAsk] /\ UNCHANGED <<portfolios, coin>>
        /\ holding' = [holding EXCEPT ![ask[r].id] = Gone]
    BY DEF DeleteHolding, AskDone, AskStep
  <1>2. PortfolioTypeOK'
    BY <1>1, IdleAskOK DEF PInv, PortfolioTypeOK
  <1>3. \A g \in Rows' : g \in Rows /\ holding'[g] = holding[g]
    BY <1>1 DEF Rows, PInv, PortfolioTypeOK
  <1>4. HoldingsOK'
    BY <1>1, <1>3 DEF PInv, HoldingsOK
  <1> QED BY <1>1, <1>2, <1>4, IdleAskOK DEF PInv, CoinOK

LEMMA AskDiesKeeps == ASSUME PInv, NEW r \in Requests, AskDies(r) PROVE PInv'
  BY IdleAskOK DEF AskDies, PInv, PortfolioTypeOK, HoldingsOK, Rows, CoinOK

LEMMA PortfolioKeeps == ASSUME PInv, PortfolioNext PROVE PInv' /\ coin' = coin
  <1>1. PInv'
    BY SignUpKeeps, FindPortfolioKeeps, LookUpCoinKeeps, AddHoldingKeeps, LoadHoldingKeeps,
       PatchHoldingKeeps, DeleteHoldingKeeps, AskDiesKeeps DEF PortfolioNext
  <1>2. coin' = coin
    BY DEF PortfolioNext, SignUp, FindPortfolio, LookUpCoin, AddHolding, LoadHolding,
           PatchHolding, DeleteHolding, AskDies
  <1> QED BY <1>1, <1>2
-----------------------------------------------------------------------------
(* The market.  Everything a row refers to is known, and what jobs hold too. *)

JobState == [pc : {"idle", "tracked", "asking", "asking_top", "storing", "storing_top",
                   "marking"},
             tracked : SUBSET Coins, ids : SUBSET Coins, rows : SUBSET Coins]

Knows(j) ==
    /\ job[j].pc = "tracked" => job[j].tracked \subseteq Known
    /\ job[j].pc = "asking" => job[j].ids \subseteq Known
    /\ job[j].pc \in {"storing", "marking"} => job[j].rows \subseteq Known

Settled == ~ stray /\ \A j \in Jobs : job[j].pc # "marking"

MInv ==
    /\ PInv /\ MarketTypeOK
    /\ watched \subseteq Known
    /\ \A j \in Jobs : Knows(j)
    /\ Settled => Tracked = list

\* A step of one job that leaves the tables alone, or adds to what is known.
LEMMA JobMoves ==
  ASSUME MInv, NEW j \in Jobs, NEW next \in JobState, job' = [job EXCEPT ![j] = next],
         Knows(j)', Known \subseteq Known', UNCHANGED <<portfolios, holding, ask, watched>>
  PROVE  /\ job' \in [Jobs -> JobState]
         /\ \A i \in Jobs : Knows(i)'
  <1>1. job \in [Jobs -> JobState]
    BY DEF MInv, MarketTypeOK, JobState
  <1>2. ASSUME NEW i \in Jobs PROVE Knows(i)'
    <2>1. CASE i = j
      BY <2>1
    <2>2. CASE i # j
      <3>1. job'[i] = job[i]
        BY <1>1, <2>2
      <3> QED BY <3>1 DEF MInv, Knows
    <2> QED BY <2>1, <2>2
  <1> QED BY <1>1, <1>2

\* More known coins do no harm to the portfolios.
LEMMA KnowingMore ==
  ASSUME PInv, CoinOK', Known \subseteq Known', UNCHANGED <<portfolios, holding, ask>>
  PROVE  PInv'
  <1>1. \A h \in Rows : holding[h].coin \in Coins
    BY DEF Rows, PInv, PortfolioTypeOK, HoldingRow
  <1>2. \A c \in Coins : coin[c] # None => coin'[c] # None
    BY DEF Known
  <1>3. HoldingsOK'
    BY <1>1, <1>2 DEF PInv, HoldingsOK, Rows
  <1>4. \A r \in Requests : AskOK(r)'
    BY <1>2 DEF PInv, AskOK, PortfolioHeld, CoinKnown, RowLoaded
  <1> QED BY <1>3, <1>4 DEF PInv, PortfolioTypeOK

LEMMA HeldKnown == ASSUME PInv PROVE Held \subseteq Known
  BY DEF PInv, HoldingsOK, PortfolioTypeOK, HoldingRow, Held, Rows, Known

\* A job's step that touches no table.
LEMMA QuietStep ==
  ASSUME MInv, NEW j \in Jobs, NEW next \in JobState, job' = [job EXCEPT ![j] = next],
         Knows(j)', job[j].pc # "marking", next.pc # "marking",
         UNCHANGED <<portfolios, holding, ask, coin, watched, list, stray>>
  PROVE  MInv'
  <1>1. Known' = Known /\ Tracked' = Tracked
    BY DEF Known, Tracked
  <1>2. /\ job' \in [Jobs -> JobState]
        /\ \A i \in Jobs : Knows(i)'
    BY <1>1, JobMoves
  <1>3. Settled' => Settled
    BY DEF Settled, MInv, MarketTypeOK, JobState
  <1>4. PInv'
    BY <1>1, KnowingMore DEF MInv, PInv, CoinOK
  <1>5. MarketTypeOK'
    BY <1>2, <1>4 DEF MInv, MarketTypeOK, JobState, PInv
  <1> QED BY <1>1, <1>2, <1>3, <1>4, <1>5 DEF MInv

LEMMA IdleJobOK == IdleJob \in JobState
  BY DEF IdleJob, JobState

LEMMA JobTyped == ASSUME MInv, NEW j \in Jobs PROVE job[j] \in JobState /\ job \in [Jobs -> JobState]
  BY DEF MInv, MarketTypeOK, JobState

\* Steps of a job that touch no table, up to the one that stores rows.
LEMMA IdleStep ==
  ASSUME MInv, NEW j \in Jobs, NEW next \in JobState, job' = [job EXCEPT ![j] = next],
         next.pc # "marking", next.pc = "tracked" => next.tracked \subseteq Known,
         next.pc = "asking" => next.ids \subseteq Known,
         next.pc = "storing" => next.rows \subseteq Known, job[j].pc # "marking",
         UNCHANGED <<portfolios, holding, ask, coin, watched, list, stray>>
  PROVE  MInv'
  <1>1. job'[j] = next /\ Known' = Known
    BY JobTyped DEF Known
  <1>2. Knows(j)'
    BY <1>1 DEF Knows
  <1> QED BY <1>2, QuietStep

LEMMA ReadTrackedKeeps == ASSUME MInv, NEW j \in Jobs, ReadTracked(j) PROVE MInv'
  <1>1. PICK top \in SUBSET Tracked :
            JobStep(j, "idle", [IdleJob EXCEPT !.pc = "tracked", !.tracked = top])
    BY DEF ReadTracked
  <1> DEFINE next == [IdleJob EXCEPT !.pc = "tracked", !.tracked = top]
  <1>2. top \subseteq Known /\ Known \subseteq Coins
    BY DEF Tracked, Known
  <1>3. next \in JobState /\ next.pc = "tracked" /\ next.tracked \subseteq Known
    BY <1>2 DEF JobState, IdleJob
  <1>4. job' = [job EXCEPT ![j] = next] /\ job[j].pc = "idle"
    BY <1>1 DEF JobStep
  <1> HIDE DEF next
  <1> QED BY <1>3, <1>4, IdleStep DEF ReadTracked

\* The poll asks for coins that are known, as alerts and holdings refer to no others.
LEMMA ReadReferencedKeeps == ASSUME MInv, NEW j \in Jobs, ReadReferenced(j) PROVE MInv'
  <1> DEFINE next == IF Wanted(j) = {} THEN [IdleJob EXCEPT !.pc = "asking_top"]
                     ELSE [job[j] EXCEPT !.pc = "asking", !.ids = Wanted(j), !.tracked = {}]
  <1>1. job' = [job EXCEPT ![j] = next] /\ job[j].pc = "tracked"
    BY DEF ReadReferenced, JobStep
  <1>2. Wanted(j) \subseteq Known /\ Known \subseteq Coins
    BY <1>1, HeldKnown DEF MInv, Knows, Wanted, Referenced, Known
  <1>3. /\ next \in JobState /\ next.pc \in {"asking", "asking_top"}
        /\ next.pc = "asking" => next.ids \subseteq Known
    BY <1>2, JobTyped DEF JobState, IdleJob
  <1> HIDE DEF next
  <1> QED BY <1>1, <1>3, IdleStep DEF ReadReferenced

LEMMA PollAnsweredKeeps == ASSUME MInv, NEW j \in Jobs, PollAnswered(j) PROVE MInv'
  <1>1. PICK rows \in Answers(job[j].ids, PerPage) :
            JobStep(j, "asking", IF rows = {} THEN IdleJob
                                 ELSE [IdleJob EXCEPT !.pc = "storing", !.rows = rows])
    BY DEF PollAnswered
  <1> DEFINE next == IF rows = {} THEN IdleJob ELSE [IdleJob EXCEPT !.pc = "storing", !.rows = rows]
  <1>2. rows \subseteq job[j].ids /\ job[j].pc = "asking"
    BY <1>1 DEF Answers, JobStep
  <1>3. rows \subseteq Known /\ rows \subseteq Coins
    BY <1>2 DEF MInv, Knows, Known
  <1>4. /\ next \in JobState /\ next.pc \in {"idle", "storing"}
        /\ next.pc = "storing" => next.rows \subseteq Known
    BY <1>3, JobTyped DEF JobState, IdleJob
  <1>5. job' = [job EXCEPT ![j] = next]
    BY <1>1 DEF JobStep
  <1> HIDE DEF next
  <1> QED BY <1>2, <1>4, <1>5, IdleStep DEF PollAnswered

LEMMA StartSyncKeeps == ASSUME MInv, NEW j \in Jobs, StartSync(j) PROVE MInv'
  <1> DEFINE next == [IdleJob EXCEPT !.pc = "asking_top"]
  <1>1. next \in JobState /\ next.pc = "asking_top"
    BY DEF JobState, IdleJob
  <1>2. job' = [job EXCEPT ![j] = next] /\ job[j].pc = "idle"
    BY DEF StartSync, JobStep
  <1> HIDE DEF next
  <1> QED BY <1>1, <1>2, IdleStep DEF StartSync

LEMMA SyncAnsweredKeeps == ASSUME MInv, NEW j \in Jobs, SyncAnswered(j) PROVE MInv'
  <1>1. PICK rows \in Answers(Coins, TopN) :
            JobStep(j, "asking_top", IF rows = {} THEN IdleJob
                                     ELSE [IdleJob EXCEPT !.pc = "storing_top", !.rows = rows])
    BY DEF SyncAnswered
  <1> DEFINE next == IF rows = {} THEN IdleJob
                     ELSE [IdleJob EXCEPT !.pc = "storing_top", !.rows = rows]
  <1>2. rows \subseteq Coins
    BY DEF Answers
  <1>3. next \in JobState /\ next.pc \in {"idle", "storing_top"}
    BY <1>2 DEF JobState, IdleJob
  <1>4. job' = [job EXCEPT ![j] = next] /\ job[j].pc = "asking_top"
    BY <1>1 DEF JobStep
  <1> HIDE DEF next
  <1> QED BY <1>3, <1>4, IdleStep DEF SyncAnswered

\* A poll stores coins that are known and keeps their marks; a sync may add coins,
\* and is then about to mark.
LEMMA StoreRowsKeeps == ASSUME MInv, NEW j \in Jobs, StoreRows(j) PROVE MInv'
  <1> DEFINE next == IF job[j].pc = "storing" THEN IdleJob ELSE [job[j] EXCEPT !.pc = "marking"]
  <1>1. /\ job' = [job EXCEPT ![j] = next] /\ job[j].pc \in {"storing", "storing_top"}
        /\ coin' = Upserted(job[j].rows)
        /\ UNCHANGED <<portfolios, holding, ask, watched, list, stray>>
    BY DEF StoreRows, JobStep
  <1>2. next \in JobState
    BY IdleJobOK, JobTyped DEF JobState
  <1>3. job'[j] = next
    BY <1>1, JobTyped
  <1>4. CoinOK' /\ Known' = Known \cup job[j].rows
    <2>1. job[j].rows \subseteq Coins
      BY JobTyped DEF JobState
    <2> QED BY <1>1, <2>1, PortfolioAssumption DEF Upserted, CoinOK, MInv, PInv, Known
  <1>6. /\ next.pc \in {"idle", "marking"}
        /\ next.pc = "marking" => next.rows = job[j].rows
    BY JobTyped DEF JobState, IdleJob
  <1>7. CASE job[j].pc = "storing"
    <2>1. job[j].rows \subseteq Known
      BY <1>7 DEF MInv, Knows
    <2>2. coin' = coin
      BY <1>1, <2>1 DEF Upserted, CoinOK, MInv, PInv, Known
    <2>3. next = IdleJob
      BY <1>7
    <2> QED BY <1>1, <1>2, <1>7, <2>2, <2>3, IdleStep, IdleJobOK DEF IdleJob
  <1>8. CASE job[j].pc = "storing_top"
    <2>1. next.pc = "marking"
      BY <1>8, JobTyped DEF JobState
    <2> HIDE DEF next
    <2>2. Knows(j)'
      BY <1>3, <1>4, <1>6 DEF Knows
    <2>3. /\ job' \in [Jobs -> JobState]
          /\ \A i \in Jobs : Knows(i)'
      BY <1>1, <1>2, <1>4, <2>2, JobMoves
    <2>4. PInv'
      BY <1>1, <1>4, KnowingMore DEF MInv
    <2>5. MarketTypeOK'
      BY <1>1, <2>3, <2>4 DEF MInv, MarketTypeOK, JobState, PInv, CoinOK
    <2>6. ~ Settled'
      BY <1>3, <2>1 DEF Settled
    <2> QED BY <1>1, <1>4, <2>3, <2>4, <2>5, <2>6 DEF MInv
  <1> QED BY <1>1, <1>7, <1>8

\* After the UPDATE the tracked coins are the rows of this sync, all of them known.
LEMMA MarkTrackedKeeps == ASSUME MInv, NEW j \in Jobs, MarkTracked(j) PROVE MInv'
  <1>1. /\ job' = [job EXCEPT ![j] = IdleJob] /\ job[j].pc = "marking"
        /\ coin' = [c \in Coins |-> IF c \in Known THEN c \in job[j].rows ELSE None]
        /\ list' = job[j].rows /\ stray' = FALSE
        /\ UNCHANGED <<portfolios, holding, ask, watched>>
    BY DEF MarkTracked, JobStep
  <1>2. ASSUME NEW c \in Coins
        PROVE  (c \in job[j].rows) \in BOOLEAN /\ (c \in job[j].rows) # None
    <2>1. TRUE # None /\ FALSE # None
      BY PortfolioAssumption, Zenon
    <2>2. CASE c \in job[j].rows
      <3>1. (c \in job[j].rows) = TRUE
        BY <2>2
      <3> QED BY <2>1, <3>1, Zenon
    <2>3. CASE c \notin job[j].rows
      <3>1. (c \in job[j].rows) = FALSE
        BY <2>3
      <3> QED BY <2>1, <3>1, Zenon
    <2> QED BY <2>2, <2>3, Zenon
  <1>3. CoinOK'
    BY <1>1, <1>2 DEF CoinOK
  <1>4. Known' = Known
    BY <1>1, <1>2 DEF Known
  <1>5. job[j].rows \subseteq Known /\ job[j].rows \in SUBSET Coins
    BY <1>1, JobTyped DEF MInv, Knows, JobState
  <1>6. Tracked' = list'
    BY <1>1, <1>4, <1>5 DEF Tracked, Known
  <1>7. job'[j] = IdleJob
    BY <1>1, JobTyped
  <1>8. Knows(j)'
    BY <1>7 DEF Knows, IdleJob
  <1>9. /\ job' \in [Jobs -> JobState]
        /\ \A i \in Jobs : Knows(i)'
    BY <1>1, <1>4, <1>8, IdleJobOK, JobMoves
  <1>10. PInv'
    BY <1>1, <1>3, <1>4, KnowingMore DEF MInv
  <1>11. MarketTypeOK'
    BY <1>1, <1>5, <1>9, <1>10 DEF MInv, MarketTypeOK, JobState, PInv, CoinOK
  <1> QED BY <1>1, <1>4, <1>6, <1>9, <1>10, <1>11 DEF MInv

LEMMA JobDiesKeeps == ASSUME MInv, NEW j \in Jobs, JobDies(j) PROVE MInv'
  <1>1. /\ job' = [job EXCEPT ![j] = IdleJob] /\ stray' = (stray \/ job[j].pc = "marking")
        /\ UNCHANGED <<portfolios, holding, ask, coin, watched, list>>
    BY DEF JobDies
  <1>2. CASE job[j].pc # "marking"
    <2>1. stray' = stray
      BY <1>1, <1>2 DEF MInv, MarketTypeOK
    <2> QED BY <1>1, <1>2, <2>1, IdleStep, IdleJobOK DEF IdleJob
  <1>3. CASE job[j].pc = "marking"
    <2>1. job'[j] = IdleJob
      BY <1>1, JobTyped
    <2>2. Known' = Known
      BY <1>1 DEF Known
    <2>3. Knows(j)'
      BY <2>1 DEF Knows, IdleJob
    <2>4. /\ job' \in [Jobs -> JobState]
          /\ \A i \in Jobs : Knows(i)'
      BY <1>1, <2>2, <2>3, IdleJobOK, JobMoves
    <2>5. PInv'
      BY <1>1, <2>2, KnowingMore DEF MInv, PInv, CoinOK
    <2>6. stray' = TRUE
      BY <1>1, <1>3
    <2>7. MarketTypeOK'
      BY <1>1, <2>4, <2>5, <2>6 DEF MInv, MarketTypeOK, JobState, PInv
    <2> QED BY <1>1, <2>2, <2>4, <2>5, <2>6, <2>7 DEF MInv, Settled
  <1> QED BY <1>2, <1>3

LEMMA AskKeeps == ASSUME MInv, Ask PROVE MInv'
  <1>1. PInv' /\ coin' = coin
    BY PortfolioKeeps DEF Ask, MInv
  <1>2. UNCHANGED <<watched, job, list, stray>>
    BY DEF Ask
  <1>3. Known' = Known /\ Tracked' = Tracked
    BY <1>1 DEF Known, Tracked
  <1>4. MarketTypeOK'
    BY <1>1, <1>2 DEF MInv, MarketTypeOK, PInv
  <1> QED BY <1>1, <1>2, <1>3, <1>4 DEF MInv, Knows, Settled

LEMMA WatchKeeps == ASSUME MInv, NEW c \in Coins, Watch(c) \/ Unwatch(c) PROVE MInv'
  <1>1. /\ UNCHANGED <<portfolios, holding, ask, coin, job, list, stray>>
        /\ watched' \subseteq Known /\ Known \subseteq Coins
    BY DEF Watch, Unwatch, MInv, Known
  <1>2. Known' = Known /\ Tracked' = Tracked
    BY <1>1 DEF Known, Tracked
  <1>3. PInv'
    BY <1>1, <1>2, KnowingMore DEF MInv, PInv, CoinOK
  <1>4. MarketTypeOK'
    BY <1>1, <1>3 DEF MInv, MarketTypeOK, PInv
  <1> QED BY <1>1, <1>2, <1>3, <1>4 DEF MInv, Knows, Settled

LEMMA MarketInitOK == MarketInit => MInv
  <1> SUFFICES ASSUME MarketInit PROVE MInv
    OBVIOUS
  <1>1. PInv /\ MarketTypeOK
    BY DEF MarketInit, PortfolioInit, PInv, PortfolioTypeOK, CoinOK, HoldingsOK, Rows, AskOK,
           PortfolioHeld, CoinKnown, RowLoaded, IdleAsk, MarketTypeOK, IdleJob
  <1>2. Known = {} /\ Tracked = {}
    BY DEF MarketInit, Known, Tracked
  <1>3. \A j \in Jobs : Knows(j)
    BY DEF MarketInit, Knows, IdleJob
  <1> QED BY <1>1, <1>2, <1>3 DEF MInv, MarketInit

LEMMA MarketKeeps == MInv /\ [MarketNext]_mvars => MInv'
  <1> SUFFICES ASSUME MInv, [MarketNext]_mvars PROVE MInv'
    OBVIOUS
  <1>1. CASE Ask
    BY <1>1, AskKeeps
  <1>2. ASSUME NEW c \in Coins, Watch(c) \/ Unwatch(c) PROVE MInv'
    BY <1>2, WatchKeeps
  <1>3. ASSUME NEW j \in Jobs,
               \/ ReadTracked(j) \/ ReadReferenced(j) \/ PollAnswered(j)
               \/ StartSync(j) \/ SyncAnswered(j) \/ StoreRows(j) \/ MarkTracked(j)
               \/ JobDies(j)
        PROVE  MInv'
    BY <1>3, ReadTrackedKeeps, ReadReferencedKeeps, PollAnsweredKeeps, StartSyncKeeps,
       SyncAnsweredKeeps, StoreRowsKeeps, MarkTrackedKeeps, JobDiesKeeps
  <1>4. CASE UNCHANGED mvars
    <2>1. UNCHANGED <<portfolios, holding, ask, coin, watched, job, list, stray>>
      BY <1>4 DEF mvars
    <2>2. Known' = Known /\ Tracked' = Tracked
      BY <2>1 DEF Known, Tracked
    <2>3. PInv'
      BY <2>1, <2>2, KnowingMore DEF MInv, PInv, CoinOK
    <2>4. MarketTypeOK'
      BY <2>1, <2>3 DEF MInv, MarketTypeOK, PInv
    <2> QED BY <2>1, <2>2, <2>3, <2>4 DEF MInv, Knows, Settled
  <1> QED BY <1>1, <1>2, <1>3, <1>4 DEF MarketNext

LEMMA MarketInvariant == MarketSpec => []MInv
  <1> QED BY MarketInitOK, MarketKeeps, PTL DEF MarketSpec

\* Whatever users add, edit and delete at once, a user has one holding per coin, and
\* the alert message that looks for it finds one row.
THEOREM OneHolding == MarketSpec => []OneHoldingPerCoin
  <1>1. MInv => OneHoldingPerCoin
    BY DEF MInv, PInv, HoldingsOK, OneHoldingPerCoin
  <1> QED BY <1>1, MarketInvariant, PTL

\* Only syncs move coins in and out of the tracked list.
THEOREM SyncOwnsTracked == MarketSpec => []TrackedIsTopList
  <1>1. MInv => TrackedIsTopList
    BY DEF MInv, Settled, TrackedIsTopList
  <1> QED BY <1>1, MarketInvariant, PTL

\* What a PATCH writes: its own row, and there a column it names or the value that is there.
LEMMA PatchWrites ==
  ASSUME PInv, NEW r \in Requests, PatchHolding(r),
         NEW h \in Rows, NEW c \in Columns, holding'[h].columns[c] # holding[h].columns[c]
  PROVE  ask[r].pc = "patching" /\ ask[r].id = h /\ ask[r].given[c] = holding'[h].columns[c]
  <1>1. ask[r].pc = "patching" /\ holding[h] \in HoldingRow /\ h \in Holdings
    BY DEF PatchHolding, AskDone, AskStep, PInv, PortfolioTypeOK, Rows
  <1>2. ask[r].id \in Rows /\ holding' = [holding EXCEPT ![ask[r].id].columns = Patched(r)]
    BY DEF PatchHolding
  <1>3. ask[r].id = h
    BY <1>2
  <1>4. holding'[h] = [holding[h] EXCEPT !.columns = Patched(r)]
    BY <1>1, <1>2, <1>3 DEF PInv, PortfolioTypeOK
  <1>5. holding'[h].columns = Patched(r)
    BY <1>1, <1>4 DEF HoldingRow
  <1>6. Patched(r)[c] = IF ask[r].given[c] \notin {None, ask[r].row[c]} THEN ask[r].given[c]
                        ELSE holding[h].columns[c]
    BY <1>3 DEF Patched
  <1> QED BY <1>1, <1>3, <1>5, <1>6

\* Two edits of a holding that name different columns both stand, whatever the order in
\* which update_holding reads and commits them: a column changes only to what a request
\* gave for it.
THEOREM EditsStand == MarketSpec => NoEditUndone
  <1>1. MInv /\ [MarketNext]_mvars =>
          [\A h \in Rows \cap Rows' : \A c \in Columns :
            holding'[h].columns[c] # holding[h].columns[c] =>
              \E r \in Requests : /\ ask[r].pc = "patching" /\ ask[r].id = h
                                  /\ ask[r].given[c] = holding'[h].columns[c]]_holding
    <2> SUFFICES ASSUME MInv, MarketNext, NEW h \in Rows \cap Rows', NEW c \in Columns,
                        holding'[h].columns[c] # holding[h].columns[c]
                 PROVE  \E r \in Requests : /\ ask[r].pc = "patching" /\ ask[r].id = h
                                            /\ ask[r].given[c] = holding'[h].columns[c]
      BY DEF mvars
    <2>0. PInv /\ h \in Holdings /\ holding[h] \notin {None, Gone} /\ holding'[h] # Gone
      BY DEF MInv, Rows
    <2>1. PortfolioNext
      <3>1. holding' # holding
        OBVIOUS
      <3> QED BY <3>1 DEF MarketNext, Watch, Unwatch, ReadTracked, ReadReferenced, PollAnswered,
                          StartSync, SyncAnswered, StoreRows, MarkTracked, JobDies, Ask
    <2>2. PICK r \in Requests : AddHolding(r) \/ PatchHolding(r) \/ DeleteHolding(r)
      <3>1. holding' # holding
        OBVIOUS
      <3> QED BY <2>1, <3>1 DEF PortfolioNext, SignUp, FindPortfolio, LookUpCoin, LoadHolding, AskDies
    <2>3. CASE AddHolding(r)
      <3>1. holding'[h] = holding[h]
        BY <2>0, <2>3 DEF AddHolding, PInv, PortfolioTypeOK
      <3> QED BY <3>1
    <2>4. CASE DeleteHolding(r)
      <3>1. holding'[h] = holding[h]
        BY <2>0, <2>4 DEF DeleteHolding, PInv, PortfolioTypeOK
      <3> QED BY <3>1
    <2>5. CASE PatchHolding(r)
      BY <2>0, <2>5, PatchWrites
    <2> QED BY <2>2, <2>3, <2>4, <2>5
  <1> QED BY <1>1, MarketInvariant, PTL DEF MarketSpec, NoEditUndone
=============================================================================
