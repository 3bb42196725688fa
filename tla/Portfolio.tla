------------------------------ MODULE Portfolio ------------------------------
(***************************************************************************)
(* What users hold (services/portfolio.py, api/v1/portfolio.py, and          *)
(* default_portfolio_id of services/auth.py).  A request reads its row and   *)
(* commits later; postgres checks the unique index on (portfolio, coin) at   *)
(* the commit.  Quantity, price and note are columns alike.                 *)
(***************************************************************************)
EXTENDS Naturals, FiniteSets

CONSTANTS
    None, Gone,    \* no row; a row that was deleted
    Users,         \* users who register
    Coins,         \* ids upstream knows; some of them have a row in coins
    Holdings,      \* BOUND: ids of holdings; a uuid is used once
    NewRow,        \* BOUND: the columns of a new holding that PATCH may change
    Patches,       \* BOUND: the bodies PATCH may have, None for a column left out
    Requests       \* API requests in flight at once

Columns == DOMAIN NewRow
Values  == {NewRow[c] : c \in Columns} \cup (UNION {{p[c] : c \in Columns} : p \in Patches} \ {None})

ASSUME PortfolioAssumption ==
    /\ Patches \subseteq [Columns -> Values \cup {None}]
    /\ NewRow \in [Columns -> Values]
    /\ None \notin Patches /\ None # Gone /\ None \notin Nat /\ None \notin BOOLEAN

VARIABLES
    portfolios,    \* table portfolios: per user how many there are
    holding,       \* table holdings: None before, Gone afterwards
    coin,          \* table coins: is_tracked of each row, None without one
    ask            \* what each request holds in memory

pvars == <<portfolios, holding, ask>>

IdleAsk == [pc |-> "idle", user |-> None, portfolio |-> None, coin |-> None,
            id |-> None, row |-> None, given |-> None]

Rows == {h \in Holdings : holding[h] \notin {None, Gone}}
Held == {holding[h].coin : h \in Rows}

AskStep(r, from, changes) ==
    /\ ask[r].pc = from
    /\ ask' = [ask EXCEPT ![r] = changes]
AskDone(r, from) == AskStep(r, from, IdleAsk)

\* mutant: registering does not create the portfolio
SignUp_bare(u) ==
    /\ portfolios[u] = None
    /\ portfolios' = [portfolios EXCEPT ![u] = 0]
    /\ UNCHANGED <<holding, ask, coin>>

\* register: the user and the default portfolio in one transaction
SignUp(u) ==
    /\ portfolios[u] = None
    /\ portfolios' = [portfolios EXCEPT ![u] = 1]
    /\ UNCHANGED <<holding, ask, coin>>

\* default_portfolio_id, the select; the oldest of several is number 1
FindPortfolio(r, u, c) ==
    /\ portfolios[u] # None
    /\ AskStep(r, "idle", [IdleAsk EXCEPT !.pc = "found", !.user = u, !.coin = c,
                              !.portfolio = IF portfolios[u] = 0 THEN None ELSE 1])
    /\ UNCHANGED <<portfolios, holding, coin>>

\* The rest of default_portfolio_id, which creates one if there was none, and the
\* look-up of the coin in add_holding
LookUpCoin(r) ==
    LET u   == ask[r].user
        new == portfolios[u] + 1
    IN  /\ portfolios' = IF ask[r].portfolio = None THEN [portfolios EXCEPT ![u] = new]
                         ELSE portfolios
        /\ AskStep(r, "found", IF coin[ask[r].coin] = None THEN IdleAsk
                ELSE [ask[r] EXCEPT !.pc = "adding",
                                    !.portfolio = IF @ = None THEN new ELSE @])
        /\ UNCHANGED <<holding, coin>>

\* uq(portfolio_id, coin_id)
Duplicate(r) ==
    \E h \in Rows : /\ holding[h].user = ask[r].user
                    /\ holding[h].portfolio = ask[r].portfolio
                    /\ holding[h].coin = ask[r].coin

\* add_holding: Conflict for the second row of a coin, else the row.  What is read
\* back for the answer may fail, and no longer changes anything.
AddHolding(r) ==
    /\ AskDone(r, "adding")
    /\ IF Duplicate(r) THEN UNCHANGED holding
       ELSE \E h \in Holdings :
              /\ holding[h] = None
              /\ holding' = [holding EXCEPT ![h] =
                    [user |-> ask[r].user, portfolio |-> ask[r].portfolio,
                     coin |-> ask[r].coin, columns |-> NewRow]]
    /\ UNCHANGED <<portfolios, coin>>

\* update_holding and delete_holding: _owned_holding, of a row of the user's own;
\* given is what PATCH carries, None for DELETE
LoadHolding(r, h, given) ==
    /\ h \in Rows
    /\ AskStep(r, "idle", [IdleAsk EXCEPT !.pc = IF given = None THEN "deleting" ELSE "patching",
                              !.id = h, !.row = holding[h].columns, !.given = given])
    /\ UNCHANGED <<portfolios, holding, coin>>

\* mutant: every column is written as it was read
Patched_whole(r) ==
    [c \in Columns |-> IF ask[r].given[c] # None THEN ask[r].given[c] ELSE ask[r].row[c]]

\* update_holding: the columns given, where they differ from what was read, are
\* written over what is there now
Patched(r) ==
    [c \in Columns |-> IF ask[r].given[c] \notin {None, ask[r].row[c]} THEN ask[r].given[c]
                       ELSE holding[ask[r].id].columns[c]]

\* An UPDATE that finds its row deleted fails the request (StaleDataError).
PatchHolding(r) ==
    /\ AskDone(r, "patching")
    /\ holding' = IF ask[r].id \in Rows
                  THEN [holding EXCEPT ![ask[r].id].columns = Patched(r)] ELSE holding
    /\ UNCHANGED <<portfolios, coin>>

DeleteHolding(r) ==
    /\ AskDone(r, "deleting")
    /\ holding' = [holding EXCEPT ![ask[r].id] = Gone]
    /\ UNCHANGED <<portfolios, coin>>

AskDies(r) ==
    /\ ask[r].pc # "idle"
    /\ ask' = [ask EXCEPT ![r] = IdleAsk]
    /\ UNCHANGED <<portfolios, holding, coin>>
-----------------------------------------------------------------------------
PortfolioInit ==
    /\ portfolios = [u \in Users |-> None]
    /\ holding = [h \in Holdings |-> None]
    /\ ask = [r \in Requests |-> IdleAsk]

PortfolioNext ==
    \/ \E u \in Users : SignUp(u)
    \/ \E r \in Requests :
        \/ \E u \in Users, c \in Coins : FindPortfolio(r, u, c)
        \/ LookUpCoin(r) \/ AddHolding(r)
        \/ \E h \in Holdings, given \in Patches \cup {None} : LoadHolding(r, h, given)
        \/ PatchHolding(r) \/ DeleteHolding(r) \/ AskDies(r)
-----------------------------------------------------------------------------
HoldingRow == [user : Users, portfolio : Nat, coin : Coins, columns : [Columns -> Values]]

PortfolioTypeOK ==
    /\ portfolios \in [Users -> Nat \cup {None}]
    /\ holding \in [Holdings -> HoldingRow \cup {None, Gone}]
    /\ ask \in [Requests -> [pc : {"idle", "found", "adding", "patching", "deleting"},
                             user : Users \cup {None}, portfolio : Nat \cup {None},
                             coin : Coins \cup {None}, id : Holdings \cup {None},
                             row : [Columns -> Values] \cup {None},
                             given : Patches \cup {None}]]

\* A user has one row per coin in all portfolios together, as the alert message
\* assumes (holding_line fails on two): first requests that overlap can not
\* create a portfolio each, because registration has done so.
OneHoldingPerCoin ==
    /\ PortfolioTypeOK
    /\ \A g, h \in Rows : (holding[g].user = holding[h].user /\ holding[g].coin = holding[h].coin)
            => g = h

\* An edit is not undone by another that named other columns: a column changes only
\* to what some request gave for it.
NoEditUndone ==
    [][\A h \in Rows \cap Rows' : \A c \in Columns :
        holding'[h].columns[c] # holding[h].columns[c] =>
            \E r \in Requests : /\ ask[r].pc = "patching" /\ ask[r].id = h
                                /\ ask[r].given[c] = holding'[h].columns[c]]_holding
=============================================================================
