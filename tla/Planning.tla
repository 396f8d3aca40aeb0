------------------------------ MODULE Planning ------------------------------
(***************************************************************************)
(* Accounts, the settings' default account, trade plans and the promotion  *)
(* of watchlist items.                                                     *)
(*                                                                         *)
(*   src/app/api/accounts            drafts, PUT, close, DELETE            *)
(*   src/lib/account-lifecycle.ts    which trades stand in the way         *)
(*   src/app/api/trades/route.ts     POST: plan a trade                    *)
(*   src/app/api/watchlist           items and their promotion             *)
(*                                                                         *)
(* A handler reaches its first statement with its input read and runs from *)
(* there to the end without giving way, so a handler is one step; a crash  *)
(* can still fall between two statements that share no transaction, and    *)
(* leaves the first one done.                                              *)
(*                                                                         *)
(* An account is a number, in order of creation.  Limit stands for 9999,   *)
(* the last number of a trade code with four digits.                       *)
(***************************************************************************)
EXTENDS Naturals, FiniteSets, FiniteSetsExt, Sequences

CONSTANTS Accounts, Items, Limit,
          MaxTrades,   \* bounds the trades planned
          MaxCrashes   \* bounds the crashes of either kind

ASSUME AccountsAssumption == Accounts \subseteq Nat \ {0} /\ IsFiniteSet(Accounts)
ASSUME LimitAssumption == Limit \in Nat \ {0}
ASSUME BoundsAssumption == MaxTrades \in Nat /\ MaxCrashes \in Nat

VARIABLES
  accounts,  \* account -> its row
  default,   \* settings.default_account_id, NoAccount when null
  trades,    \* the rows of trades, in order of insertion
  items,     \* watchlist item -> its row
  stale,     \* history: accounts a crash left the default as they went inactive
  crashes    \* the crashes inside a promotion so far

vars == <<accounts, default, trades, items, stale, crashes>>

NoAccount == 0
NoTrade == 0

Existing == {a \in Accounts : accounts[a].exists}
TradesOf(a) == {t \in DOMAIN trades : trades[t].account = a}

-----------------------------------------------------------------------------
(* Eligibility *)

\* is_active and a supported currency: the test for a default and for a plan
Eligible(a) == a \in Existing /\ accounts[a].active /\ accounts[a].usd

\* account-lifecycle.ts: everything that is not closed counts as open.
Closed(t) == trades[t].status = "closed"

MaySwitch(a) == \A t \in TradesOf(a) : Closed(t)

-----------------------------------------------------------------------------
(* Accounts *)

Absent == [exists |-> FALSE, active |-> FALSE, usd |-> TRUE, events |-> FALSE]

CreateAccount(a) ==
  /\ \A b \in Existing : b < a
  /\ accounts' = [accounts EXCEPT ![a] = [Absent EXCEPT !.exists = TRUE]]
  /\ UNCHANGED <<default, trades, items, stale, crashes>>

\* initializeAccount on a pristine draft, with an opening balance or with none
InitializeAccount(a) ==
  /\ a \in Existing
  /\ accounts[a].usd /\ ~accounts[a].active /\ ~accounts[a].events
  /\ TradesOf(a) = {}
  /\ \E opening \in BOOLEAN :
       accounts' = [accounts EXCEPT ![a].active = TRUE, ![a].events = opening]
  /\ UNCHANGED <<default, trades, items, stale, crashes>>

\* A deposit on an active account: cash to trade with
PostDeposit(a) ==
  /\ Eligible(a)
  /\ accounts' = [accounts EXCEPT ![a].events = TRUE]
  /\ UNCHANGED <<default, trades, items, stale, crashes>>

\* PUT isActive: true, which also activates a draft
Activate(a) ==
  /\ a \in Existing
  /\ MaySwitch(a)
  /\ accounts' = [accounts EXCEPT ![a].active = TRUE]
  /\ UNCHANGED <<default, trades, items, stale, crashes>>

\* Mutation of Cleared: the settings are left alone.
ClearedNever(a) == default

\* The default account after account a went inactive
Cleared(a) == IF default = a THEN NoAccount ELSE default

\* The crash that leaves account a the default
Left(a) ==
  /\ default = a
  /\ Cardinality(stale) < MaxCrashes
  /\ stale' = stale \cup {a}

\* PUT isActive: false and close: deactivate, then clear the default account,
\* unless the process dies between the two statements.
Deactivate(a) ==
  /\ a \in Existing
  /\ MaySwitch(a)
  /\ accounts' = [accounts EXCEPT ![a].active = FALSE]
  /\ \/ default' = Cleared(a) /\ UNCHANGED stale
     \/ Left(a) /\ UNCHANGED default
  /\ UNCHANGED <<trades, items, crashes>>

\* Close is PUT isActive: false for an account that is active.
CloseAccount(a) == accounts[a].active /\ Deactivate(a)

\* Events and the settings refer to the account by a foreign key.
DeleteAccount(a) ==
  /\ a \in Existing
  /\ TradesOf(a) = {} /\ ~accounts[a].events /\ default # a
  /\ accounts' = [accounts EXCEPT ![a] = Absent]
  /\ UNCHANGED <<default, trades, items, stale, crashes>>

ChooseDefault(a) ==
  /\ a = NoAccount \/ Eligible(a)
  /\ default' = a
  /\ UNCHANGED <<accounts, trades, items, stale, crashes>>

-----------------------------------------------------------------------------
(* Plans *)

Codes == {trades[t].code : t \in DOMAIN trades}

\* MAX(trade_code) compares text: "T-9999" is above "T-10000".
HighestCode == IF Limit \in Codes THEN Limit ELSE Max(Codes \cup {0})

\* The number each of the two routes gives the next trade
PlannedCode == HighestCode + 1
PromotedCode == Len(trades) + 1

UsableDefault == default # NoAccount /\ Eligible(default)

First(as) == IF as = {} THEN NoAccount ELSE Min(as)

\* The account of a plan that names none
AutomaticAccount ==
  IF UsableDefault THEN default ELSE First({a \in Accounts : Eligible(a)})

\* The account of a promoted item: the default as it is, else any active one
PromotionAccount ==
  IF default # NoAccount THEN default ELSE First({a \in Existing : accounts[a].active})

Plan(a, code, item) ==
  [account |-> a, code |-> code, item |-> item, status |-> "planned"]

\* A unique constraint on the code refuses the same code on every attempt.
Insert(row) ==
  /\ Len(trades) < MaxTrades
  /\ row.code \notin Codes
  /\ trades' = Append(trades, row)

PlanTrade ==
  /\ \E a \in Accounts \cup {AutomaticAccount} :
       /\ Eligible(a)
       /\ Insert(Plan(a, PlannedCode, {}))
  /\ UNCHANGED <<accounts, default, items, stale, crashes>>

\* Mutation of Scratched: the row is deleted.
ScratchedForGood(t) == SubSeq(trades, 1, t - 1) \o SubSeq(trades, t + 1, Len(trades))

\* The row stays, and with it its code and the item's pointer to it.
Scratched(t) == [trades EXCEPT ![t].status = "deleted"]

ScratchTrade(t) ==
  /\ trades[t].status = "planned"
  /\ trades' = Scratched(t)
  /\ UNCHANGED <<accounts, default, items, stale, crashes>>

\* Fills need an active account with cash; a correction of a closed trade's
\* fills needs neither, and may leave it open again.
Fill(t) ==
  LET a == trades[t].account IN
  /\ Eligible(a) /\ accounts[a].events
  /\ \/ /\ trades[t].status = "planned"
        /\ trades' = [trades EXCEPT ![t].status = "open"]
     \/ /\ trades[t].status = "open"
        /\ trades' = [trades EXCEPT ![t].status = "closed"]
  /\ UNCHANGED <<accounts, default, items, stale, crashes>>

CorrectFill(t) ==
  /\ Closed(t)
  /\ trades' = [trades EXCEPT ![t].status = "open"]
  /\ UNCHANGED <<accounts, default, items, stale, crashes>>

-----------------------------------------------------------------------------
(* Watchlist *)

Statuses == {"pending", "triggered", "expired"}
NoItem == [status |-> "absent", promoted |-> NoTrade]

AddItem(i) ==
  /\ items[i].status = "absent"
  /\ items' = [items EXCEPT ![i].status = "pending"]
  /\ UNCHANGED <<accounts, default, trades, stale, crashes>>

\* PUT gives an item any status; DELETE the status expired.
SetItemStatus(i) ==
  /\ items[i].status # "absent"
  /\ \E s \in Statuses : items' = [items EXCEPT ![i].status = s]
  /\ UNCHANGED <<accounts, default, trades, stale, crashes>>

\* Mutation of MayPromote: the status decides, not the pointer to the trade.
MayPromotePending(i) == items[i].status = "pending"

MayPromote(i) == items[i].status # "absent" /\ items[i].promoted = NoTrade

\* Insert the trade, then point the item at it, unless the process dies between.
\* SQLite numbers rows in order of insertion, which is order of creation here.
Promote(i) ==
  /\ MayPromote(i)
  /\ PromotionAccount # NoAccount
  /\ Insert(Plan(PromotionAccount, PromotedCode, {i}))
  /\ \/ /\ items' = [items EXCEPT ![i] = [status |-> "triggered", promoted |-> Len(trades) + 1]]
        /\ UNCHANGED crashes
     \/ crashes < MaxCrashes /\ crashes' = crashes + 1 /\ UNCHANGED items
  /\ UNCHANGED <<accounts, default, stale>>

-----------------------------------------------------------------------------
\* The accounts may include one of the time before the USD-only contract.
Init ==
  /\ \E legacy \in SUBSET Accounts :
       /\ Cardinality(legacy) <= 1
       /\ accounts = [a \in Accounts |->
            IF a \in legacy
            THEN [exists |-> TRUE, active |-> TRUE, usd |-> FALSE, events |-> TRUE]
            ELSE Absent]
  /\ default = NoAccount
  /\ trades = << >>
  /\ items = [i \in Items |-> NoItem]
  /\ stale = {}
  /\ crashes = 0

Next ==
  \/ \E a \in Accounts :
       CreateAccount(a) \/ InitializeAccount(a) \/ PostDeposit(a) \/ Activate(a)
       \/ Deactivate(a) \/ CloseAccount(a) \/ DeleteAccount(a)
  \/ \E a \in Accounts \cup {NoAccount} : ChooseDefault(a)
  \/ PlanTrade
  \/ \E t \in DOMAIN trades : ScratchTrade(t) \/ Fill(t) \/ CorrectFill(t)
  \/ \E i \in Items : AddItem(i) \/ SetItemStatus(i) \/ Promote(i)

Spec == Init /\ [][Next]_vars

-----------------------------------------------------------------------------
(* Properties *)

\* The shape of the state; an item points at a trade that was made for it.
TypeOK ==
  /\ accounts \in [Accounts -> [exists : BOOLEAN, active : BOOLEAN, usd : BOOLEAN, events : BOOLEAN]]
  /\ default \in Existing \cup {NoAccount}
  /\ trades \in Seq([account : Accounts, code : Nat \ {0}, item : SUBSET Items,
                     status : {"planned", "open", "closed", "deleted"}])
  /\ items \in [Items -> [status : Statuses \cup {"absent"}, promoted : DOMAIN trades \cup {NoTrade}]]
  /\ \A i \in Items : items[i].promoted # NoTrade => trades[items[i].promoted].item = {i}
  /\ stale \subseteq Accounts
  /\ crashes \in 0 .. MaxCrashes

\* The settings point at an account that may be chosen, or at one a crash left there.
DefaultStaysEligible ==
  default # NoAccount => Eligible(default) \/ default \in stale

\* A plan waits on an active account: deactivation asks for closed trades and clears
\* the default, planning checks the account.  Only a promotion, which takes the default
\* as it finds it, puts one on an inactive account, and only on one whose deactivation
\* a crash cut short (accounts/[id]/route.ts D6, promote/route.ts step 3).
PlansAreOnActiveAccounts ==
  \A t \in DOMAIN trades : trades[t].status = "planned" =>
    LET a == trades[t].account IN
    accounts[a].active \/ (a \in stale /\ trades[t].item # {})

\* Planning numbers a trade after the highest code and promotion after the
\* number of rows; while the codes have four digits the two agree on a free code.
RoutesAgreeOnTheNextCode ==
  Len(trades) <= Limit => PlannedCode = PromotedCode /\ PlannedCode \notin Codes

\* An item becomes a trade at most once, and once more for each crash that fell
\* between the two statements of a promotion; changing the item's status or
\* scratching the trade does not make it promotable again.
PromotedOnce ==
  \A i \in Items : Cardinality({t \in DOMAIN trades : trades[t].item = {i}}) <= 1 + crashes

\* An active account whose every trade is closed or scratched can be closed, as
\* the refusal promises: "Close or cancel all open positions before closing the
\* account."
CancelledPlansDoNotBlockClosing ==
  \A a \in Existing :
    (\A t \in TradesOf(a) : trades[t].status \in {"closed", "deleted"}) => MaySwitch(a)
=============================================================================
