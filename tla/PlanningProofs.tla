---------------------------- MODULE PlanningProofs ----------------------------
(***************************************************************************)
(* Default account, trade codes and promotions, for any accounts, items,   *)
(* last code of four digits, and number of trades and crashes.             *)
(***************************************************************************)
EXTENDS Planning, TableLemmas

-----------------------------------------------------------------------------
(* Least and greatest elements *)

\* The least element of a nonempty set of numbers is Min.
LEMMA MinOfNumbers ==
  ASSUME NEW S \in SUBSET Nat, S # {}
  PROVE  Min(S) \in S
BY LeastNumber DEF Min

\* The greatest number of 0 .. n is n.
LEMMA MaxOfInterval ==
  ASSUME NEW n \in Nat
  PROVE  Max(0 .. n) = n
<1>1. n \in 0 .. n /\ \A y \in 0 .. n : n >= y  OBVIOUS
<1>2. \A x \in 0 .. n : (\A y \in 0 .. n : x >= y) => x = n  BY <1>1
<1> QED  BY <1>1, <1>2 DEF Max

-----------------------------------------------------------------------------
(* The inductive invariant *)

\* A trade's code is its number, as far as codes have four digits.
CodesCountTheRows == \A t \in DOMAIN trades : t <= Limit => trades[t].code = t

MadeFor(i) == {t \in DOMAIN trades : trades[t].item = {i}}

\* The trades made for an item: the one it points at, and one for each crash.
PromotionsAreCounted ==
  \A i \in Items :
    Cardinality(MadeFor(i)) <= crashes + (IF items[i].promoted = NoTrade THEN 0 ELSE 1)

TradesHaveAccounts == \A t \in DOMAIN trades : trades[t].account \in Existing

IInv ==
  /\ TypeOK
  /\ DefaultStaysEligible
  /\ TradesHaveAccounts
  /\ PlansAreOnActiveAccounts
  /\ CodesCountTheRows
  /\ PromotionsAreCounted

AccountRows == [exists : BOOLEAN, active : BOOLEAN, usd : BOOLEAN, events : BOOLEAN]
TradeRows == [account : Accounts, code : Nat \ {0}, item : SUBSET Items,
              status : {"planned", "open", "closed", "deleted"}]
ItemRows == [status : Statuses \cup {"absent"}, promoted : DOMAIN trades \cup {NoTrade}]

\* A fresh database satisfies the invariant.
LEMMA InitHolds == Init => IInv
<1> SUFFICES ASSUME Init PROVE IInv  OBVIOUS
<1> USE DEF Init, NoAccount, NoTrade, NoItem, Absent
<1>1. TypeOK
  <2>1. trades \in Seq(TradeRows) /\ DOMAIN trades = {}  OBVIOUS
  <2>2. accounts \in [Accounts -> AccountRows]  BY DEF AccountRows
  <2>3. items \in [Items -> ItemRows]  BY DEF ItemRows
  <2>4. crashes \in 0 .. MaxCrashes /\ stale \subseteq Accounts  BY BoundsAssumption
  <2> QED  BY <2>1, <2>2, <2>3, <2>4 DEF TypeOK, TradeRows, AccountRows, ItemRows
<1>2. DefaultStaysEligible /\ TradesHaveAccounts /\ PlansAreOnActiveAccounts
  BY DEF DefaultStaysEligible, TradesHaveAccounts, PlansAreOnActiveAccounts
<1>3. CodesCountTheRows  BY DEF CodesCountTheRows
<1>4. PromotionsAreCounted
  <2>1. \A i \in Items : MadeFor(i) = {}  BY DEF MadeFor
  <2>2. \A i \in Items : Cardinality(MadeFor(i)) = 0  BY <2>1, FS_EmptySet
  <2> QED  BY <2>2 DEF PromotionsAreCounted
<1> QED  BY <1>1, <1>2, <1>3, <1>4 DEF IInv

-----------------------------------------------------------------------------
(* Inserting a trade *)

\* The next code of either route, while codes have four digits.
LEMMA NextCode ==
  ASSUME TypeOK, CodesCountTheRows, Len(trades) <= Limit
  PROVE  PlannedCode = Len(trades) + 1 /\ PlannedCode \notin Codes
<1> DEFINE n == Len(trades)
<1>1. n \in Nat /\ n <= Limit /\ DOMAIN trades = 1 .. n
  BY LenProperties DEF TypeOK
<1> HIDE DEF n
<1>2. Codes = 1 .. n
  BY <1>1, LimitAssumption DEF Codes, CodesCountTheRows
<1>3. HighestCode = n
  <2>1. CASE Limit \in Codes
    <3>1. Limit = n  BY <1>1, <1>2, <2>1, LimitAssumption
    <3> QED  BY <2>1, <3>1 DEF HighestCode
  <2>2. CASE Limit \notin Codes
    <3>1. Codes \cup {0} = 0 .. n  BY <1>1, <1>2
    <3>2. Max(Codes \cup {0}) = n  BY <1>1, <3>1, MaxOfInterval
    <3> QED  BY <2>2, <3>2 DEF HighestCode
  <2> QED  BY <2>1, <2>2
<1> QED  BY <1>1, <1>2, <1>3 DEF PlannedCode, n

\* What both routes do when they insert a trade.
LEMMA Inserted ==
  ASSUME TypeOK, CodesCountTheRows,
         NEW a \in Accounts, NEW code \in {PlannedCode, PromotedCode}, NEW item \in SUBSET Items,
         Insert(Plan(a, code, item))
  PROVE  /\ trades' \in Seq(TradeRows)
         /\ DOMAIN trades' = DOMAIN trades \cup {Len(trades) + 1}
         /\ Len(trades) + 1 \notin DOMAIN trades
         /\ \A t \in DOMAIN trades : trades'[t] = trades[t]
         /\ trades'[Len(trades) + 1].item = item
         /\ trades'[Len(trades) + 1].account = a
         /\ CodesCountTheRows'
<1> DEFINE n == Len(trades)  row == Plan(a, code, item)
<1>1. trades \in Seq(TradeRows)  BY DEF TypeOK, TradeRows
<1>2. n \in Nat /\ DOMAIN trades = 1 .. n  BY <1>1, LenProperties
<1>3. code \in Nat \ {0}
  <2>1. PromotedCode \in Nat \ {0}  BY <1>2 DEF PromotedCode
  <2>2. CASE n <= Limit  BY <1>2, <2>1, <2>2, NextCode
  <2>3. CASE n > Limit
    <3>1. Limit \in Codes
      BY <1>2, <2>3, LimitAssumption DEF Codes, CodesCountTheRows
    <3> QED  BY <2>1, <3>1, LimitAssumption DEF PlannedCode, HighestCode
  <2> QED  BY <1>2, <2>2, <2>3, LimitAssumption
<1>4. row \in TradeRows  BY <1>3 DEF Plan, TradeRows
<1>5. trades' = Append(trades, row)  BY DEF Insert
<1>6. /\ trades' \in Seq(TradeRows) /\ Len(trades') = n + 1
      /\ \A t \in 1 .. n : trades'[t] = trades[t]
      /\ trades'[n + 1] = row
  <2> HIDE DEF row
  <2> QED  BY <1>1, <1>4, <1>5, AppendProperties, LenProperties
<1>7. DOMAIN trades' = 1 .. n + 1  BY <1>2, <1>6, LenProperties
<1>8. n + 1 <= Limit => code = n + 1
  BY <1>2, NextCode, LimitAssumption DEF PromotedCode
<1>9. CodesCountTheRows'
  <2>1. row.code = code  BY DEF Plan
  <2> QED  BY <1>2, <1>6, <1>7, <1>8, <2>1 DEF CodesCountTheRows
<1> QED  BY <1>2, <1>6, <1>7, <1>9 DEF Plan

\* The automatic and the promoted item's account are accounts.
LEMMA FirstIsOne ==
  ASSUME NEW S \in SUBSET Accounts, S # {}
  PROVE  First(S) \in S
BY MinOfNumbers, AccountsAssumption DEF First

-----------------------------------------------------------------------------
(* Types *)

\* A step of the accounts is well typed if the default it leaves exists.
LEMMA AccountsTyped ==
  ASSUME TypeOK, UNCHANGED <<trades, items, crashes>>, stale' \subseteq Accounts,
         accounts' \in [Accounts -> AccountRows], default' \in Existing' \cup {NoAccount}
  PROVE  TypeOK'
BY DEF TypeOK, AccountRows

\* A step of the trades is well typed if no trade changes its item.
LEMMA TradesTyped ==
  ASSUME TypeOK, UNCHANGED <<accounts, default, items, stale, crashes>>,
         trades' \in Seq(TradeRows), DOMAIN trades \subseteq DOMAIN trades',
         \A t \in DOMAIN trades : trades'[t].item = trades[t].item
  PROVE  TypeOK'
BY DEF TypeOK, TradeRows, Existing

\* A status that changes leaves the rest of the row.
LEMMA StatusChanged ==
  ASSUME TypeOK, NEW t \in DOMAIN trades, NEW s \in {"planned", "open", "closed", "deleted"},
         trades' = [trades EXCEPT ![t].status = s]
  PROVE  /\ trades' \in Seq(TradeRows)
         /\ DOMAIN trades' = DOMAIN trades
         /\ \A u \in DOMAIN trades : /\ trades'[u].item = trades[u].item
                                     /\ trades'[u].code = trades[u].code
                                     /\ trades'[u].account = trades[u].account
                                     /\ trades'[u].status \in {trades[u].status, s}
<1>1. trades \in Seq(TradeRows)  BY DEF TypeOK, TradeRows
<1>2. trades \in [DOMAIN trades -> TradeRows] /\ DOMAIN trades = 1 .. Len(trades)
  BY <1>1, LenProperties
<1>3. [trades[t] EXCEPT !.status = s] \in TradeRows  BY <1>2 DEF TradeRows
<1>4. trades' = [trades EXCEPT ![t] = [trades[t] EXCEPT !.status = s]]  BY <1>2
<1>5. trades' \in Seq(TradeRows)
  BY <1>1, <1>2, <1>3, <1>4, ExceptSeq
<1>6. ASSUME NEW u \in DOMAIN trades
      PROVE  /\ trades'[u].item = trades[u].item
             /\ trades'[u].code = trades[u].code
             /\ trades'[u].account = trades[u].account
             /\ trades'[u].status \in {trades[u].status, s}
  BY <1>2, <1>4 DEF TradeRows
<1> QED  BY <1>2, <1>4, <1>5, <1>6

\* One account row that changes leaves the others alone.
LEMMA RowChanged ==
  ASSUME accounts \in [Accounts -> AccountRows], NEW a \in Accounts, NEW row \in AccountRows,
         accounts' = [accounts EXCEPT ![a] = row]
  PROVE  /\ accounts' \in [Accounts -> AccountRows]
         /\ Existing' = IF row.exists THEN Existing \cup {a} ELSE Existing \ {a}
         /\ \A b \in Accounts \ {a} : Eligible(b)' <=> Eligible(b)
         /\ Eligible(a)' <=> row.exists /\ row.active /\ row.usd
<1>1. accounts'[a] = row /\ \A b \in Accounts \ {a} : accounts'[b] = accounts[b]
  OBVIOUS
<1> QED  BY <1>1 DEF Existing, Eligible

\* The accounts of trades stay, and those of plans stay active.
PlansKept ==
  \A t \in DOMAIN trades :
    /\ trades[t].account \in Existing'
    /\ trades[t].status = "planned" /\ accounts[trades[t].account].active =>
         accounts'[trades[t].account].active

\* A row that account a may get, given its trades.
Suits(a, row) ==
  \A t \in TradesOf(a) :
    row.exists /\ (trades[t].status = "planned" /\ accounts[a].active => row.active)

\* One such row leaves all trades their accounts.
LEMMA RowSuits ==
  ASSUME TradesHaveAccounts, accounts \in [Accounts -> AccountRows],
         NEW a \in Accounts, NEW row \in AccountRows,
         accounts' = [accounts EXCEPT ![a] = row], Suits(a, row)
  PROVE  PlansKept
<1> SUFFICES ASSUME NEW t \in DOMAIN trades
             PROVE  /\ trades[t].account \in Existing'
                    /\ trades[t].status = "planned" /\ accounts[trades[t].account].active =>
                         accounts'[trades[t].account].active
  BY DEF PlansKept
<1>1. accounts'[a] = row /\ \A b \in Accounts \ {a} : accounts'[b] = accounts[b]
  OBVIOUS
<1>2. trades[t].account \in Existing  BY DEF TradesHaveAccounts
<1>3. CASE trades[t].account = a
  BY <1>1, <1>3 DEF Suits, TradesOf, Existing
<1>4. CASE trades[t].account # a
  BY <1>1, <1>2, <1>4 DEF Existing
<1> QED  BY <1>3, <1>4

\* What an action on account rows keeps.
AccountsAction ==
  /\ accounts' \in [Accounts -> AccountRows]
  /\ default' \in Existing' \cup {NoAccount}
  /\ stale \subseteq stale' /\ stale' \subseteq Accounts
  /\ DefaultStaysEligible'
  /\ PlansKept

\* Every step of the accounts leaves a default that exists and is eligible, or stale,
\* and plans on accounts as active as before.
LEMMA AccountSteps ==
  ASSUME TypeOK, DefaultStaysEligible, TradesHaveAccounts,
         \/ \E a \in Accounts :
              \/ CreateAccount(a) \/ InitializeAccount(a) \/ PostDeposit(a) \/ Activate(a)
              \/ Deactivate(a) \/ CloseAccount(a) \/ DeleteAccount(a)
         \/ \E a \in Accounts \cup {NoAccount} : ChooseDefault(a)
  PROVE  AccountsAction
<1>1. /\ accounts \in [Accounts -> AccountRows] /\ default \in Existing \cup {NoAccount}
      /\ stale \subseteq Accounts
  BY DEF TypeOK, AccountRows
<1>2. default # NoAccount => Eligible(default) \/ default \in stale
  BY DEF DefaultStaysEligible
<1>3. \A b \in Accounts : b # NoAccount  BY AccountsAssumption DEF NoAccount
<1>4. Existing \subseteq Accounts  BY DEF Existing
<1>5. ASSUME NEW a \in Accounts, CreateAccount(a) PROVE AccountsAction
  <2> DEFINE row == [Absent EXCEPT !.exists = TRUE]
  <2>1. row \in AccountRows /\ row.exists  BY DEF Absent, AccountRows
  <2>2. a \notin Existing  BY <1>4, <1>5, AccountsAssumption DEF CreateAccount
  <2>3. accounts' = [accounts EXCEPT ![a] = row] /\ UNCHANGED <<default, stale>>
    BY <1>5 DEF CreateAccount
  <2>4. Suits(a, row)  BY <2>2 DEF Suits, TradesOf, TradesHaveAccounts
  <2> HIDE DEF row
  <2>5. PlansKept  BY <1>1, <2>1, <2>3, <2>4, RowSuits
  <2> QED  BY <1>1, <1>2, <1>4, <2>1, <2>2, <2>3, <2>5, RowChanged
           DEF AccountsAction, DefaultStaysEligible
<1>6. ASSUME NEW a \in Accounts,
             InitializeAccount(a) \/ PostDeposit(a) \/ Activate(a)
      PROVE  AccountsAction
  <2>1. PICK row \in AccountRows :
          /\ accounts' = [accounts EXCEPT ![a] = row]
          /\ row.exists /\ (Eligible(a) => row.active /\ row.usd)
          /\ (accounts[a].active => row.active)
    <3>1. CASE InitializeAccount(a)
      <4>1. PICK opening \in BOOLEAN :
              accounts' = [accounts EXCEPT ![a].active = TRUE, ![a].events = opening]
        BY <3>1 DEF InitializeAccount
      <4> DEFINE row == [accounts[a] EXCEPT !.active = TRUE, !.events = opening]
      <4>2. row \in AccountRows  BY <1>1 DEF AccountRows
      <4> QED  BY <1>1, <3>1, <4>1, <4>2 DEF InitializeAccount, Existing, Eligible, AccountRows
    <3>2. CASE PostDeposit(a)
      <4> DEFINE row == [accounts[a] EXCEPT !.events = TRUE]
      <4>1. row \in AccountRows  BY <1>1 DEF AccountRows
      <4> QED  BY <1>1, <3>2, <4>1 DEF PostDeposit, Existing, Eligible, AccountRows
    <3>3. CASE Activate(a)
      <4> DEFINE row == [accounts[a] EXCEPT !.active = TRUE]
      <4>1. row \in AccountRows  BY <1>1 DEF AccountRows
      <4> QED  BY <1>1, <3>3, <4>1 DEF Activate, Existing, Eligible, AccountRows
    <3> QED  BY <1>6, <3>1, <3>2, <3>3
  <2>2. UNCHANGED <<default, stale>>
    BY <1>6 DEF InitializeAccount, PostDeposit, Activate
  <2>3. PlansKept  BY <1>1, <2>1, RowSuits DEF Suits
  <2> QED  BY <1>1, <1>2, <1>4, <2>1, <2>2, <2>3, RowChanged
           DEF AccountsAction, DefaultStaysEligible
<1>7. ASSUME NEW a \in Accounts, Deactivate(a) PROVE AccountsAction
  <2> DEFINE row == [accounts[a] EXCEPT !.active = FALSE]
  <2>1. row \in AccountRows /\ row.exists /\ accounts' = [accounts EXCEPT ![a] = row]
    BY <1>1, <1>7 DEF Deactivate, Existing, AccountRows
  <2> HIDE DEF row
  <2>2. \A b \in Existing \ {a} : Eligible(b)' <=> Eligible(b)
    BY <1>1, <1>4, <2>1, RowChanged
  <2>3. Existing' = Existing \cup {a} /\ accounts' \in [Accounts -> AccountRows]
    BY <1>1, <2>1, RowChanged
  <2>4. PlansKept
    <3>1. Suits(a, row)  BY <1>7, <2>1 DEF Deactivate, MaySwitch, Closed, Suits
    <3> QED  BY <1>1, <2>1, <3>1, RowSuits
  <2>5. CASE default' = Cleared(a) /\ UNCHANGED stale
    BY <1>1, <1>2, <2>2, <2>3, <2>4, <2>5 DEF Cleared, AccountsAction, DefaultStaysEligible
  <2>6. CASE Left(a) /\ UNCHANGED default
    BY <1>1, <2>3, <2>4, <2>6 DEF Left, AccountsAction, DefaultStaysEligible
  <2> QED  BY <1>7, <2>5, <2>6 DEF Deactivate
<1>8. ASSUME NEW a \in Accounts, DeleteAccount(a) PROVE AccountsAction
  <2>1. Absent \in AccountRows /\ ~Absent.exists  BY DEF Absent, AccountRows
  <2>2. /\ default # a /\ TradesOf(a) = {} /\ UNCHANGED <<default, stale>>
        /\ accounts' = [accounts EXCEPT ![a] = Absent]
    BY <1>8 DEF DeleteAccount
  <2>3. PlansKept
    <3>1. Suits(a, Absent)  BY <2>2 DEF Suits
    <3> QED  BY <1>1, <2>1, <2>2, <3>1, RowSuits
  <2> QED  BY <1>1, <1>2, <1>4, <2>1, <2>2, <2>3, RowChanged
           DEF AccountsAction, DefaultStaysEligible
<1>9. ASSUME NEW a \in Accounts \cup {NoAccount}, ChooseDefault(a) PROVE AccountsAction
  <2>1. PlansKept  BY <1>9 DEF ChooseDefault, PlansKept, TradesHaveAccounts, Existing
  <2> QED  BY <1>1, <1>9, <2>1
           DEF ChooseDefault, AccountsAction, DefaultStaysEligible, Eligible, Existing
<1> QED  BY <1>5, <1>6, <1>7, <1>8, <1>9 DEF CloseAccount

-----------------------------------------------------------------------------
(* Every step *)

\* The trades made for an item can be counted.
LEMMA CountsAreNumbers ==
  ASSUME TypeOK, NEW i
  PROVE  IsFiniteSet(MadeFor(i)) /\ Cardinality(MadeFor(i)) \in Nat /\ crashes \in Nat
<1>1. DOMAIN trades = 1 .. Len(trades) /\ Len(trades) \in Nat
  BY LenProperties DEF TypeOK
<1>2. IsFiniteSet(DOMAIN trades)  BY <1>1, FS_Interval
<1>3. MadeFor(i) \in SUBSET DOMAIN trades  BY DEF MadeFor
<1> QED  BY <1>2, <1>3, FS_Subset, FS_CardinalityType, BoundsAssumption DEF TypeOK

AccountStep ==
  \/ \E a \in Accounts :
       \/ CreateAccount(a) \/ InitializeAccount(a) \/ PostDeposit(a) \/ Activate(a)
       \/ Deactivate(a) \/ CloseAccount(a) \/ DeleteAccount(a)
  \/ \E a \in Accounts \cup {NoAccount} : ChooseDefault(a)

\* The invariant over the routes of the accounts and their crashes.
LEMMA AccountStepKeeps == ASSUME IInv, AccountStep PROVE IInv'
<1>1. AccountsAction  BY AccountSteps DEF AccountStep, IInv
<1>2. UNCHANGED <<trades, items, crashes>>
  BY DEF AccountStep, CreateAccount, InitializeAccount, PostDeposit, Activate, Deactivate,
         CloseAccount, DeleteAccount, ChooseDefault
<1>3. TypeOK'  BY <1>1, <1>2, AccountsTyped DEF AccountsAction, IInv
<1>4. DefaultStaysEligible'  BY <1>1 DEF AccountsAction
<1>5. CodesCountTheRows'  BY <1>2 DEF IInv, CodesCountTheRows
<1>6. PromotionsAreCounted'
  <2> SUFFICES ASSUME NEW i \in Items
               PROVE  Cardinality(MadeFor(i))' <=
                        crashes' + (IF items'[i].promoted = NoTrade THEN 0 ELSE 1)
    BY DEF PromotionsAreCounted
  <2>1. MadeFor(i)' = MadeFor(i)  BY <1>2 DEF MadeFor
  <2> QED  BY <1>2, <2>1 DEF IInv, PromotionsAreCounted
<1>7. TradesHaveAccounts'  BY <1>1, <1>2 DEF AccountsAction, PlansKept, TradesHaveAccounts
<1>8. PlansAreOnActiveAccounts'
  BY <1>1, <1>2 DEF IInv, AccountsAction, PlansKept, PlansAreOnActiveAccounts
<1> QED  BY <1>3, <1>4, <1>5, <1>6, <1>7, <1>8 DEF IInv

\* The invariant over a trade that is planned.
LEMMA PlanKeeps == ASSUME IInv, PlanTrade PROVE IInv'
<1>1. PICK a \in Accounts : Eligible(a) /\ Insert(Plan(a, PlannedCode, {}))
  BY DEF PlanTrade, Eligible, Existing
<1>2. UNCHANGED <<accounts, default, items, stale, crashes>>  BY DEF PlanTrade
<1>3. /\ trades' \in Seq(TradeRows)
      /\ DOMAIN trades' = DOMAIN trades \cup {Len(trades) + 1}
      /\ \A t \in DOMAIN trades : trades'[t] = trades[t]
      /\ trades'[Len(trades) + 1].item = {}
      /\ trades'[Len(trades) + 1].account = a
      /\ CodesCountTheRows'
  <2> DEFINE item == {}
  <2>1. item \in SUBSET Items /\ TypeOK /\ CodesCountTheRows  BY DEF IInv
  <2>2. Insert(Plan(a, PlannedCode, item))  BY <1>1
  <2> HIDE DEF item
  <2>3. trades'[Len(trades) + 1].item = item
    BY <2>1, <2>2, Inserted
  <2> QED  BY <2>1, <2>2, <2>3, Inserted DEF item
<1>4. TypeOK'  BY <1>2, <1>3, TradesTyped DEF IInv
<1>5. DefaultStaysEligible'
  BY <1>2 DEF IInv, DefaultStaysEligible, Eligible, Existing
<1>6. \A i \in Items : MadeFor(i)' = MadeFor(i)  BY <1>3 DEF MadeFor
<1>7. PromotionsAreCounted'  BY <1>2, <1>6 DEF IInv, PromotionsAreCounted
<1>8. TradesHaveAccounts'
  BY <1>1, <1>2, <1>3 DEF IInv, TradesHaveAccounts, Eligible, Existing
<1>9. PlansAreOnActiveAccounts'
  BY <1>1, <1>2, <1>3 DEF IInv, PlansAreOnActiveAccounts, Eligible
<1> QED  BY <1>3, <1>4, <1>5, <1>7, <1>8, <1>9 DEF IInv

\* The invariant over what changes the status of a trade.
LEMMA StatusKeeps ==
  ASSUME IInv, NEW t \in DOMAIN trades, ScratchTrade(t) \/ Fill(t) \/ CorrectFill(t)
  PROVE  IInv'
<1>1. PICK s \in {"open", "closed", "deleted"} :
        trades' = [trades EXCEPT ![t].status = s]
  <2>1. CASE ScratchTrade(t)  BY <2>1 DEF ScratchTrade, Scratched
  <2>2. CASE Fill(t)
    <3>1. \/ trades' = [trades EXCEPT ![t].status = "open"]
          \/ trades' = [trades EXCEPT ![t].status = "closed"]
      BY <2>2 DEF Fill
    <3> QED  BY <3>1
  <2>3. CASE CorrectFill(t)  BY <2>3 DEF CorrectFill
  <2> QED  BY <2>1, <2>2, <2>3
<1>2. UNCHANGED <<accounts, default, items, stale, crashes>>
  BY DEF ScratchTrade, Fill, CorrectFill
<1>3. /\ trades' \in Seq(TradeRows)
      /\ DOMAIN trades' = DOMAIN trades
      /\ \A u \in DOMAIN trades : /\ trades'[u].item = trades[u].item
                                  /\ trades'[u].code = trades[u].code
                                  /\ trades'[u].account = trades[u].account
                                  /\ trades'[u].status \in {trades[u].status, s}
  BY <1>1, StatusChanged DEF IInv
<1>4. TypeOK'  BY <1>2, <1>3, TradesTyped DEF IInv
<1>5. DefaultStaysEligible'
  BY <1>2 DEF IInv, DefaultStaysEligible, Eligible, Existing
<1>6. CodesCountTheRows'  BY <1>3 DEF IInv, CodesCountTheRows
<1>7. \A i \in Items : MadeFor(i)' = MadeFor(i)  BY <1>3 DEF MadeFor
<1>8. PromotionsAreCounted'  BY <1>2, <1>7 DEF IInv, PromotionsAreCounted
<1>9. TradesHaveAccounts'  BY <1>2, <1>3 DEF IInv, TradesHaveAccounts, Existing
<1>10. PlansAreOnActiveAccounts'
  BY <1>1, <1>2, <1>3 DEF IInv, PlansAreOnActiveAccounts
<1> QED  BY <1>4, <1>5, <1>6, <1>8, <1>9, <1>10 DEF IInv

\* The invariant over an item that is added or gets a status.
LEMMA ItemKeeps ==
  ASSUME IInv, NEW i \in Items, AddItem(i) \/ SetItemStatus(i)
  PROVE  IInv'
<1>1. UNCHANGED <<accounts, default, trades, stale, crashes>>  BY DEF AddItem, SetItemStatus
<1>2. PICK s \in Statuses : items' = [items EXCEPT ![i].status = s]
  BY DEF AddItem, SetItemStatus, Statuses
<1>3. items \in [Items -> ItemRows]  BY DEF IInv, TypeOK, ItemRows
<1>4. items' \in [Items -> ItemRows] /\ \A j \in Items : items'[j].promoted = items[j].promoted
  BY <1>2, <1>3 DEF ItemRows
<1>5. TypeOK'
  BY <1>1, <1>4 DEF IInv, TypeOK, Existing, ItemRows
<1>6. DefaultStaysEligible'
  BY <1>1 DEF IInv, DefaultStaysEligible, Eligible, Existing
<1>7. \A j \in Items : MadeFor(j)' = MadeFor(j)  BY <1>1 DEF MadeFor
<1>8. PromotionsAreCounted'  BY <1>1, <1>4, <1>7 DEF IInv, PromotionsAreCounted
<1>9. TradesHaveAccounts' /\ PlansAreOnActiveAccounts'
  BY <1>1 DEF IInv, TradesHaveAccounts, PlansAreOnActiveAccounts, Existing
<1> QED  BY <1>1, <1>5, <1>6, <1>8, <1>9 DEF IInv, CodesCountTheRows

\* The invariant over the promotion of an item to a trade.
LEMMA PromoteKeeps == ASSUME IInv, NEW i \in Items, Promote(i) PROVE IInv'
<1> DEFINE n == Len(trades)  a == PromotionAccount
<1>1. a \in Existing /\ (accounts[a].active \/ a \in stale)
  <2>1. default \in Existing \cup {NoAccount}  BY DEF IInv, TypeOK
  <2>2. a # NoAccount  BY DEF Promote
  <2>3. CASE default # NoAccount
    BY <2>1, <2>3 DEF PromotionAccount, IInv, DefaultStaysEligible, Eligible
  <2>4. CASE default = NoAccount
    <3> DEFINE active == {b \in Existing : accounts[b].active}
    <3>1. a = First(active)  BY <2>4 DEF PromotionAccount
    <3>2. active \in SUBSET Accounts /\ active # {}  BY <2>2, <3>1 DEF Existing, First
    <3>3. \A b \in active : b \in Existing /\ accounts[b].active  OBVIOUS
    <3> HIDE DEF active
    <3> QED  BY <3>1, <3>2, <3>3, FirstIsOne
  <2> QED  BY <2>3, <2>4
<1>2. Insert(Plan(a, PromotedCode, {i})) /\ UNCHANGED <<accounts, default, stale>>
  BY DEF Promote
<1> HIDE DEF a
<1>3. /\ trades' \in Seq(TradeRows)
      /\ DOMAIN trades' = DOMAIN trades \cup {n + 1} /\ n + 1 \notin DOMAIN trades
      /\ \A t \in DOMAIN trades : trades'[t] = trades[t]
      /\ trades'[n + 1].item = {i}
      /\ trades'[n + 1].account = a
      /\ CodesCountTheRows'
  <2> DEFINE item == {i}
  <2>4. a \in Accounts  BY <1>1 DEF Existing
  <2>1. item \in SUBSET Items /\ TypeOK /\ CodesCountTheRows  BY DEF IInv
  <2>2. Insert(Plan(a, PromotedCode, item))  BY <1>2
  <2> HIDE DEF item
  <2>3. trades'[n + 1].item = item  BY <2>1, <2>2, <2>4, Inserted
  <2> QED  BY <2>1, <2>2, <2>3, <2>4, Inserted DEF item
<1>4. n \in Nat /\ crashes \in Nat /\ crashes <= MaxCrashes
  BY LenProperties, BoundsAssumption DEF IInv, TypeOK
<1>5. \/ /\ items' = [items EXCEPT ![i] = [status |-> "triggered", promoted |-> n + 1]]
         /\ UNCHANGED crashes
      \/ crashes < MaxCrashes /\ crashes' = crashes + 1 /\ UNCHANGED items
  BY DEF Promote
<1>6. items \in [Items -> ItemRows] /\ items[i].promoted = NoTrade
  BY DEF IInv, TypeOK, ItemRows, Promote, MayPromote
<1>7. TypeOK'
  <2>1. /\ accounts' \in [Accounts -> AccountRows] /\ default' \in Existing' \cup {NoAccount}
        /\ crashes' \in 0 .. MaxCrashes /\ stale' \subseteq Accounts
    BY <1>2, <1>4, <1>5, BoundsAssumption DEF IInv, TypeOK, Existing, AccountRows
  <2>2. items' \in [Items -> ItemRows']
    BY <1>3, <1>5, <1>6 DEF ItemRows, Statuses, NoTrade
  <2>3. \A j \in Items : items'[j].promoted # NoTrade => trades'[items'[j].promoted].item = {j}
    BY <1>3, <1>5, <1>6 DEF IInv, TypeOK
  <2> QED  BY <1>3, <2>1, <2>2, <2>3 DEF TypeOK, TradeRows, AccountRows, ItemRows
<1>8. DefaultStaysEligible'
  BY <1>2, <1>4, <1>5 DEF IInv, DefaultStaysEligible, Eligible, Existing
<1>9. PromotionsAreCounted'
  <2> SUFFICES ASSUME NEW j \in Items
               PROVE  Cardinality(MadeFor(j))' <=
                        crashes' + (IF items'[j].promoted = NoTrade THEN 0 ELSE 1)
    BY DEF PromotionsAreCounted
  <2>1. IsFiniteSet(MadeFor(j)) /\ Cardinality(MadeFor(j)) \in Nat
    BY CountsAreNumbers DEF IInv
  <2>2. Cardinality(MadeFor(j)) <= crashes + (IF items[j].promoted = NoTrade THEN 0 ELSE 1)
    BY DEF IInv, PromotionsAreCounted
  <2>3. CASE j # i
    <3>1. MadeFor(j)' = MadeFor(j)  BY <1>3, <2>3 DEF MadeFor
    <3>2. items'[j] = items[j]  BY <1>5, <1>6, <2>3
    <3> QED  BY <1>4, <1>5, <2>1, <2>2, <3>1, <3>2
  <2>4. CASE j = i
    <3>1. MadeFor(j)' = MadeFor(j) \cup {n + 1} /\ n + 1 \notin MadeFor(j)
      BY <1>3, <2>4 DEF MadeFor
    <3>2. Cardinality(MadeFor(j))' = Cardinality(MadeFor(j)) + 1
      BY <2>1, <3>1, FS_AddElement
    <3>3. crashes' = crashes => items'[j].promoted # NoTrade
      BY <1>4, <1>5, <1>6, <2>4 DEF NoTrade
    <3>4. Cardinality(MadeFor(j)) <= crashes  BY <1>4, <1>6, <2>1, <2>2, <2>4
    <3> QED  BY <1>4, <1>5, <2>1, <3>2, <3>3, <3>4
  <2> QED  BY <2>3, <2>4
<1>10. TradesHaveAccounts'  BY <1>1, <1>2, <1>3 DEF IInv, TradesHaveAccounts, Existing
<1>11. PlansAreOnActiveAccounts'
  BY <1>1, <1>2, <1>3 DEF IInv, PlansAreOnActiveAccounts
<1> QED  BY <1>3, <1>7, <1>8, <1>9, <1>10, <1>11 DEF IInv

\* The inductive invariant: rows are typed, the default is eligible or was left by a
\* crash, trades have accounts and plans active ones (but for the promotions into such a
\* default), codes count the rows, and so many trades were made for an item.
THEOREM IInvHolds == Spec => []IInv
<1>1. Init => IInv  BY InitHolds
<1>2. ASSUME IInv, Next PROVE IInv'
  BY <1>2, AccountStepKeeps, PlanKeeps, StatusKeeps, ItemKeeps, PromoteKeeps
     DEF Next, AccountStep
<1>3. ASSUME IInv, UNCHANGED vars PROVE IInv'
  BY <1>3 DEF vars, IInv, TypeOK, DefaultStaysEligible, CodesCountTheRows, PromotionsAreCounted,
     TradesHaveAccounts, PlansAreOnActiveAccounts, Eligible, Existing, MadeFor
<1> QED  BY <1>1, <1>2, <1>3, PTL DEF Spec

-----------------------------------------------------------------------------
(* The properties *)

\* Every row is one the schema admits, and an item points at a trade made for it.
THEOREM TypeCorrectness == Spec => []TypeOK
<1>1. IInv => TypeOK  BY DEF IInv
<1> QED  BY <1>1, IInvHolds, PTL

\* The settings never point at an account nobody may choose, but where a crash left it.
THEOREM DefaultIsEligible == Spec => []DefaultStaysEligible
<1>1. IInv => DefaultStaysEligible  BY DEF IInv
<1> QED  BY <1>1, IInvHolds, PTL

\* A plan is on an active account, or was promoted through a default that a crash left
\* inactive.
THEOREM PlansWaitOnActiveAccounts == Spec => []PlansAreOnActiveAccounts
<1>1. IInv => PlansAreOnActiveAccounts  BY DEF IInv
<1> QED  BY <1>1, IInvHolds, PTL

\* While codes have four digits, both routes give the same code, and a free one.
THEOREM CodesAgree == Spec => []RoutesAgreeOnTheNextCode
<1>1. IInv => RoutesAgreeOnTheNextCode
  BY NextCode DEF IInv, RoutesAgreeOnTheNextCode, PromotedCode
<1> QED  BY <1>1, IInvHolds, PTL

\* An item becomes one trade, and one more for each crash inside a promotion.
THEOREM Promotions == Spec => []PromotedOnce
<1>1. ASSUME IInv PROVE PromotedOnce
  <2>1. ASSUME NEW i \in Items PROVE Cardinality(MadeFor(i)) <= 1 + crashes
    <3>1. Cardinality(MadeFor(i)) \in Nat /\ crashes \in Nat
      BY <1>1, CountsAreNumbers DEF IInv
    <3> QED  BY <1>1, <3>1 DEF IInv, PromotionsAreCounted
  <2> QED  BY <2>1 DEF PromotedOnce, MadeFor
<1> QED  BY <1>1, IInvHolds, PTL
=============================================================================
