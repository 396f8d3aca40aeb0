------------------------ MODULE TradeLifecycleProofs ------------------------
(***************************************************************************)
(* What the journal's operations preserve, for any trades, actions,        *)
(* quantities, times and number of executions.                             *)
(***************************************************************************)
EXTENDS TradeLifecycle, TableLemmas, SequenceTheorems, TLAPS

-----------------------------------------------------------------------------
(* The fills of a trade, as rows and corrections are appended.               *)

\* Corrections name rows that exist.
Refers(rows, corrections) ==
  \A c \in corrections : c.original \in DOMAIN rows /\ c.reversal \in DOMAIN rows

FillIds(rows, corrections, t) ==
  {i \in DOMAIN rows : rows[i].trade = t /\ i \notin Superseded(corrections)}

LEMMA FillsAreThoseOfIds ==
  ASSUME NEW rows, NEW corrections, NEW t
  PROVE  EffectiveFills(rows, corrections, t)
           = {Fill(rows[i], i) : i \in FillIds(rows, corrections, t)}
  BY DEF EffectiveFills, FillIds

LEMMA SupersededExist ==
  ASSUME NEW rows, NEW corrections, Refers(rows, corrections)
  PROVE  Superseded(corrections) \subseteq DOMAIN rows
  BY DEF Superseded, Refers

\* The same ids with the same rows are the same fills.
LEMMA SameFills ==
  ASSUME NEW r, NEW s, NEW c, NEW d, NEW t,
         FillIds(s, d, t) = FillIds(r, c, t),
         \A i \in FillIds(r, c, t) : s[i] = r[i]
  PROVE  EffectiveFills(s, d, t) = EffectiveFills(r, c, t)
  BY FillsAreThoseOfIds

Grows(rows, row, grown) ==
  /\ DOMAIN grown = DOMAIN rows \cup {Len(rows) + 1}
  /\ Len(rows) + 1 \notin DOMAIN rows
  /\ grown[Len(rows) + 1] = row
  /\ \A i \in DOMAIN rows : grown[i] = rows[i]

LEMMA AppendedRow ==
  ASSUME NEW S, NEW rows \in Seq(S), NEW row \in S
  PROVE  /\ rows \o <<row>> \in Seq(S)
         /\ Grows(rows, row, rows \o <<row>>)
<1>1. <<row>> \in Seq(S) /\ Len(<<row>>) = 1 /\ 1 \in DOMAIN <<row>> /\ <<row>>[1] = row
  OBVIOUS
<1> QED  BY <1>1, AppendedRows DEF Grows

\* A posted row is a fill of its trade, and of no other.
LEMMA PostedFills ==
  ASSUME NEW rows, NEW row, NEW grown, Grows(rows, row, grown),
         NEW corrections, Refers(rows, corrections)
  PROVE  EffectiveFills(grown, corrections, row.trade)
           = EffectiveFills(rows, corrections, row.trade) \cup {Fill(row, Len(rows) + 1)}
<1> DEFINE new == Len(rows) + 1
           t == row.trade
<1>1. /\ DOMAIN grown = DOMAIN rows \cup {new} /\ new \notin DOMAIN rows
      /\ grown[new] = row /\ \A i \in DOMAIN rows : grown[i] = rows[i]
  BY DEF Grows
<1>2. new \notin Superseded(corrections)
  BY <1>1, SupersededExist
<1> HIDE DEF new
<1>3. FillIds(grown, corrections, t) = FillIds(rows, corrections, t) \cup {new}
  BY <1>1, <1>2 DEF FillIds
<1>4. \A i \in FillIds(rows, corrections, t) : Fill(grown[i], i) = Fill(rows[i], i)
  BY <1>1 DEF FillIds
<1>5. Fill(grown[new], new) = Fill(row, new)
  BY <1>1
<1> QED  BY <1>3, <1>4, <1>5, FillsAreThoseOfIds DEF new

LEMMA PostedToAnother ==
  ASSUME NEW rows, NEW row, NEW grown, Grows(rows, row, grown), NEW corrections, NEW t, row.trade # t
  PROVE  EffectiveFills(grown, corrections, t) = EffectiveFills(rows, corrections, t)
<1>1. FillIds(grown, corrections, t) = FillIds(rows, corrections, t)
  BY DEF Grows, FillIds
<1>2. \A i \in FillIds(rows, corrections, t) : Fill(grown[i], i) = Fill(rows[i], i)
  BY DEF Grows, FillIds
<1> QED  BY <1>1, <1>2, FillsAreThoseOfIds

\* A correction leaves the fills of the other trades as they were.
LEMMA CorrectionOfOther ==
  ASSUME NEW S, NEW rows \in Seq(S), NEW corrections, Refers(rows, corrections),
         NEW x \in DOMAIN rows, NEW t, rows[x].trade # t,
         NEW reversal \in S, NEW replacement \in S,
         reversal.trade # t, replacement.trade # t,
         NEW c, c.original = x, c.reversal = Len(rows) + 1
  PROVE  EffectiveFills(rows \o <<reversal, replacement>>, corrections \cup {c}, t)
           = EffectiveFills(rows, corrections, t)
<1> DEFINE pair == <<reversal, replacement>>
           s == rows \o pair
           new == Len(rows) + 1
<1>1. /\ DOMAIN s = DOMAIN rows \cup {new, new + 1}
      /\ s[new] = reversal /\ s[new + 1] = replacement
      /\ \A i \in DOMAIN rows : s[i] = rows[i]
  <2>1. /\ pair \in Seq(S) /\ Len(pair) = 2 /\ DOMAIN pair = {1, 2}
        /\ pair[1] = reversal /\ pair[2] = replacement
    OBVIOUS
  <2> HIDE DEF pair
  <2> QED  BY <2>1, AppendedRows
<1>2. new \notin DOMAIN rows
  OBVIOUS
<1>3. Superseded(corrections \cup {c}) = Superseded(corrections) \cup {x, new}
  <2>1. /\ {d.original : d \in corrections \cup {c}}
             = {d.original : d \in corrections} \cup {c.original}
        /\ {d.reversal : d \in corrections \cup {c}}
             = {d.reversal : d \in corrections} \cup {c.reversal}
    OBVIOUS
  <2> QED  BY <2>1 DEF Superseded
<1> HIDE DEF s, new
<1>4. FillIds(s, corrections \cup {c}, t) = FillIds(rows, corrections, t)
  BY <1>1, <1>2, <1>3 DEF FillIds
<1>5. \A i \in FillIds(rows, corrections, t) : s[i] = rows[i]
  BY <1>1 DEF FillIds
<1>6. EffectiveFills(s, corrections \cup {c}, t) = EffectiveFills(rows, corrections, t)
  BY <1>4, <1>5, SameFills
<1> QED  BY <1>6 DEF s

-----------------------------------------------------------------------------
(* A trade without fills is planned.                                         *)

LEMMA NoQuantity == QuantityOf({}) = 0
  BY TotalOfNone DEF QuantityOf

LEMMA NoFillsPlanned ==
  ASSUME NEW direction
  PROVE  DeriveStatus({}, direction) = "planned"
<1>1. Entered({}, direction) = 0 /\ Exited({}, direction) = 0
  BY NoQuantity DEF Entered, Exited
<1> QED  BY <1>1 DEF DeriveStatus

-----------------------------------------------------------------------------
(* The inductive invariant.                                                  *)

Shape ==
  /\ DOMAIN trades = Trades
  /\ \A t \in Trades : {"status", "graded", "reviewed", "snapshot"} \subseteq DOMAIN trades[t]

TablesOK ==
  /\ executions \in Seq(Rows)
  /\ \A i \in DOMAIN executions : executions[i].trade \in Existing \cup {NoTrade}
  /\ Refers(executions, lineage)
  /\ bypassed \subseteq Existing
  /\ journal \subseteq [id : Nat, trade : Existing, action : EconomicActions,
                         quantity : Nat]

ReviewedAreClosed ==
  \A t \in Trades : trades[t].reviewed.done => trades[t].status = "closed"

IInv ==
  /\ Shape
  /\ TablesOK
  /\ ReviewedAreClosed
  /\ StatusMatchesFills
  /\ ReviewIsOfTheseFills

LEMMA InitIInv == Init => IInv
<1> SUFFICES ASSUME Init  PROVE IInv
  OBVIOUS
<1>1. \A t \in Trades : trades[t] = Absent
  BY DEF Init
<1>2. Existing = {}
  BY <1>1 DEF Existing, Absent
<1>3. Shape
  BY <1>1 DEF Init, Shape, Absent
<1>4. TablesOK
  BY DEF Init, TablesOK, Refers
<1>5. \A t \in Trades : ~trades[t].reviewed.done
  BY <1>1 DEF Absent, NotReviewed
<1> QED  BY <1>2, <1>3, <1>4, <1>5
         DEF IInv, ReviewedAreClosed, StatusMatchesFills, ReviewIsOfTheseFills

\* A trade that does not exist has no fills.
LEMMA AbsentHasNoFills ==
  ASSUME IInv, NEW t \in Trades, t \notin Existing
  PROVE  EffectiveFills(executions, lineage, t) = {}
<1>1. \A i \in DOMAIN executions : executions[i].trade # t
  BY NoTradeAssumption DEF IInv, TablesOK
<1> QED  BY <1>1 DEF EffectiveFills

-----------------------------------------------------------------------------
(* Steps that touch no execution.                                            *)

LEMMA PlanKeeps ==
  ASSUME IInv, NEW t \in Trades, PlanTrade(t)
  PROVE  IInv'
<1>1. /\ trades[t].status = "absent" /\ t \notin Existing
      /\ trades' = [trades EXCEPT ![t].status = "planned"]
      /\ UNCHANGED <<active, journal, executions, lineage, bypassed>>
  BY DEF PlanTrade, Existing
<1>2. /\ trades'[t].status = "planned" /\ trades'[t].reviewed = trades[t].reviewed
      /\ \A u \in Trades \ {t} : trades'[u] = trades[u]
      /\ Shape'
  BY <1>1 DEF IInv, Shape
<1>3. Existing' = Existing \cup {t}
  BY <1>1, <1>2 DEF Existing
<1>4. ~trades[t].reviewed.done
  BY <1>1 DEF IInv, ReviewedAreClosed
<1>5. TablesOK'
  BY <1>1, <1>3 DEF IInv, TablesOK
<1>6. ReviewedAreClosed' /\ ReviewIsOfTheseFills'
  BY <1>1, <1>2, <1>4 DEF IInv, ReviewedAreClosed, ReviewIsOfTheseFills, FillsOf
<1>7. StatusMatchesFills'
  <2>1. DeriveStatus(FillsOf(t), Direction(t)) = "planned"
    BY <1>1, AbsentHasNoFills, NoFillsPlanned DEF FillsOf
  <2> QED  BY <1>1, <1>2, <1>3, <2>1 DEF IInv, StatusMatchesFills, FillsOf
<1> QED  BY <1>2, <1>5, <1>6, <1>7 DEF IInv

LEMMA ScratchKeeps ==
  ASSUME IInv, NEW t \in Trades, ScratchTrade(t)
  PROVE  IInv'
<1>1. /\ trades[t].status = "planned"
      /\ trades' = [trades EXCEPT ![t].status = "deleted"]
      /\ UNCHANGED <<active, journal, executions, lineage, bypassed>>
  BY DEF ScratchTrade
<1>2. /\ trades'[t].status = "deleted" /\ trades'[t].reviewed = trades[t].reviewed
      /\ \A u \in Trades \ {t} : trades'[u] = trades[u]
      /\ Shape'
  BY <1>1 DEF IInv, Shape
<1>3. Existing' = Existing
  BY <1>1, <1>2 DEF Existing
<1>4. ~trades[t].reviewed.done
  BY <1>1 DEF IInv, ReviewedAreClosed
<1>5. TablesOK'
  BY <1>1, <1>3 DEF IInv, TablesOK
<1>6. ReviewedAreClosed' /\ ReviewIsOfTheseFills'
  BY <1>1, <1>2, <1>4 DEF IInv, ReviewedAreClosed, ReviewIsOfTheseFills, FillsOf
<1>7. StatusMatchesFills'
  BY <1>1, <1>2, <1>3 DEF IInv, StatusMatchesFills, FillsOf
<1> QED  BY <1>2, <1>5, <1>6, <1>7 DEF IInv

\* Steps that change grades and reviews only, and review closed trades as they are.
LEMMA ReviewKeeps ==
  ASSUME IInv, NEW t \in Trades, GradeTrade(t) \/ ReviewTrade(t) \/ ReopenReview(t)
  PROVE  IInv'
<1>1. /\ UNCHANGED <<active, journal, executions, lineage, bypassed>>
      /\ \A u \in Trades \ {t} : trades'[u] = trades[u]
      /\ trades'[t].status = trades[t].status
      /\ Shape'
  BY DEF IInv, Shape, GradeTrade, ReviewTrade, ReopenReview
<1>2. trades'[t].reviewed.done =>
        trades[t].status = "closed" /\ trades'[t].reviewed.fills = FillsOf(t)
  BY DEF IInv, Shape, GradeTrade, ReviewTrade, ReopenReview, NotReviewed, FillsOf
<1>3. Existing' = Existing
  BY <1>1 DEF Existing
<1>4. TablesOK'
  BY <1>1, <1>3 DEF IInv, TablesOK
<1>5. ReviewedAreClosed' /\ ReviewIsOfTheseFills'
  BY <1>1, <1>2 DEF IInv, ReviewedAreClosed, ReviewIsOfTheseFills, FillsOf
<1>6. StatusMatchesFills'
  <2>1. \A u \in Existing : trades'[u].status = trades[u].status
    BY <1>1 DEF Existing
  <2> QED  BY <1>1, <1>3, <2>1 DEF IInv, StatusMatchesFills, FillsOf
<1> QED  BY <1>1, <1>4, <1>5, <1>6 DEF IInv

LEMMA UnchangedKeeps ==
  ASSUME IInv, UNCHANGED <<trades, journal, executions, lineage, bypassed>>
  PROVE  IInv'
  BY DEF IInv, Shape, TablesOK, Existing, ReviewedAreClosed, StatusMatchesFills,
         ReviewIsOfTheseFills, FillsOf

\* The journal of a planned trade may be rewritten: the trade is bypassed then.
LEMMA RewriteKeeps ==
  ASSUME IInv, NEW t \in Trades, NEW old \in journal,
         NEW new, new \subseteq [id : Nat, trade : {old.trade}, action : EconomicActions,
                                 quantity : Nat],
         RewriteJournal(t, old, new)
  PROVE  IInv'
<1> DEFINE derived == DeriveStatus(JournalFills((journal \ {old}) \cup new, t), Direction(t))
<1>1. /\ trades[t].status = "planned"
      /\ trades' = [trades EXCEPT ![t].status = derived]
      /\ bypassed' = bypassed \cup {t, old.trade}
      /\ journal' = (journal \ {old}) \cup new
      /\ UNCHANGED <<active, executions, lineage>>
  BY DEF RewriteJournal, Bypass
<1>2. derived # "absent"
  BY DEF DeriveStatus
<1> HIDE DEF derived
<1>3. /\ trades'[t].status = derived /\ trades'[t].reviewed = trades[t].reviewed
      /\ \A u \in Trades \ {t} : trades'[u] = trades[u]
      /\ Shape'
  BY <1>1 DEF IInv, Shape
<1>4. Existing' = Existing /\ t \in Existing
  BY <1>1, <1>2, <1>3 DEF Existing
<1>5. ~trades[t].reviewed.done
  BY <1>1 DEF IInv, ReviewedAreClosed
<1>6. TablesOK'
  <2>1. new \subseteq [id : Nat, trade : Existing, action : EconomicActions, quantity : Nat]
    BY DEF IInv, TablesOK
  <2> QED  BY <1>1, <1>4, <2>1 DEF IInv, TablesOK
<1>7. ReviewedAreClosed' /\ ReviewIsOfTheseFills'
  BY <1>1, <1>3, <1>5 DEF IInv, ReviewedAreClosed, ReviewIsOfTheseFills, FillsOf
<1>8. StatusMatchesFills'
  BY <1>1, <1>3, <1>4 DEF IInv, StatusMatchesFills, FillsOf
<1> QED  BY <1>3, <1>6, <1>7, <1>8 DEF IInv

-----------------------------------------------------------------------------
(* Steps that post and correct fills.                                        *)

LEMMA DerivedStatus ==
  ASSUME NEW fills, NEW direction
  PROVE  DeriveStatus(fills, direction) # "absent"
  BY DEF DeriveStatus

\* Appended rows of existing trades leave the table in order.
LEMMA AppendedTable ==
  ASSUME TablesOK, NEW rows \in Seq(Rows), executions' = executions \o rows,
         \A j \in DOMAIN rows : rows[j].trade \in Existing \cup {NoTrade}
  PROVE  /\ executions' \in Seq(Rows)
         /\ DOMAIN executions \subseteq DOMAIN executions'
         /\ \A i \in DOMAIN executions : executions'[i] = executions[i]
         /\ \A i \in DOMAIN executions' : executions'[i].trade \in Existing \cup {NoTrade}
<1>1. executions \in Seq(Rows)
  BY DEF TablesOK
<1>2. /\ executions' \in Seq(Rows)
      /\ DOMAIN executions \subseteq DOMAIN executions'
      /\ \A i \in DOMAIN executions : executions'[i] = executions[i]
  BY <1>1, AppendedRows
<1>3. ASSUME NEW i \in DOMAIN executions'
      PROVE  executions'[i].trade \in Existing \cup {NoTrade}
  <2>1. CASE i \in DOMAIN executions /\ executions'[i] = executions[i]
    BY <2>1 DEF TablesOK
  <2>2. CASE i - Len(executions) \in DOMAIN rows
             /\ executions'[i] = rows[i - Len(executions)]
    BY <2>2
  <2> QED  BY <1>1, <2>1, <2>2, RowsOfEither
<1> QED  BY <1>2, <1>3

LEMMA PostFillKeeps ==
  ASSUME IInv, NEW t \in Trades, NEW action \in Actions, NEW quantity \in Quantities,
         NEW at \in FillTimes, PostTradeFill(t, action, quantity, at)
  PROVE  IInv'
<1> DEFINE direction == Direction(t)
           concrete == ResolveEconomicExecutionAction(action, direction)
           id == Len(executions) + 1
           row == Row(t, "fill", concrete, quantity, at)
           fills == FillsAfter(t, Fill(row, id))
           status == DeriveStatus(fills, direction)
           entry == [id |-> id, trade |-> t, action |-> concrete, quantity |-> quantity]
<1>1. concrete \in EconomicActions
  BY DEF PostTradeFill, Resolvable, ResolveEconomicExecutionAction, EconomicMap,
         LongEconomicMap, ShortEconomicMap, EconomicActions
<1>2. row \in Rows /\ row.trade = t
  BY <1>1, QuantitiesAssumption, TimesAssumption DEF Row, Rows
<1>3. /\ trades[t].status \in {"planned", "open"}
      /\ executions' = executions \o <<row>> /\ lineage' = lineage
      /\ journal' = journal \cup {entry}
      /\ \E snapshot : trades' = [trades EXCEPT ![t].status = status, ![t].snapshot = snapshot]
      /\ UNCHANGED <<active, bypassed>>
  BY DEF PostTradeFill, AppendExecutions
<1>4. /\ fills = EffectiveFills(executions, lineage, t) \cup {Fill(row, id)}
      /\ executions \in Seq(Rows) /\ Refers(executions, lineage)
      /\ Grows(executions, row, executions')
  BY <1>2, <1>3, AppendedRow DEF FillsAfter, IInv, TablesOK
<1> HIDE DEF row, status, fills, direction, concrete
<1>5. /\ trades'[t].status = status /\ trades'[t].reviewed = trades[t].reviewed
      /\ \A u \in Trades \ {t} : trades'[u] = trades[u]
      /\ Shape'
  BY <1>3 DEF IInv, Shape
<1>6. EffectiveFills(executions', lineage', t) = fills
  <2>1. EffectiveFills(executions', lineage, row.trade)
          = EffectiveFills(executions, lineage, row.trade)
              \cup {Fill(row, Len(executions) + 1)}
    BY <1>2, <1>3, <1>4, PostedFills
  <2> QED  BY <1>2, <1>3, <1>4, <2>1
<1>7. ASSUME NEW u \in Trades \ {t}
      PROVE  EffectiveFills(executions', lineage', u) = EffectiveFills(executions, lineage, u)
  <2>1. row.trade # u /\ Grows(executions, row, executions')
    BY <1>2, <1>4
  <2>2. EffectiveFills(executions', lineage, u) = EffectiveFills(executions, lineage, u)
    BY <2>1, PostedToAnother
  <2> QED  BY <1>3, <2>2
<1>8. t \in Existing /\ Existing' = Existing /\ status # "absent"
  BY <1>3, <1>5, DerivedStatus DEF Existing, status
<1>9. ~trades[t].reviewed.done
  BY <1>3 DEF IInv, ReviewedAreClosed
<1>10. TablesOK'
  <2>1. /\ <<row>> \in Seq(Rows)
        /\ \A j \in DOMAIN <<row>> : <<row>>[j].trade \in Existing \cup {NoTrade}
    BY <1>2, <1>8
  <2>2. /\ executions' \in Seq(Rows)
        /\ DOMAIN executions \subseteq DOMAIN executions'
        /\ \A i \in DOMAIN executions' : executions'[i].trade \in Existing \cup {NoTrade}
    BY <1>3, <2>1, AppendedTable DEF IInv
  <2>3. Refers(executions', lineage')
    BY <1>3, <1>4, <2>2 DEF Refers
  <2>4. entry \in [id : Nat, trade : Existing, action : EconomicActions, quantity : Nat]
    BY <1>1, <1>4, <1>8, QuantitiesAssumption DEF concrete, direction
  <2> HIDE DEF entry
  <2> QED  BY <1>3, <1>8, <2>2, <2>3, <2>4 DEF IInv, TablesOK
<1>11. ReviewedAreClosed' /\ ReviewIsOfTheseFills'
  BY <1>3, <1>5, <1>7, <1>9 DEF IInv, ReviewedAreClosed, ReviewIsOfTheseFills, FillsOf
<1>12. StatusMatchesFills'
  <2>1. \A u \in Existing \ {t} : trades'[u] = trades[u]
          /\ EffectiveFills(executions', lineage', u) = EffectiveFills(executions, lineage, u)
    BY <1>5, <1>7 DEF Existing
  <2> QED  BY <1>3, <1>5, <1>6, <1>8, <2>1
           DEF IInv, StatusMatchesFills, FillsOf, status, direction
<1> QED  BY <1>5, <1>10, <1>11, <1>12 DEF IInv

LEMMA ResolvedGeneric ==
  ASSUME NEW action \in JournalActions, NEW direction
  PROVE  (IF action \in GenericActions THEN ResolveEconomicExecutionAction(action, direction)
                                       ELSE action) \in EconomicActions
<1>1. action \in GenericActions => ResolveEconomicExecutionAction(action, direction) \in EconomicActions
  BY DEF GenericActions, ResolveEconomicExecutionAction, EconomicMap,
         LongEconomicMap, ShortEconomicMap, EconomicActions
<1> QED  BY <1>1 DEF JournalActions

\* An execution posted through the account bypasses the trade it is linked to.
LEMMA PostAccountKeeps ==
  ASSUME IInv, NEW link \in Existing \cup {NoTrade}, NEW action \in Actions,
         NEW quantity \in Quantities, NEW at \in AccountTimes,
         PostAccountExecution(link, action, quantity, at)
  PROVE  IInv'
<1> DEFINE side == IF NetPosition > 0 THEN "long" ELSE "short"
           concrete == IF action \in GenericActions
                         THEN ResolveEconomicExecutionAction(action, side) ELSE action
           row == Row(link, "account", concrete, quantity, at)
<1>1. concrete \in EconomicActions
  BY ResolvedGeneric, ActionsAssumption
<1>2. row \in Rows /\ row.trade = link
  <2> HIDE DEF concrete
  <2> QED  BY <1>1, QuantitiesAssumption, TimesAssumption DEF Row, Rows, Existing
<1>3. /\ executions' = executions \o <<row>> /\ lineage' = lineage
      /\ bypassed' = bypassed \cup ({link} \ {NoTrade})
      /\ UNCHANGED <<active, trades, journal>>
  BY DEF PostAccountExecution, AppendExecutions, Bypass
<1> HIDE DEF row, concrete, side
<1>4. executions \in Seq(Rows) /\ Refers(executions, lineage) /\ TablesOK
  BY DEF IInv, TablesOK
<1>5. Grows(executions, row, executions')
  BY <1>2, <1>3, <1>4, AppendedRow
<1>6. ASSUME NEW u \in Trades \ bypassed'
      PROVE  EffectiveFills(executions', lineage', u) = EffectiveFills(executions, lineage, u)
  <2>1. row.trade # u
    BY <1>2, <1>3, NoTradeAssumption
  <2>2. EffectiveFills(executions', lineage, u) = EffectiveFills(executions, lineage, u)
    BY <1>5, <2>1, PostedToAnother
  <2> QED  BY <1>3, <2>2
<1>7. Existing' = Existing
  BY <1>3 DEF Existing
<1>8. TablesOK'
  <2>1. /\ <<row>> \in Seq(Rows)
        /\ \A j \in DOMAIN <<row>> : <<row>>[j].trade \in Existing \cup {NoTrade}
    BY <1>2
  <2>2. /\ executions' \in Seq(Rows)
        /\ DOMAIN executions \subseteq DOMAIN executions'
        /\ \A i \in DOMAIN executions' : executions'[i].trade \in Existing \cup {NoTrade}
    BY <1>3, <1>4, <2>1, AppendedTable
  <2>3. Refers(executions', lineage')
    BY <1>3, <1>4, <2>2 DEF Refers
  <2> QED  BY <1>3, <1>7, <2>2, <2>3 DEF IInv, TablesOK
<1>9. Shape' /\ ReviewedAreClosed'
  BY <1>3 DEF IInv, Shape, ReviewedAreClosed
<1>10. StatusMatchesFills' /\ ReviewIsOfTheseFills'
  <2>1. Existing \subseteq Trades /\ bypassed \subseteq bypassed'
    BY <1>3 DEF Existing
  <2> QED  BY <1>3, <1>6, <1>7, <2>1 DEF IInv, StatusMatchesFills, ReviewIsOfTheseFills, FillsOf
<1> QED  BY <1>8, <1>9, <1>10 DEF IInv

\* What a correction leaves behind: sound tables, and the fills of every trade
\* but that of the corrected execution.
CorrectionAppends(x) ==
  /\ executions' \in Seq(Rows)
  /\ \A i \in DOMAIN executions' : executions'[i].trade \in Existing \cup {NoTrade}
  /\ \A i \in DOMAIN executions : i \in DOMAIN executions' /\ executions'[i] = executions[i]
  /\ Refers(executions', lineage')
  /\ \E c : /\ c.original = x /\ lineage' = lineage \cup {c}
            /\ c.replacement \in DOMAIN executions'
            /\ executions'[c.replacement].trade = executions[x].trade
  /\ \A u \in Trades : executions[x].trade # u =>
       EffectiveFills(executions', lineage', u) = EffectiveFills(executions, lineage, u)

LEMMA CorrectAppends ==
  ASSUME IInv, NEW x \in DOMAIN executions, NEW action \in Actions,
         NEW quantity \in Quantities, NEW requested \in RequestedTimes,
         Correct(x, action, quantity, requested)
  PROVE  CorrectionAppends(x)
<1> DEFINE original == executions[x]
           concrete == IF original.trade = NoTrade THEN action
                       ELSE ResolveEconomicExecutionAction(action, Direction(original.trade))
           at == IF requested > original.postedAt THEN requested ELSE original.postedAt + 1
           new == Len(executions)
           reversal == Row(original.trade, "correction", ReverseAction(original.action),
                           original.quantity, at)
           replacement == Row(original.trade, "correction", concrete, quantity, at + 1)
           pair == <<reversal, replacement>>
           c == [original |-> x, reversal |-> new + 1, replacement |-> new + 2]
<1>1. /\ original \in Rows /\ original.trade \in Existing \cup {NoTrade}
      /\ executions \in Seq(Rows) /\ Refers(executions, lineage) /\ TablesOK
  BY DEF IInv, TablesOK
<1>2. concrete \in EconomicActions
  BY DEF Correct, Resolvable, ResolveEconomicExecutionAction, EconomicMap,
         LongEconomicMap, ShortEconomicMap, EconomicActions
<1>3. ReverseAction(original.action) \in EconomicActions
  BY <1>1 DEF Rows, EconomicActions, ReverseAction
<1>4. /\ executions' = executions \o pair /\ lineage' = lineage \cup {c}
  BY DEF Correct, AppendExecutions
<1>5. original.postedAt \in Nat /\ original.quantity \in Nat \ {0}
      /\ original.trade \in Trades \cup {NoTrade}
  BY <1>1 DEF Rows
<1>6. at \in Nat
  BY <1>5, TimesAssumption
<1>7. /\ reversal \in Rows /\ reversal.trade = original.trade
      /\ replacement \in Rows /\ replacement.trade = original.trade
  <2> HIDE DEF at, concrete, original
  <2> QED  BY <1>2, <1>3, <1>5, <1>6, QuantitiesAssumption DEF Row, Rows
<1>8. /\ c.original = x /\ c.reversal = Len(executions) + 1
      /\ c.replacement = Len(executions) + 2
  OBVIOUS
<1> HIDE DEF reversal, replacement, c, concrete, at
<1>9. /\ pair \in Seq(Rows)
      /\ \A j \in DOMAIN pair : pair[j].trade \in Existing \cup {NoTrade}
      /\ Len(pair) = 2 /\ 1 \in DOMAIN pair /\ 2 \in DOMAIN pair /\ pair[2] = replacement
  BY <1>1, <1>7
<1>10. /\ executions' \in Seq(Rows)
       /\ \A i \in DOMAIN executions : i \in DOMAIN executions' /\ executions'[i] = executions[i]
       /\ \A i \in DOMAIN executions' : executions'[i].trade \in Existing \cup {NoTrade}
  <2> HIDE DEF pair
  <2> QED  BY <1>1, <1>4, <1>9, AppendedTable
<1>11. /\ Len(executions) + 1 \in DOMAIN executions'
       /\ Len(executions) + 2 \in DOMAIN executions'
       /\ executions'[Len(executions) + 2] = pair[2]
  <2> HIDE DEF pair
  <2> QED  BY <1>1, <1>4, <1>9, AppendedRows
<1>12. Refers(executions', lineage')
  BY <1>1, <1>4, <1>8, <1>10, <1>11 DEF Refers
<1>13. ASSUME NEW u \in Trades, executions[x].trade # u
       PROVE  EffectiveFills(executions', lineage', u) = EffectiveFills(executions, lineage, u)
  <2>1. EffectiveFills(executions \o <<reversal, replacement>>, lineage \cup {c}, u)
          = EffectiveFills(executions, lineage, u)
    BY <1>1, <1>7, <1>8, <1>13, CorrectionOfOther
  <2> QED  BY <1>4, <2>1
<1>14. c.replacement \in DOMAIN executions' /\ executions'[c.replacement].trade = executions[x].trade
  BY <1>7, <1>8, <1>9, <1>11
<1> QED  BY <1>4, <1>8, <1>10, <1>12, <1>13, <1>14 DEF CorrectionAppends

\* The trade's own route derives its state anew.
LEMMA CorrectTradeKeeps ==
  ASSUME IInv, NEW t \in Trades, NEW x \in DOMAIN executions, NEW action \in Actions,
         NEW quantity \in Quantities, NEW requested \in RequestedTimes,
         CorrectTradeExecution(t, x, action, quantity, requested)
  PROVE  IInv'
<1> DEFINE fills == EffectiveFills(executions', lineage', t)
           status == DeriveStatus(fills, Direction(t))
<1>1. /\ executions[x].trade = t
      /\ UNCHANGED <<active, journal, bypassed>>
      /\ Correct(x, action, quantity, requested)
  BY DEF CorrectTradeExecution
<1>2. \E repaired : trades' =
        [trades EXCEPT ![t] = CorrectedTrade(@, fills, Direction(t), repaired)]
  BY DEF CorrectTradeExecution
<1>3. CorrectionAppends(x)
  BY <1>1, CorrectAppends
<1>4. t \in Existing
  BY <1>1, NoTradeAssumption DEF IInv, TablesOK
<1> HIDE DEF fills
<1>5. /\ trades'[t].status = status /\ ~trades'[t].reviewed.done
      /\ \A u \in Trades \ {t} : trades'[u] = trades[u]
      /\ Shape'
  BY <1>2 DEF IInv, Shape, CorrectedTrade, NotReviewed
<1>6. Existing' = Existing
  BY <1>4, <1>5, DerivedStatus DEF Existing
<1>7. TablesOK'
  BY <1>1, <1>3, <1>6 DEF IInv, TablesOK, CorrectionAppends
<1>8. \A u \in Trades \ {t} :
        EffectiveFills(executions', lineage', u) = EffectiveFills(executions, lineage, u)
  BY <1>1, <1>3 DEF CorrectionAppends
<1>9. ReviewedAreClosed' /\ ReviewIsOfTheseFills'
  BY <1>1, <1>5, <1>8 DEF IInv, ReviewedAreClosed, ReviewIsOfTheseFills, FillsOf
<1>10. StatusMatchesFills'
  <2>1. \A u \in Existing \ {t} : trades'[u] = trades[u]
          /\ EffectiveFills(executions', lineage', u) = EffectiveFills(executions, lineage, u)
    BY <1>5, <1>8 DEF Existing
  <2> QED  BY <1>1, <1>5, <1>6, <2>1 DEF IInv, StatusMatchesFills, FillsOf, fills
<1> QED  BY <1>5, <1>7, <1>9, <1>10 DEF IInv

\* The account's route bypasses the trade of the execution.
LEMMA CorrectAccountKeeps ==
  ASSUME IInv, NEW x \in DOMAIN executions, NEW action \in Actions,
         NEW quantity \in Quantities, NEW requested \in RequestedTimes,
         CorrectAccountExecution(x, action, quantity, requested)
  PROVE  IInv'
<1>1. /\ Correct(x, action, quantity, requested)
      /\ bypassed' = bypassed \cup ({executions[x].trade} \ {NoTrade})
      /\ UNCHANGED <<active, trades, journal>>
  BY DEF CorrectAccountExecution, Bypass
<1>2. CorrectionAppends(x)
  BY <1>1, CorrectAppends
<1>3. Existing' = Existing /\ Existing \subseteq Trades
  BY <1>1 DEF Existing
<1>4. bypassed' \subseteq Existing /\ bypassed \subseteq bypassed'
  BY <1>1 DEF IInv, TablesOK
<1>5. TablesOK'
  BY <1>1, <1>2, <1>3, <1>4 DEF IInv, TablesOK, CorrectionAppends
<1>6. \A u \in Trades \ bypassed' :
        EffectiveFills(executions', lineage', u) = EffectiveFills(executions, lineage, u)
  BY <1>1, <1>2, NoTradeAssumption DEF CorrectionAppends
<1>7. Shape' /\ ReviewedAreClosed'
  BY <1>1 DEF IInv, Shape, ReviewedAreClosed
<1>8. StatusMatchesFills' /\ ReviewIsOfTheseFills'
  BY <1>1, <1>3, <1>4, <1>6 DEF IInv, StatusMatchesFills, ReviewIsOfTheseFills, FillsOf
<1> QED  BY <1>5, <1>7, <1>8 DEF IInv

LEMMA NextKeepsIInv == IInv /\ [Next]_vars => IInv'
<1> SUFFICES ASSUME IInv, [Next]_vars  PROVE IInv'
  OBVIOUS
<1>1. ASSUME NEW t \in Trades, PlanTrade(t)  PROVE IInv'
  BY <1>1, PlanKeeps
<1>2. ASSUME NEW t \in Trades, ScratchTrade(t)  PROVE IInv'
  BY <1>2, ScratchKeeps
<1>3. ASSUME NEW t \in Trades, GradeTrade(t) \/ ReviewTrade(t) \/ ReopenReview(t)  PROVE IInv'
  BY <1>3, ReviewKeeps
<1>4. ASSUME NEW on \in BOOLEAN, SetActive(on)  PROVE IInv'
  BY <1>4, UnchangedKeeps DEF SetActive
<1>5. ASSUME NEW action \in Actions, NEW q \in Quantities, NEW t \in Trades,
             NEW at \in FillTimes, PostTradeFill(t, action, q, at)
      PROVE  IInv'
  BY <1>5, PostFillKeeps
<1>6. ASSUME NEW action \in Actions, NEW q \in Quantities, NEW link \in Existing \cup {NoTrade},
             NEW at \in AccountTimes, PostAccountExecution(link, action, q, at)
      PROVE  IInv'
  BY <1>6, PostAccountKeeps
<1>7. ASSUME NEW action \in Actions, NEW q \in Quantities, NEW x \in DOMAIN executions,
             NEW at \in RequestedTimes,
             \/ \E t \in Trades : CorrectTradeExecution(t, x, action, q, at)
             \/ CorrectAccountExecution(x, action, q, at)
      PROVE  IInv'
  BY <1>7, CorrectTradeKeeps, CorrectAccountKeeps
<1>8. ASSUME NEW action \in Actions, NEW q \in Quantities, NEW t \in Trades, NEW j \in journal,
             EditJournalExecution(t, j, action, q)
      PROVE  IInv'
  <2> DEFINE concrete == IF action \in GenericActions
                           THEN ResolveEconomicExecutionAction(action, Direction(t)) ELSE action
             edited == [j EXCEPT !.action = concrete, !.quantity = q]
  <2>1. j \in [id : Nat, trade : Existing, action : EconomicActions, quantity : Nat]
    BY DEF IInv, TablesOK
  <2>2. {edited} \subseteq [id : Nat, trade : {j.trade}, action : EconomicActions, quantity : Nat]
    <3>1. concrete \in EconomicActions
      BY ResolvedGeneric, ActionsAssumption
    <3> HIDE DEF concrete
    <3> QED  BY <2>1, <3>1, QuantitiesAssumption
  <2>3. RewriteJournal(t, j, {edited})
    BY <1>8 DEF EditJournalExecution
  <2> HIDE DEF edited
  <2> QED  BY <2>2, <2>3, RewriteKeeps
<1>9. ASSUME NEW t \in Trades, NEW j \in journal, DeleteJournalExecution(t, j)
      PROVE  IInv'
  BY <1>9, RewriteKeeps DEF DeleteJournalExecution
<1>10. CASE UNCHANGED vars
  BY <1>10, UnchangedKeeps DEF vars
<1> QED  BY <1>1, <1>2, <1>3, <1>4, <1>5, <1>6, <1>7, <1>8, <1>9, <1>10 DEF Next

THEOREM IInvHolds == Spec => []IInv
  BY InitIInv, NextKeepsIInv, PTL DEF Spec

\* Whatever is posted, corrected, reviewed or switched, in any order and by any
\* number of trades, a trade changed by its own routes alone has the status its
\* effective fills give it.
THEOREM StatusFollowsFills == Spec => []StatusMatchesFills
<1>1. IInv => StatusMatchesFills
  BY DEF IInv
<1> QED  BY <1>1, IInvHolds, PTL

\* A review is of the fills the trade still has.
THEOREM ReviewsAreCurrent == Spec => []ReviewIsOfTheseFills
<1>1. IInv => ReviewIsOfTheseFills
  BY DEF IInv
<1> QED  BY <1>1, IInvHolds, PTL

\* Corrections are never undone.
LEMMA CorrectedStays ==
  ASSUME IInv, NEW t, Corrected(t),
         lineage \subseteq lineage',
         \A i \in DOMAIN executions : executions'[i] = executions[i]
  PROVE  Corrected(t)'
  BY DEF Corrected, IInv, TablesOK, Refers

-----------------------------------------------------------------------------
(* What the fills of a trade add up to.                                      *)

\* Fills that can be added up.
Countable(fills) == IsFiniteSet(fills) /\ \A f \in fills : f.quantity \in Nat \ {0}

\* The fills of a trade are finitely many rows.
LEMMA FillsCountable ==
  ASSUME NEW rows \in Seq(Rows), NEW corrections, NEW t
  PROVE  Countable(EffectiveFills(rows, corrections, t))
<1> DEFINE ids == FillIds(rows, corrections, t)
           f == [i \in ids |-> Fill(rows[i], i)]
<1>1. ids \in SUBSET (1 .. Len(rows)) /\ Len(rows) \in Nat
  BY DEF FillIds
<1>2. IsFiniteSet(ids)
  <2> HIDE DEF ids
  <2>1. IsFiniteSet(1 .. Len(rows))
    BY <1>1, FS_Interval
  <2> QED  BY <1>1, <2>1, FS_Subset
<1>3. EffectiveFills(rows, corrections, t) = {f[i] : i \in ids}
  BY FillsAreThoseOfIds
<1>4. \A i \in ids : Fill(rows[i], i).quantity \in Nat \ {0}
  <2> SUFFICES ASSUME NEW i \in ids PROVE Fill(rows[i], i).quantity \in Nat \ {0}
    OBVIOUS
  <2>1. rows[i] \in Rows
    BY DEF FillIds
  <2>2. DOMAIN rows[i] = {"trade", "source", "action", "quantity", "postedAt"}
        /\ rows[i].quantity \in Nat \ {0}
    BY <2>1 DEF Rows
  <2> QED  BY <2>2 DEF Fill
<1>5. DOMAIN f = ids /\ \A i \in ids : f[i] = Fill(rows[i], i)
  OBVIOUS
<1> HIDE DEF ids, f
<1>6. IsFiniteSet({f[i] : i \in ids})
  BY <1>2, <1>5, ImageFinite
<1> QED  BY <1>3, <1>4, <1>5, <1>6 DEF Countable

\* A part of them can be added up, to a natural number.
LEMMA QuantityOfSome ==
  ASSUME NEW fills, Countable(fills), NEW some \in SUBSET fills
  PROVE  Countable(some) /\ QuantityOf(some) \in Nat
<1>1. Countable(some)
  BY FS_Subset DEF Countable
<1> DEFINE q == [f \in some |-> f.quantity]
<1>2. q \in [some -> Int] /\ \A f \in some : q[f] \in Nat
  BY <1>1 DEF Countable
<1> HIDE DEF q
<1>3. Total(q) \in Nat
  BY <1>1, <1>2, TotalOfNaturals DEF Countable
<1> QED  BY <1>1, <1>3 DEF QuantityOf, q

\* One more fill adds its quantity.
LEMMA QuantityAdded ==
  ASSUME NEW fills, Countable(fills), NEW f, f \notin fills, f.quantity \in Nat \ {0}
  PROVE  QuantityOf(fills \cup {f}) = QuantityOf(fills) + f.quantity
<1> DEFINE all == fills \cup {f}
           q == [g \in all |-> g.quantity]
           r == [g \in fills |-> g.quantity]
<1>1. f \in all /\ all \ {f} = fills /\ IsFiniteSet(all)
  BY FS_AddElement DEF Countable
<1>2. q \in [all -> Int] /\ r \in [fills -> Int] /\ q[f] = f.quantity
      /\ \A g \in fills : q[g] = r[g]
  BY DEF Countable
<1> HIDE DEF q, r, all
<1>3. r \in [all \ {f} -> Int] /\ \A g \in all \ {f} : q[g] = r[g]
  BY <1>1, <1>2
<1>4. Total(q) = Total(r) + q[f]
  BY ONLY <1>1, <1>2, <1>3, TotalAdded
<1> QED  BY <1>2, <1>4 DEF QuantityOf, q, r, all

\* A fill counts on the side of its action.
LEMMA SideAdded ==
  ASSUME NEW fills, Countable(fills), NEW f, f \notin fills, f.quantity \in Nat \ {0},
         NEW direction
  PROVE  /\ Entered(fills, direction) \in Nat /\ Exited(fills, direction) \in Nat
         /\ Entered(fills \cup {f}, direction) = Entered(fills, direction) +
              (IF IsEntry(f.action, direction) THEN f.quantity ELSE 0)
         /\ Exited(fills \cup {f}, direction) = Exited(fills, direction) +
              (IF IsExit(f.action, direction) THEN f.quantity ELSE 0)
<1> DEFINE In(s) == {g \in s : IsEntry(g.action, direction)}
           Out(s) == {g \in s : IsExit(g.action, direction)}
<1>1. /\ In(fills \cup {f}) = IF IsEntry(f.action, direction) THEN In(fills) \cup {f} ELSE In(fills)
      /\ Out(fills \cup {f}) = IF IsExit(f.action, direction) THEN Out(fills) \cup {f} ELSE Out(fills)
      /\ In(fills) \in SUBSET fills /\ Out(fills) \in SUBSET fills
      /\ f \notin In(fills) /\ f \notin Out(fills)
  OBVIOUS
<1>2. /\ \A s : Entered(s, direction) = QuantityOf(In(s))
      /\ \A s : Exited(s, direction) = QuantityOf(Out(s))
  BY DEF Entered, Exited
<1> HIDE DEF In, Out
<1>3. /\ Countable(In(fills)) /\ QuantityOf(In(fills)) \in Nat
      /\ Countable(Out(fills)) /\ QuantityOf(Out(fills)) \in Nat
  BY <1>1, QuantityOfSome
<1>4. /\ QuantityOf(In(fills) \cup {f}) = QuantityOf(In(fills)) + f.quantity
      /\ QuantityOf(Out(fills) \cup {f}) = QuantityOf(Out(fills)) + f.quantity
  BY <1>1, <1>3, QuantityAdded
<1> QED  BY <1>1, <1>2, <1>3, <1>4

LEMMA EnteredNat ==
  ASSUME NEW rows \in Seq(Rows), NEW corrections, NEW t, NEW direction
  PROVE  Entered(EffectiveFills(rows, corrections, t), direction) \in Nat
<1>1. Countable(EffectiveFills(rows, corrections, t))
  BY FillsCountable
<1> QED  BY <1>1, QuantityOfSome DEF Entered

-----------------------------------------------------------------------------
(* Trades close only what they opened.                                       *)

ClosesItself(t) ==
  ~Corrected(t) => Exited(FillsOf(t), Direction(t)) <= Entered(FillsOf(t), Direction(t))

\* An exit that fits into what is open, or an entry, leaves no trade over-closed.
LEMMA ClosableFits ==
  ASSUME NEW fills, Countable(fills), NEW f, f \notin fills, f.quantity \in Nat \ {0},
         NEW direction,
         Exited(fills, direction) <= Entered(fills, direction),
         IsExit(f.action, direction) => f.quantity <= OpenQuantity(fills, direction)
  PROVE  Exited(fills \cup {f}, direction) <= Entered(fills \cup {f}, direction)
<1> DEFINE more == fills \cup {f}
<1>1. /\ Entered(fills, direction) \in Nat /\ Exited(fills, direction) \in Nat
      /\ Entered(more, direction) = Entered(fills, direction) +
           (IF IsEntry(f.action, direction) THEN f.quantity ELSE 0)
      /\ Exited(more, direction) = Exited(fills, direction) +
           (IF IsExit(f.action, direction) THEN f.quantity ELSE 0)
  BY SideAdded
<1> HIDE DEF more
<1>2. CASE IsExit(f.action, direction)
  <2>1. ~IsEntry(f.action, direction)
    BY <1>2 DEF IsEntry, IsExit
  <2> QED  BY <1>1, <1>2, <2>1 DEF OpenQuantity, more
<1>3. CASE ~IsExit(f.action, direction)
  BY <1>1, <1>3 DEF more
<1> QED  BY <1>2, <1>3

\* A trade whose rows an operation leaves alone closes no more than before.
LEMMA UntouchedClosesItself ==
  ASSUME NEW t, ClosesItself(t), FillsOf(t)' = FillsOf(t), Corrected(t) => Corrected(t)'
  PROVE  ClosesItself(t)'
  BY DEF ClosesItself, Direction

\* Without corrections no trade exits more than it entered, whatever the other
\* trades of the account hold.
THEOREM OverCloseIsRefused == Spec => []TradesCloseOnlyThemselves
<1>1. Init => TradesCloseOnlyThemselves
  <2> SUFFICES ASSUME Init, NEW t \in Trades
               PROVE  Exited(FillsOf(t), Direction(t)) <= Entered(FillsOf(t), Direction(t))
    BY DEF TradesCloseOnlyThemselves
  <2>1. FillsOf(t) = {}
    BY DEF Init, FillsOf, EffectiveFills
  <2> QED  BY <2>1, NoQuantity DEF Entered, Exited
<1>2. IInv /\ TradesCloseOnlyThemselves /\ [Next]_vars => TradesCloseOnlyThemselves'
  <2> SUFFICES ASSUME IInv, TradesCloseOnlyThemselves, [Next]_vars,
                      NEW t \in Trades, t \notin bypassed'
               PROVE  ClosesItself(t)'
    BY DEF TradesCloseOnlyThemselves, ClosesItself
  <2>1. t \notin bypassed => ClosesItself(t)
    BY DEF TradesCloseOnlyThemselves, ClosesItself
  <2>2. ASSUME UNCHANGED <<executions, lineage>>, t \notin bypassed  PROVE ClosesItself(t)'
    BY <2>1, <2>2 DEF ClosesItself, FillsOf, Corrected, Direction
  <2>3. ASSUME NEW action \in Actions, NEW q \in Quantities, NEW u \in Trades,
               NEW at \in FillTimes, PostTradeFill(u, action, q, at)
        PROVE  ClosesItself(t)'
    <3> DEFINE direction == Direction(u)
               concrete == ResolveEconomicExecutionAction(action, direction)
               row == Row(u, "fill", concrete, q, at)
               fill == Fill(row, Len(executions) + 1)
    <3>1. /\ executions' = executions \o <<row>> /\ lineage' = lineage
          /\ bypassed' = bypassed
          /\ IsExit(concrete, direction) => q <= Closable(u)
      BY <2>3 DEF PostTradeFill, AppendExecutions
    <3>2. concrete \in EconomicActions
      BY <2>3 DEF PostTradeFill, Resolvable, ResolveEconomicExecutionAction, EconomicMap,
             LongEconomicMap, ShortEconomicMap, EconomicActions
    <3>3. row \in Rows /\ row.trade = u
      BY <3>2, QuantitiesAssumption, TimesAssumption DEF Row, Rows
    <3>4. fill.quantity = q /\ fill.action = concrete /\ fill.id = Len(executions) + 1
          /\ q \in Nat \ {0}
      BY QuantitiesAssumption DEF Fill, Row
    <3> HIDE DEF row, fill, concrete
    <3>5. executions \in Seq(Rows) /\ Refers(executions, lineage)
          /\ Grows(executions, row, executions')
      BY <3>1, <3>3, AppendedRow DEF IInv, TablesOK
    <3>6. Corrected(t) => Corrected(t)'
      <4>1. lineage \subseteq lineage' /\ \A i \in DOMAIN executions : executions'[i] = executions[i]
        BY <3>1, <3>5 DEF Grows
      <4> QED  BY <4>1, CorrectedStays
    <3>7. CASE t # u
      <4>1. row.trade # t
        BY <3>3, <3>7
      <4>2. EffectiveFills(executions', lineage, t) = EffectiveFills(executions, lineage, t)
        BY <3>5, <4>1, PostedToAnother
      <4>3. FillsOf(t)' = FillsOf(t)
        BY <3>1, <4>2 DEF FillsOf
      <4> QED  BY <2>1, <3>1, <3>6, <4>3, UntouchedClosesItself
    <3>8. CASE t = u
      <4> DEFINE fills == EffectiveFills(executions, lineage, u)
      <4>1. EffectiveFills(executions', lineage, row.trade)
              = EffectiveFills(executions, lineage, row.trade)
                  \cup {Fill(row, Len(executions) + 1)}
        BY <3>5, PostedFills
      <4>2. FillsOf(t)' = fills \cup {fill}
        BY <3>1, <3>3, <3>8, <4>1 DEF FillsOf, fill
      <4>3. Countable(fills)
        BY <3>5, FillsCountable
      <4>4. fill \notin fills
        <5>1. Len(executions) + 1 \notin DOMAIN executions
          BY <3>5
        <5>2. \A f \in fills : f.id \in DOMAIN executions
          BY FillsAreThoseOfIds DEF Fill, FillIds
        <5> QED  BY <3>4, <5>1, <5>2
      <4>5. FillsOf(t) = fills /\ Direction(t) = direction /\ Closable(u) = OpenQuantity(fills, direction)
        BY <3>8 DEF FillsOf, Closable
      <4> HIDE DEF fills, direction
      <4>6. SUFFICES ASSUME ~Corrected(t)'
                     PROVE  Exited(FillsOf(t)', direction) <= Entered(FillsOf(t)', direction)
        BY <4>5 DEF ClosesItself, Direction
      <4>7. Exited(fills, direction) <= Entered(fills, direction)
        BY <2>1, <3>1, <3>6, <4>5, <4>6 DEF ClosesItself
      <4>8. IsExit(fill.action, direction) => fill.quantity <= OpenQuantity(fills, direction)
        BY <3>1, <3>4, <4>5 DEF direction
      <4>9. Exited(fills \cup {fill}, direction) <= Entered(fills \cup {fill}, direction)
        BY <3>4, <4>3, <4>4, <4>7, <4>8, ClosableFits
      <4> QED  BY <4>2, <4>9
    <3> QED  BY <3>7, <3>8
  <2>4. ASSUME NEW action \in Actions, NEW q \in Quantities, NEW link \in Existing \cup {NoTrade},
               NEW at \in AccountTimes, PostAccountExecution(link, action, q, at)
        PROVE  ClosesItself(t)'
    <3> DEFINE side == IF NetPosition > 0 THEN "long" ELSE "short"
               concrete == IF action \in GenericActions
                             THEN ResolveEconomicExecutionAction(action, side) ELSE action
               row == Row(link, "account", concrete, q, at)
    <3>1. /\ executions' = executions \o <<row>> /\ lineage' = lineage
          /\ bypassed' = bypassed \cup ({link} \ {NoTrade})
      BY <2>4 DEF PostAccountExecution, AppendExecutions, Bypass
    <3>2. concrete \in EconomicActions
      BY ResolvedGeneric, ActionsAssumption
    <3>3. row \in Rows /\ row.trade = link
      <4> HIDE DEF concrete
      <4> QED  BY <3>2, QuantitiesAssumption, TimesAssumption DEF Row, Rows, Existing
    <3> HIDE DEF row, concrete, side
    <3>4. Grows(executions, row, executions')
      BY <3>1, <3>3, AppendedRow DEF IInv, TablesOK
    <3>5. row.trade # t
      BY <3>1, <3>3, NoTradeAssumption
    <3>6. EffectiveFills(executions', lineage, t) = EffectiveFills(executions, lineage, t)
      BY <3>4, <3>5, PostedToAnother
    <3>7. FillsOf(t)' = FillsOf(t) /\ (Corrected(t) => Corrected(t)')
      <4>1. lineage \subseteq lineage' /\ \A i \in DOMAIN executions : executions'[i] = executions[i]
        BY <3>1, <3>4 DEF Grows
      <4> QED  BY <3>1, <3>6, <4>1, CorrectedStays DEF FillsOf
    <3> QED  BY <2>1, <3>1, <3>7, UntouchedClosesItself
  <2>5. ASSUME NEW action \in Actions, NEW q \in Quantities, NEW x \in DOMAIN executions,
               NEW at \in RequestedTimes,
               \/ \E u \in Trades : CorrectTradeExecution(u, x, action, q, at)
               \/ CorrectAccountExecution(x, action, q, at)
        PROVE  ClosesItself(t)'
    <3>1. CorrectionAppends(x) /\ bypassed \subseteq bypassed'
      BY <2>5, CorrectAppends DEF CorrectTradeExecution, CorrectAccountExecution, Bypass
    <3>2. CASE executions[x].trade = t
      BY <3>1, <3>2 DEF ClosesItself, Corrected, CorrectionAppends
    <3>3. CASE executions[x].trade # t
      <4>1. FillsOf(t)' = FillsOf(t)
        BY <3>1, <3>3 DEF FillsOf, CorrectionAppends
      <4>2. Corrected(t) => Corrected(t)'
        BY <3>1, CorrectedStays DEF CorrectionAppends
      <4> QED  BY <2>1, <3>1, <4>1, <4>2, UntouchedClosesItself
    <3> QED  BY <3>2, <3>3
  <2>6. ASSUME NEW u \in Trades, NEW j \in journal, NEW new, RewriteJournal(u, j, new)
        PROVE  ClosesItself(t)'
    BY <2>2, <2>6 DEF RewriteJournal, Bypass
  <2>7. ASSUME NEW u \in Trades,
               PlanTrade(u) \/ ScratchTrade(u) \/ GradeTrade(u) \/ ReviewTrade(u) \/ ReopenReview(u)
        PROVE  ClosesItself(t)'
    BY <2>2, <2>7 DEF PlanTrade, ScratchTrade, GradeTrade, ReviewTrade, ReopenReview
  <2>8. ASSUME NEW on \in BOOLEAN, SetActive(on)  PROVE ClosesItself(t)'
    BY <2>2, <2>8 DEF SetActive
  <2>9. CASE UNCHANGED vars
    BY <2>2, <2>9 DEF vars
  <2> QED  BY <2>3, <2>4, <2>5, <2>6, <2>7, <2>8, <2>9
           DEF Next, EditJournalExecution, DeleteJournalExecution
<1> QED  BY <1>1, <1>2, IInvHolds, PTL DEF Spec

-----------------------------------------------------------------------------
(* The columns fit together.                                                 *)

TradesOK == \A t \in Trades : TradeOK(t)

JournalOK ==
  /\ journal \subseteq [id : DOMAIN executions, trade : Existing,
                         action : EconomicActions, quantity : Nat \ {0}]
  /\ \A j \in journal : executions[j.id].trade = j.trade

LineageOK ==
  \A c \in lineage :
    /\ {c.original, c.reversal, c.replacement} \subseteq DOMAIN executions
    /\ executions[c.original].trade = executions[c.replacement].trade

\* What TypeOK says beyond the tables IInv holds in order.
ColumnsOK == active \in BOOLEAN /\ stale \in BOOLEAN /\ TradesOK /\ JournalOK /\ LineageOK

\* Rows are never changed, so what refers to them stays right.
LEMMA RowsStayReferred ==
  ASSUME JournalOK, LineageOK, Existing \subseteq Existing',
         \A i \in DOMAIN executions : i \in DOMAIN executions' /\ executions'[i] = executions[i]
  PROVE  /\ \A j \in journal :
              /\ j \in [id : DOMAIN executions', trade : Existing',
                         action : EconomicActions, quantity : Nat \ {0}]
              /\ executions'[j.id].trade = j.trade
         /\ \A c \in lineage :
              /\ {c.original, c.reversal, c.replacement} \subseteq DOMAIN executions'
              /\ executions'[c.original].trade = executions'[c.replacement].trade
<1>1. ASSUME NEW j \in journal
      PROVE  /\ j \in [id : DOMAIN executions', trade : Existing',
                        action : EconomicActions, quantity : Nat \ {0}]
             /\ executions'[j.id].trade = j.trade
  <2>1. j \in [id : DOMAIN executions, trade : Existing,
               action : EconomicActions, quantity : Nat \ {0}]
        /\ executions[j.id].trade = j.trade
    BY DEF JournalOK
  <2>2. j.id \in DOMAIN executions
    BY <2>1
  <2> QED  BY <2>1, <2>2
<1>2. ASSUME NEW c \in lineage
      PROVE  /\ {c.original, c.reversal, c.replacement} \subseteq DOMAIN executions'
             /\ executions'[c.original].trade = executions'[c.replacement].trade
  BY DEF LineageOK
<1> QED  BY <1>1, <1>2

LEMMA PostFillKeepsColumns ==
  ASSUME IInv, ColumnsOK, NEW t \in Trades, NEW action \in Actions, NEW quantity \in Quantities,
         NEW at \in FillTimes, PostTradeFill(t, action, quantity, at)
  PROVE  ColumnsOK'
<1> DEFINE direction == Direction(t)
           concrete == ResolveEconomicExecutionAction(action, direction)
           id == Len(executions) + 1
           row == Row(t, "fill", concrete, quantity, at)
           fills == FillsAfter(t, Fill(row, id))
           status == DeriveStatus(fills, direction)
           entered == Entered(fills, direction)
           entry == [id |-> id, trade |-> t, action |-> concrete, quantity |-> quantity]
<1>1. concrete \in EconomicActions
  BY DEF PostTradeFill, Resolvable, ResolveEconomicExecutionAction, EconomicMap,
         LongEconomicMap, ShortEconomicMap, EconomicActions
<1>2. row \in Rows /\ row.trade = t
  BY <1>1, QuantitiesAssumption, TimesAssumption DEF Row, Rows
<1>3. /\ trades[t].status \in {"planned", "open"}
      /\ executions' = executions \o <<row>> /\ lineage' = lineage
      /\ journal' = journal \cup {entry}
      /\ trades' = [trades EXCEPT ![t].status = status,
                                  ![t].snapshot = IF @ = 0 THEN entered ELSE @]
      /\ UNCHANGED <<active, stale, bypassed>>
  BY DEF PostTradeFill, AppendExecutions
<1>4. /\ executions \in Seq(Rows) /\ Refers(executions, lineage)
      /\ Grows(executions, row, executions') /\ executions' \in Seq(Rows)
  BY <1>2, <1>3, AppendedRow DEF IInv, TablesOK
<1>5. entered \in Nat
  <2>1. fills = EffectiveFills(executions', lineage, t)
    BY <1>2, <1>4, PostedFills DEF FillsAfter
  <2> HIDE DEF fills
  <2> QED  BY <1>4, <2>1, EnteredNat
<1>6. status \in {"planned", "open", "closed"}
  BY DEF DeriveStatus
<1>7. entry.id = id /\ entry.trade = t /\ executions'[id].trade = t /\ id \in DOMAIN executions'
  BY <1>2, <1>4 DEF Grows
<1> HIDE DEF row, status, fills, direction, concrete, entered
<1>8. t \in Existing /\ Existing' = Existing
  BY <1>3, <1>6 DEF Existing, IInv, Shape
<1>9. TradesOK'
  <2> SUFFICES ASSUME NEW u \in Trades PROVE TradeOK(u)'
    BY DEF TradesOK
  <2>1. TradeOK(u)
    BY DEF ColumnsOK, TradesOK
  <2>2. CASE u # t
    BY <1>3, <2>1, <2>2 DEF TradeOK, IInv, Shape
  <2>3. CASE u = t
    <3>1. /\ trades'[t].status = status /\ trades'[t].reviewed = trades[t].reviewed
          /\ trades'[t].snapshot = IF trades[t].snapshot = 0 THEN entered ELSE trades[t].snapshot
      BY <1>3 DEF IInv, Shape
    <3> QED  BY <1>3, <1>5, <1>6, <2>1, <2>3, <3>1 DEF TradeOK, Statuses
  <2> QED  BY <2>2, <2>3
<1>10. entry \in [id : DOMAIN executions', trade : Existing, action : EconomicActions,
                  quantity : Nat \ {0}]
  BY <1>1, <1>7, <1>8, QuantitiesAssumption DEF concrete, direction
<1> HIDE DEF entry
<1>11. JournalOK' /\ LineageOK'
  <2>1. \A i \in DOMAIN executions : i \in DOMAIN executions' /\ executions'[i] = executions[i]
    BY <1>4 DEF Grows
  <2> QED  BY <1>3, <1>7, <1>8, <1>10, <2>1, RowsStayReferred DEF ColumnsOK, JournalOK, LineageOK
<1> QED  BY <1>3, <1>9, <1>11 DEF ColumnsOK

LEMMA PostAccountKeepsColumns ==
  ASSUME IInv, ColumnsOK, NEW link \in Existing \cup {NoTrade}, NEW action \in Actions,
         NEW quantity \in Quantities, NEW at \in AccountTimes,
         PostAccountExecution(link, action, quantity, at)
  PROVE  ColumnsOK'
<1> DEFINE side == IF NetPosition > 0 THEN "long" ELSE "short"
           concrete == IF action \in GenericActions
                         THEN ResolveEconomicExecutionAction(action, side) ELSE action
           row == Row(link, "account", concrete, quantity, at)
<1>1. concrete \in EconomicActions
  BY ResolvedGeneric, ActionsAssumption
<1>2. row \in Rows
  <2> HIDE DEF concrete
  <2> QED  BY <1>1, QuantitiesAssumption, TimesAssumption DEF Row, Rows, Existing
<1>3. /\ executions' = executions \o <<row>> /\ lineage' = lineage
      /\ UNCHANGED <<active, stale, trades, journal>>
  BY DEF PostAccountExecution, AppendExecutions
<1> HIDE DEF row, concrete, side
<1>4. \A i \in DOMAIN executions : i \in DOMAIN executions' /\ executions'[i] = executions[i]
  BY <1>2, <1>3, AppendedRow DEF IInv, TablesOK, Grows
<1>5. Existing' = Existing /\ TradesOK'
  BY <1>3 DEF Existing, ColumnsOK, TradesOK, TradeOK
<1>6. JournalOK' /\ LineageOK'
  BY <1>3, <1>4, <1>5, RowsStayReferred DEF ColumnsOK, JournalOK, LineageOK
<1> QED  BY <1>3, <1>5, <1>6 DEF ColumnsOK

\* A correction adds a lineage row of the trade of the corrected execution.
LEMMA CorrectKeepsReferred ==
  ASSUME IInv, ColumnsOK, NEW x \in DOMAIN executions, CorrectionAppends(x),
         journal' = journal, Existing' = Existing
  PROVE  JournalOK' /\ LineageOK'
<1>1. PICK c : /\ c.original = x /\ lineage' = lineage \cup {c}
               /\ c.replacement \in DOMAIN executions'
               /\ executions'[c.replacement].trade = executions[x].trade
  BY DEF CorrectionAppends
<1>2. \A i \in DOMAIN executions : i \in DOMAIN executions' /\ executions'[i] = executions[i]
  BY DEF CorrectionAppends
<1>3. c.reversal \in DOMAIN executions'
  BY <1>1 DEF CorrectionAppends, Refers
<1>4. LineageOK'
  <2>1. \A d \in lineage :
          /\ {d.original, d.reversal, d.replacement} \subseteq DOMAIN executions'
          /\ executions'[d.original].trade = executions'[d.replacement].trade
    BY <1>2, RowsStayReferred DEF ColumnsOK
  <2>2. /\ {c.original, c.reversal, c.replacement} \subseteq DOMAIN executions'
        /\ executions'[c.original].trade = executions'[c.replacement].trade
    BY <1>1, <1>2, <1>3
  <2> QED  BY <1>1, <2>1, <2>2 DEF LineageOK
<1>5. JournalOK'
  BY <1>2, RowsStayReferred DEF ColumnsOK, JournalOK
<1> QED  BY <1>4, <1>5

LEMMA CorrectTradeKeepsColumns ==
  ASSUME IInv, ColumnsOK, NEW t \in Trades, NEW x \in DOMAIN executions, NEW action \in Actions,
         NEW quantity \in Quantities, NEW requested \in RequestedTimes,
         CorrectTradeExecution(t, x, action, quantity, requested)
  PROVE  ColumnsOK'
<1> DEFINE fills == EffectiveFills(executions', lineage', t)
           status == DeriveStatus(fills, Direction(t))
<1>1. /\ executions[x].trade = t /\ UNCHANGED <<active, stale, journal, bypassed>>
      /\ Correct(x, action, quantity, requested)
  BY DEF CorrectTradeExecution
<1>2. \E repaired \in {quantity, trades[t].snapshot} :
        trades' = [trades EXCEPT ![t] = CorrectedTrade(@, fills, Direction(t), repaired)]
  BY DEF CorrectTradeExecution, IInv, Shape
<1>3. CorrectionAppends(x)
  BY <1>1, CorrectAppends
<1>4. t \in Existing
  BY <1>1, NoTradeAssumption DEF IInv, TablesOK
<1> HIDE DEF fills
<1>5. status \in {"planned", "open", "closed"}
  BY DEF DeriveStatus
<1> HIDE DEF status
<1>6. /\ trades'[t].status = status /\ trades'[t].reviewed = NotReviewed
      /\ trades'[t].snapshot \in {quantity, trades[t].snapshot}
      /\ \A u \in Trades \ {t} : trades'[u] = trades[u]
  BY <1>2 DEF IInv, Shape, CorrectedTrade, status
<1>7. Existing' = Existing
  BY <1>4, <1>5, <1>6 DEF Existing
<1>8. TradesOK'
  <2>1. TradeOK(t)'
    BY <1>5, <1>6, QuantitiesAssumption DEF ColumnsOK, TradesOK, TradeOK, Statuses, NotReviewed
  <2>2. \A u \in Trades \ {t} : TradeOK(u)'
    BY <1>6 DEF ColumnsOK, TradesOK, TradeOK
  <2> QED  BY <2>1, <2>2 DEF TradesOK
<1> QED  BY <1>1, <1>3, <1>7, <1>8, CorrectKeepsReferred DEF ColumnsOK

\* Journal rows of a planned trade are rewritten in place or removed.
LEMMA RewriteKeepsColumns ==
  ASSUME IInv, ColumnsOK, NEW t \in Trades, NEW old \in journal, NEW new,
         \A j \in new : /\ j \in [id : {old.id}, trade : {old.trade},
                                   action : EconomicActions, quantity : Nat \ {0}],
         RewriteJournal(t, old, new)
  PROVE  ColumnsOK'
<1> DEFINE status == DeriveStatus(JournalFills((journal \ {old}) \cup new, t), Direction(t))
<1>1. /\ trades[t].status = "planned"
      /\ trades' = [trades EXCEPT ![t].status = status]
      /\ journal' = (journal \ {old}) \cup new
      /\ UNCHANGED <<active, stale, executions, lineage>>
  BY DEF RewriteJournal
<1>2. status \in {"planned", "open", "closed"}
  BY DEF DeriveStatus
<1> HIDE DEF status
<1>3. /\ trades'[t].status = status /\ trades'[t].reviewed = trades[t].reviewed
      /\ trades'[t].snapshot = trades[t].snapshot
      /\ \A u \in Trades \ {t} : trades'[u] = trades[u]
  BY <1>1 DEF IInv, Shape
<1>4. Existing' = Existing
  BY <1>1, <1>2, <1>3 DEF Existing
<1>5. TradesOK'
  <2>1. TradeOK(t)'
    BY <1>1, <1>2, <1>3 DEF ColumnsOK, TradesOK, TradeOK, Statuses
  <2>2. \A u \in Trades \ {t} : TradeOK(u)'
    BY <1>3 DEF ColumnsOK, TradesOK, TradeOK
  <2> QED  BY <2>1, <2>2 DEF TradesOK
<1>6. \A j \in journal \cup new :
        /\ j \in [id : DOMAIN executions, trade : Existing, action : EconomicActions,
                  quantity : Nat \ {0}]
        /\ executions[j.id].trade = j.trade
  <2>1. old.id \in DOMAIN executions /\ old.trade \in Existing
        /\ executions[old.id].trade = old.trade
    BY DEF ColumnsOK, JournalOK
  <2> QED  BY <2>1 DEF ColumnsOK, JournalOK
<1>7. JournalOK' /\ LineageOK'
  BY <1>1, <1>4, <1>6 DEF ColumnsOK, JournalOK, LineageOK
<1> QED  BY <1>1, <1>5, <1>7 DEF ColumnsOK

\* Steps that touch one trade's columns and nothing else.
LEMMA TradeStepKeepsColumns ==
  ASSUME IInv, ColumnsOK, NEW t \in Trades,
         PlanTrade(t) \/ ScratchTrade(t) \/ GradeTrade(t) \/ ReviewTrade(t) \/ ReopenReview(t)
  PROVE  ColumnsOK'
<1>1. UNCHANGED <<active, stale, journal, executions, lineage>>
  BY DEF PlanTrade, ScratchTrade, GradeTrade, ReviewTrade, ReopenReview
<1>2. /\ TradeOK(t)' /\ (t \in Existing => trades'[t].status # "absent")
      /\ \A u \in Trades \ {t} : trades'[u] = trades[u]
  <2>1. TradeOK(t)
    BY DEF ColumnsOK, TradesOK
  <2>2. CASE PlanTrade(t)
    BY <2>1, <2>2 DEF PlanTrade, TradeOK, Statuses, IInv, Shape
  <2>3. CASE ScratchTrade(t)
    BY <2>1, <2>3 DEF ScratchTrade, TradeOK, Statuses, IInv, Shape
  <2>4. CASE GradeTrade(t)
    BY <2>1, <2>4 DEF GradeTrade, TradeOK, Statuses, IInv, Shape, NotReviewed, Existing
  <2>5. CASE ReviewTrade(t)
    <3>1. /\ trades'[t].status = "closed" /\ trades'[t].snapshot = trades[t].snapshot
          /\ trades'[t].graded /\ trades'[t].reviewed.done
          /\ \A u \in Trades \ {t} : trades'[u] = trades[u]
      BY <2>5 DEF ReviewTrade, IInv, Shape
    <3> QED  BY <2>1, <3>1 DEF TradeOK, Statuses
  <2>6. CASE ReopenReview(t)
    BY <2>1, <2>6 DEF ReopenReview, TradeOK, Statuses, IInv, Shape, NotReviewed
  <2> QED  BY <2>2, <2>3, <2>4, <2>5, <2>6
<1>3. Existing \subseteq Existing'
  BY <1>2 DEF Existing
<1>4. TradesOK'
  BY <1>2 DEF ColumnsOK, TradesOK, TradeOK
<1>5. JournalOK' /\ LineageOK'
  BY <1>1, <1>3, RowsStayReferred DEF ColumnsOK, JournalOK, LineageOK
<1> QED  BY <1>1, <1>4, <1>5 DEF ColumnsOK

LEMMA NextKeepsColumns == IInv /\ ColumnsOK /\ [Next]_vars => ColumnsOK'
<1> SUFFICES ASSUME IInv, ColumnsOK, [Next]_vars  PROVE ColumnsOK'
  OBVIOUS
<1>1. ASSUME NEW t \in Trades,
             PlanTrade(t) \/ ScratchTrade(t) \/ GradeTrade(t) \/ ReviewTrade(t) \/ ReopenReview(t)
      PROVE  ColumnsOK'
  BY <1>1, TradeStepKeepsColumns
<1>2. ASSUME active' \in BOOLEAN, stale' \in BOOLEAN, UNCHANGED <<trades, journal, executions, lineage>>
      PROVE  ColumnsOK'
  BY <1>2 DEF ColumnsOK, TradesOK, TradeOK, JournalOK, LineageOK, Existing
<1>3. ASSUME NEW on \in BOOLEAN, SetActive(on)  PROVE ColumnsOK'
  <2>1. stale' \in BOOLEAN  BY <1>3 DEF SetActive, ColumnsOK
  <2> QED  BY <1>2, <1>3, <2>1 DEF SetActive
<1>4. ASSUME NEW action \in Actions, NEW q \in Quantities, NEW t \in Trades,
             NEW at \in FillTimes, PostTradeFill(t, action, q, at)
      PROVE  ColumnsOK'
  BY <1>4, PostFillKeepsColumns
<1>5. ASSUME NEW action \in Actions, NEW q \in Quantities, NEW link \in Existing \cup {NoTrade},
             NEW at \in AccountTimes, PostAccountExecution(link, action, q, at)
      PROVE  ColumnsOK'
  BY <1>5, PostAccountKeepsColumns
<1>6. ASSUME NEW action \in Actions, NEW q \in Quantities, NEW x \in DOMAIN executions,
             NEW at \in RequestedTimes, CorrectAccountExecution(x, action, q, at)
      PROVE  ColumnsOK'
  <2>1. UNCHANGED <<active, stale, trades, journal>> /\ CorrectionAppends(x)
    BY <1>6, CorrectAppends DEF CorrectAccountExecution
  <2>2. Existing' = Existing /\ TradesOK'
    BY <2>1 DEF Existing, ColumnsOK, TradesOK, TradeOK
  <2> QED  BY <2>1, <2>2, CorrectKeepsReferred DEF ColumnsOK
<1>7. ASSUME NEW action \in Actions, NEW q \in Quantities, NEW x \in DOMAIN executions,
             NEW at \in RequestedTimes, NEW t \in Trades,
             CorrectTradeExecution(t, x, action, q, at)
      PROVE  ColumnsOK'
  BY <1>7, CorrectTradeKeepsColumns
<1>8. ASSUME NEW action \in Actions, NEW q \in Quantities, NEW t \in Trades, NEW j \in journal,
             EditJournalExecution(t, j, action, q)
      PROVE  ColumnsOK'
  <2> DEFINE concrete == IF action \in GenericActions
                           THEN ResolveEconomicExecutionAction(action, Direction(t)) ELSE action
             edited == [j EXCEPT !.action = concrete, !.quantity = q]
  <2>1. j \in [id : DOMAIN executions, trade : Existing, action : EconomicActions,
               quantity : Nat \ {0}]
    BY DEF ColumnsOK, JournalOK
  <2>2. edited \in [id : {j.id}, trade : {j.trade}, action : EconomicActions,
                    quantity : Nat \ {0}]
    <3>1. concrete \in EconomicActions
      BY ResolvedGeneric, ActionsAssumption
    <3> HIDE DEF concrete
    <3> QED  BY <2>1, <3>1, QuantitiesAssumption
  <2>3. RewriteJournal(t, j, {edited})
    BY <1>8 DEF EditJournalExecution
  <2> HIDE DEF edited
  <2> QED  BY <2>2, <2>3, RewriteKeepsColumns
<1>9. ASSUME NEW t \in Trades, NEW j \in journal, DeleteJournalExecution(t, j)
      PROVE  ColumnsOK'
  BY <1>9, RewriteKeepsColumns DEF DeleteJournalExecution
<1>10. CASE UNCHANGED vars
  BY <1>2, <1>10 DEF vars, ColumnsOK
<1> QED  BY <1>1, <1>3, <1>4, <1>5, <1>6, <1>7, <1>8, <1>9, <1>10 DEF Next

\* Every row is one the schema admits, journal and lineage rows refer to rows of
\* their own trade, and review columns agree with the status.
THEOREM TypeCorrect == Spec => []TypeOK
<1>1. Init => ColumnsOK
  <2> SUFFICES ASSUME Init PROVE ColumnsOK
    OBVIOUS
  <2>1. active = FALSE /\ stale = FALSE /\ journal = {} /\ lineage = {} /\ \A t \in Trades : trades[t] = Absent
    BY DEF Init
  <2>2. TradesOK
    BY <2>1 DEF TradesOK, TradeOK, Absent, NotReviewed, Statuses
  <2>3. JournalOK /\ LineageOK
    BY <2>1 DEF JournalOK, LineageOK
  <2> QED  BY <2>1, <2>2, <2>3 DEF ColumnsOK
<1>2. IInv /\ ColumnsOK => TypeOK
  BY DEF IInv, TablesOK, ColumnsOK, TradesOK, JournalOK, LineageOK, TypeOK
<1> QED  BY <1>1, <1>2, NextKeepsColumns, IInvHolds, PTL DEF Spec

-----------------------------------------------------------------------------
(* The wind-down of an inactive account.                                     *)

\* What a crash let be planned in the inactive account never had a fill.
NeverFilled(t) ==
  stale /\ trades[t].status \in {"planned", "deleted"} /\ JournalFills(journal, t) = {}

WoundDown ==
  ~active => \A t \in Existing : trades[t].status = "closed" \/ Corrected(t) \/ NeverFilled(t)

\* Nothing is planned or open in an inactive account unless a correction reopened
\* it, or a crash left the account the default: the routes that create exposure all ask
\* for an active account, and a promotion only plans.
THEOREM WindDown == Spec => []InactiveAccountsAreWoundDown
<1>1. Init => WoundDown
  BY DEF Init, WoundDown, Existing, Absent
<1>2. IInv /\ TypeOK /\ WoundDown /\ [Next]_vars => WoundDown'
  <2> SUFFICES ASSUME IInv, TypeOK, WoundDown, [Next]_vars
               PROVE  WoundDown'
    OBVIOUS
  <2>1. ASSUME NEW t \in Trades, PlanTrade(t)  PROVE WoundDown'
    <3>1. /\ UNCHANGED <<active, stale, journal, executions, lineage>> /\ (active \/ stale)
          /\ trades'[t].status = "planned"
          /\ \A u \in Trades \ {t} : trades'[u].status = trades[u].status
      BY <2>1 DEF PlanTrade, IInv, Shape
    <3>2. JournalFills(journal, t) = {}
      BY <2>1 DEF PlanTrade, TypeOK, JournalFills, Existing
    <3> QED  BY <3>1, <3>2 DEF WoundDown, Existing, Corrected, NeverFilled
  <2>2. ASSUME NEW t \in Trades, GradeTrade(t) \/ ReviewTrade(t) \/ ReopenReview(t)
        PROVE  WoundDown'
    <3>1. /\ UNCHANGED <<active, stale, journal, executions, lineage>>
          /\ \A u \in Trades : trades'[u].status = trades[u].status
      BY <2>2 DEF GradeTrade, ReviewTrade, ReopenReview, IInv, Shape
    <3> QED  BY <3>1 DEF WoundDown, Existing, Corrected, NeverFilled
  <2>3. ASSUME NEW on \in BOOLEAN, SetActive(on)  PROVE WoundDown'
    BY <2>3 DEF SetActive, MaySwitch, WoundDown, Existing
  <2>4. ASSUME NEW t \in Trades, ScratchTrade(t)  PROVE WoundDown'
    <3>1. /\ UNCHANGED <<active, stale, journal, executions, lineage>>
          /\ trades[t].status = "planned" /\ trades'[t].status = "deleted"
          /\ \A u \in Trades \ {t} : trades'[u].status = trades[u].status
      BY <2>4 DEF ScratchTrade, IInv, Shape
    <3> QED  BY <3>1 DEF WoundDown, Existing, Corrected, NeverFilled
  <2>5. ASSUME NEW action \in Actions, NEW q \in Quantities, NEW t \in Trades,
               NEW at \in FillTimes, PostTradeFill(t, action, q, at)
        PROVE  WoundDown'
    BY <2>5 DEF PostTradeFill, WoundDown
  <2>6. ASSUME NEW action \in Actions, NEW q \in Quantities, NEW link \in Existing \cup {NoTrade},
               NEW at \in AccountTimes, PostAccountExecution(link, action, q, at)
        PROVE  WoundDown'
    BY <2>6 DEF PostAccountExecution, WoundDown
  <2>7. ASSUME NEW action \in Actions, NEW q \in Quantities, NEW x \in DOMAIN executions,
               NEW at \in RequestedTimes,
               \/ \E t \in Trades : CorrectTradeExecution(t, x, action, q, at)
               \/ CorrectAccountExecution(x, action, q, at)
        PROVE  WoundDown'
    <3>1. CorrectionAppends(x)
      BY <2>7, CorrectAppends DEF CorrectTradeExecution, CorrectAccountExecution
    <3>2. /\ UNCHANGED <<active, stale, journal>>
          /\ \A u \in Trades : executions[x].trade # u => trades'[u] = trades[u]
      BY <2>7 DEF CorrectTradeExecution, CorrectAccountExecution, IInv, Shape
    <3>3. \A u \in Trades : Corrected(u) => Corrected(u)'
      BY <3>1, CorrectedStays DEF CorrectionAppends
    <3>4. ASSUME NEW u \in Trades, executions[x].trade = u  PROVE Corrected(u)'
      BY <3>1, <3>4 DEF Corrected, CorrectionAppends
    <3> QED  BY <3>2, <3>3, <3>4 DEF WoundDown, Existing, NeverFilled
  <2>8. ASSUME NEW t \in Trades, NEW j \in journal, NEW new, RewriteJournal(t, j, new),
               \A n \in new : n.trade = t /\ j.trade = t
        PROVE  WoundDown'
    <3>1. /\ UNCHANGED <<active, stale, executions, lineage>>
          /\ trades[t].status = "planned"
          /\ trades'[t].status = DeriveStatus(JournalFills(journal', t), Direction(t))
          /\ \A u \in Trades \ {t} : trades'[u].status = trades[u].status
      BY <2>8 DEF RewriteJournal, IInv, Shape
    <3>2. journal' = (journal \ {j}) \cup new  BY <2>8 DEF RewriteJournal
    <3>3. ASSUME NEW u \in Trades, JournalFills(journal, u) = {}
          PROVE  JournalFills(journal', u) = {}
      BY <2>8, <3>2, <3>3 DEF JournalFills
    <3>4. JournalFills(journal, t) = {} => trades'[t].status = "planned"
      BY <3>1, <3>3, NoFillsPlanned
    <3>5. \A u \in Trades : Corrected(u)' <=> Corrected(u)  BY <3>1 DEF Corrected
    <3>6. \A u \in Trades : NeverFilled(u) => NeverFilled(u)'
      BY <3>1, <3>3, <3>4 DEF NeverFilled
    <3>7. ASSUME ~active', NEW u \in Existing'
          PROVE  trades'[u].status = "closed" \/ Corrected(u)' \/ NeverFilled(u)'
      <4>1. u \in Trades  BY <3>7 DEF Existing
      <4>2. CASE u = t
        <5>1. t \in Existing /\ trades[t].status # "closed"  BY <3>1 DEF Existing
        <5> QED  BY <3>1, <3>5, <3>6, <3>7, <4>2, <5>1 DEF WoundDown
      <4>3. CASE u # t
        <5>1. u \in Existing  BY <3>1, <3>7, <4>1, <4>3 DEF Existing
        <5> QED  BY <3>1, <3>5, <3>6, <3>7, <4>1, <4>3, <5>1 DEF WoundDown
      <4> QED  BY <4>2, <4>3
    <3> QED  BY <3>7 DEF WoundDown
  <2>9. CASE UNCHANGED vars
    BY <2>9 DEF vars, WoundDown, Existing, Corrected, NeverFilled
  <2>10. ASSUME NEW t \in Trades, NEW j \in journal, NEW action, NEW q,
                EditJournalExecution(t, j, action, q)
         PROVE  WoundDown'
    <3> DEFINE concrete == IF action \in GenericActions
                             THEN ResolveEconomicExecutionAction(action, Direction(t)) ELSE action
               edited == [j EXCEPT !.action = concrete, !.quantity = q]
    <3>1. edited.trade = t /\ j.trade = t
      BY <2>10 DEF EditJournalExecution, TypeOK
    <3>2. RewriteJournal(t, j, {edited})  BY <2>10 DEF EditJournalExecution
    <3> HIDE DEF edited
    <3> QED  BY <2>8, <3>1, <3>2
  <2>11. ASSUME NEW t \in Trades, NEW j \in journal, DeleteJournalExecution(t, j)
         PROVE  WoundDown'
    BY <2>8, <2>11 DEF DeleteJournalExecution
  <2> QED  BY <2>1, <2>2, <2>3, <2>4, <2>5, <2>6, <2>7, <2>9, <2>10, <2>11 DEF Next
<1>3. WoundDown => InactiveAccountsAreWoundDown
  BY DEF WoundDown, InactiveAccountsAreWoundDown, NeverFilled
<1> QED  BY <1>1, <1>2, <1>3, IInvHolds, TypeCorrect, PTL DEF Spec
=============================================================================
