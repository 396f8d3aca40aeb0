-------------------------- MODULE MaintenanceProofs --------------------------
(***************************************************************************)
(* The maintenance of the accounting record, for any journal, any rows     *)
(* older releases left, any transactions, considerations, fees and bounds, *)
(* and repairs interrupted anywhere.                                       *)
(***************************************************************************)
EXTENDS Maintenance, TableLemmas

-----------------------------------------------------------------------------
(* The inductive invariant *)

\* Each key names a row of the journal, or one that was there before it.
KeysNameJournalRows ==
  \A x \in DOMAIN executions : executions[x].key # NoKey =>
    executions[x].key.of \in DOMAIN journal \/ executions[x].key.of > MaxJournal

\* The rows corrections produced.
Constituents == Reversals \cup Replacements

\* A row is taken back by one that moves the same cash the other way.
TakesBack(r, x) == (IsAlias(x) => Linked(x)) /\ Economic(r) = -Economic(x)

\* A correction appends its reversal and its replacement, concrete rows without a
\* key; what it supersedes is older and no such row.
CorrectionsAppend ==
  /\ \A c \in lineage :
       /\ c.original < c.reversal
       /\ c.replacement = c.reversal + 1
       /\ TakesBack(c.reversal, c.original)
  /\ \A c, d \in lineage : c # d => c.reversal \notin {d.reversal, d.replacement}
                                      /\ c.replacement # d.replacement
  /\ Originals \cap Constituents = {}
  /\ \A x \in Constituents : ~IsAlias(x) /\ executions[x].key = NoKey

\* Only a row overtaken between a check and its transaction is superseded twice.
TwiceOnlyIfOvertaken ==
  \A c, d \in lineage : c # d /\ c.original = d.original => c.original \in overtaken

\* And none three times: a row that one side has still to correct was superseded
\* once at most, one that both have was not.
NeverThrice ==
  /\ \A c, d, e \in lineage :
       c.original = d.original /\ d.original = e.original => c = d \/ d = e \/ c = e
  /\ \A c, d \in lineage :
       c.original = d.original /\ (c.original = aliasRow \/ c.original = correcting) => c = d
  /\ aliasRow = correcting /\ aliasRow # NoRow => aliasRow \notin Originals

\* The alias repair visits aliases; the row it has checked, and the one the server
\* has, was not corrected, or is overtaken.
ChecksStand ==
  /\ \A x \in aliasQueue : IsAlias(x)
  /\ aliasRow # NoRow =>
       /\ IsAlias(aliasRow) /\ Linked(aliasRow)
       /\ aliasRow \in Originals => aliasRow \in overtaken
  /\ correcting # NoRow =>
       /\ MayCorrect(correcting) /\ correcting \notin Constituents
       /\ correcting \in Originals => correcting \in overtaken

\* What the events of an execution say of it.
EventsMatchRows ==
  \A x \in DOMAIN executions :
    /\ executions[x].refunded <= executions[x].charged
    /\ executions[x].refunded # 0 => x \in Originals
    /\ x \in Reversals => executions[x].charged = 0
    /\ executions[x].compensated # 0 => Inverted(x)

IInv ==
  /\ TypeOK
  /\ ImportedOnce
  /\ KeysNameJournalRows
  /\ CorrectionsAppend
  /\ TwiceOnlyIfOvertaken
  /\ NeverThrice
  /\ ChecksStand
  /\ EventsMatchRows

-----------------------------------------------------------------------------
(* Rows *)

\* What an execution is, as against the events it has had.
SameFill(r, s) ==
  /\ r.direction = s.direction /\ r.action = s.action
  /\ r.gross = s.gross /\ r.fees = s.fees /\ r.key = s.key

\* Rows are appended, and of those there were only the events change.
Grown ==
  /\ DOMAIN executions \subseteq DOMAIN executions'
  /\ \A x \in DOMAIN executions : SameFill(executions'[x], executions[x])

\* The concrete action of a resolvable one, and the action that reverses it.
LEMMA Resolves ==
  ASSUME NEW action, NEW direction \in Directions, Resolvable(action, direction),
         NEW concrete, concrete = ResolveEconomicExecutionAction(action, direction)
  PROVE  /\ concrete \in EconomicActions /\ concrete \notin GenericActions
         /\ Resolvable(ReverseAction(concrete), direction)
         /\ ReverseAction(concrete) \in EconomicActions
         /\ ResolveEconomicExecutionAction(ReverseAction(concrete), direction)
              = ReverseAction(concrete)
BY DEF Resolvable, ResolveEconomicExecutionAction, EconomicMap, LongEconomicMap, ShortEconomicMap,
       EconomicActions, GenericActions, ReverseAction, Directions

\* Reversing a concrete action turns the cash around.
LEMMA Reverses ==
  ASSUME NEW action \in EconomicActions
  PROVE  /\ ReverseAction(action) \in EconomicActions
         /\ CashDirection(ReverseAction(action)) = Opposite(CashDirection(action))
BY DEF EconomicActions, ReverseAction, CashDirection, Opposite

\* An alias resolves on either side.
LEMMA AliasesResolve ==
  ASSUME NEW action \in GenericActions, NEW direction \in Directions
  PROVE  Resolvable(action, direction)
BY DEF Resolvable, EconomicMap, LongEconomicMap, ShortEconomicMap, GenericActions

\* The opposite amount.
LEMMA SignedOpposite ==
  ASSUME NEW direction \in {"increase", "decrease"}, NEW amount \in Int
  PROVE  /\ Signed(direction, amount) \in Int
         /\ Signed(Opposite(direction), amount) = -Signed(direction, amount)
         /\ Opposite(direction) \in {"increase", "decrease"}
BY DEF Signed, Opposite

\* A row as it is posted.
NewRow(row, direction, action, gross, fees, key) ==
  /\ row \in Rows
  /\ row.direction = direction /\ row.action = action /\ row.gross = gross
  /\ row.fees = fees /\ row.key = key
  /\ row.refunded = 0 /\ row.compensated = 0

Postable(direction, action, gross, fees, key) ==
  /\ direction \in Directions \cup {"none"} /\ action \in JournalActions
  /\ gross \in Nat /\ fees \in Nat
  /\ key \in [kind : {"none", "migrated", "engine"}, of : Nat]

\* A new row is one the schema admits.
LEMMA NewFill ==
  ASSUME NEW direction, NEW action, NEW gross, NEW fees, NEW key,
         Postable(direction, action, gross, fees, key)
  PROVE  /\ NewRow(Fill(direction, action, gross, fees, key), direction, action, gross, fees, key)
         /\ Fill(direction, action, gross, fees, key).charged = 0
         /\ NewRow(SettledFill(direction, action, gross, fees, key),
                   direction, action, gross, fees, key)
<1> DEFINE stored == CashDirection(action)
           keyed == key.kind # "migrated"
           made(charged) == [direction |-> direction, action |-> action, gross |-> gross, fees |-> fees,
                             key |-> key, stored |-> stored, keyed |-> keyed, charged |-> charged,
                             refunded |-> 0, compensated |-> 0]
           fee == IF fees > 0 THEN 1 ELSE 0
<1>1. Fill(direction, action, gross, fees, key) = made(0)  BY DEF Fill
<1>2. SettledFill(direction, action, gross, fees, key) = made(fee)  BY <1>1 DEF SettledFill
<1>3. stored \in {"increase", "decrease"} /\ keyed \in BOOLEAN /\ fee \in 0 .. 1
  BY DEF CashDirection
<1> HIDE DEF stored, keyed, fee
<1>4. \A charged \in 0 .. 1 : made(charged) \in Rows
  BY <1>3 DEF Rows, Postable
<1>5. \A charged \in 0 .. 1 : NewRow(made(charged), direction, action, gross, fees, key)
  BY <1>4 DEF NewRow
<1> QED  BY <1>1, <1>2, <1>3, <1>5

\* What is read of a row does not depend on its events.
LEMMA SameReading ==
  ASSUME NEW x, SameFill(executions'[x], executions[x])
  PROVE  /\ IsAlias(x)' <=> IsAlias(x)
         /\ Linked(x)' <=> Linked(x)
         /\ Concrete(x)' = Concrete(x)
         /\ Inverted(x)' <=> Inverted(x)
         /\ (IsAlias(x) => Linked(x)) => Economic(x)' = Economic(x)
<1>1. executions'[x].action = executions[x].action /\ executions'[x].direction = executions[x].direction
      /\ executions'[x].gross = executions[x].gross
  BY DEF SameFill
<1>2. (IsAlias(x)' <=> IsAlias(x)) /\ (Linked(x)' <=> Linked(x))
  BY <1>1 DEF IsAlias, Linked
<1>3. Concrete(x)' = Concrete(x)  BY <1>1, <1>2 DEF Concrete
<1>4. Inverted(x)' <=> Inverted(x)  BY <1>1, <1>2, <1>3 DEF Inverted
<1>5. (IsAlias(x) => Linked(x)) => Economic(x)' = Economic(x)
  BY <1>1, <1>2, <1>3 DEF Economic, EconomicDirection
<1> QED  BY <1>2, <1>3, <1>4, <1>5

\* The concrete action of a row that may be corrected.
LEMMA ConcreteAction ==
  ASSUME TypeOK, NEW x \in DOMAIN executions,
         IF Linked(x) THEN Resolvable(executions[x].action, executions[x].direction)
                      ELSE ~IsAlias(x)
  PROVE  /\ Concrete(x) \in EconomicActions /\ Concrete(x) \notin GenericActions
         /\ Linked(x) =>
              /\ executions[x].direction \in Directions
              /\ Resolvable(ReverseAction(Concrete(x)), executions[x].direction)
              /\ ResolveEconomicExecutionAction(ReverseAction(Concrete(x)), executions[x].direction)
                   = ReverseAction(Concrete(x))
<1>1. executions[x] \in Rows  BY DEF TypeOK
<1>2. CASE Linked(x)
  <2>1. executions[x].direction \in Directions  BY <1>1, <1>2 DEF Rows, Linked
  <2> QED  BY <1>2, <2>1, Resolves DEF Concrete
<1>3. CASE ~Linked(x)
  <2>1. Concrete(x) = executions[x].action  BY <1>3 DEF Concrete
  <2>2. executions[x].action \in JournalActions /\ executions[x].action \notin GenericActions
    BY <1>1, <1>3 DEF Rows, IsAlias
  <2> QED  BY <1>3, <2>1, <2>2 DEF JournalActions
<1> QED  BY <1>2, <1>3

-----------------------------------------------------------------------------
(* Corrections *)

\* The correction of the row x, appended to n rows.
Correction(x, n) == [original |-> x, reversal |-> n + 1, replacement |-> n + 2]

\* What a correction of the row x leaves, where there were n rows.
Corrected(x, n) ==
  /\ Grown
  /\ executions' \in Seq(Rows) /\ DOMAIN executions' = 1 .. (n + 2)
  /\ executions'[n + 1].key = NoKey /\ executions'[n + 1].action \notin GenericActions
  /\ executions'[n + 1].charged = 0 /\ executions'[n + 1].refunded = 0
  /\ executions'[n + 1].compensated = 0
  /\ Economic(n + 1)' = -Economic(x)
  /\ lineage' = lineage \cup {Correction(x, n)}

LEMMA TableShape ==
  ASSUME TypeOK
  PROVE  /\ Len(executions) \in Nat /\ DOMAIN executions = 1 .. Len(executions)
         /\ \A x \in DOMAIN executions : executions[x] \in Rows
         /\ \A c \in lineage : /\ c.original \in DOMAIN executions
                               /\ c.reversal \in DOMAIN executions
                               /\ c.replacement \in DOMAIN executions
                               /\ c = [original |-> c.original, reversal |-> c.reversal,
                                       replacement |-> c.replacement]
BY DEF TypeOK

\* A correction appends a row that takes the first one back, and its replacement.
LEMMA CorrectionMade ==
  ASSUME TypeOK, NEW x \in DOMAIN executions, MayCorrect(x), NEW n, n = Len(executions),
         NEW rows \in Seq(Rows), Len(rows) = n,
         \A i \in DOMAIN executions : SameFill(rows[i], executions[i]),
         NEW replacement \in Rows, AppendCorrection(x, rows, replacement)
  PROVE  /\ Corrected(x, n)
         /\ \A i \in DOMAIN executions : executions'[i] = rows[i]
         /\ executions'[n + 2] = replacement
<1> DEFINE row == executions[x]
           concrete == Concrete(x)
           reversed == ReverseAction(concrete)
           reversal == Fill(row.direction, reversed, row.gross, row.fees, NoKey)
           pair == <<reversal, replacement>>
<1>1. n \in Nat /\ DOMAIN executions = 1 .. n /\ row \in Rows  BY TableShape
<1>2. /\ concrete \in EconomicActions /\ concrete \notin GenericActions
      /\ Linked(x) =>
           /\ row.direction \in Directions
           /\ ResolveEconomicExecutionAction(reversed, row.direction) = reversed
  BY ConcreteAction DEF MayCorrect
<1>3. executions' = rows \o pair /\ lineage' = lineage \cup {Correction(x, n)}
  BY DEF AppendCorrection, Correction
<1> HIDE DEF concrete
<1>4. reversed \in EconomicActions /\ CashDirection(reversed) = Opposite(CashDirection(concrete))
  BY <1>2, Reverses
<1> HIDE DEF reversed
<1>5. NoKey \in [kind : {"none", "migrated", "engine"}, of : Nat]  BY DEF NoKey
<1>6. reversed \in JournalActions /\ reversed \notin GenericActions
  BY <1>4 DEF JournalActions, EconomicActions, GenericActions
<1>7. NewRow(reversal, row.direction, reversed, row.gross, row.fees, NoKey) /\ reversal.charged = 0
  <2>1. Postable(row.direction, reversed, row.gross, row.fees, NoKey)
    BY <1>1, <1>5, <1>6 DEF Rows, Postable
  <2> HIDE DEF row
  <2> QED  BY <2>1, NewFill
<1> HIDE DEF reversal
<1>8. pair \in Seq(Rows) /\ Len(pair) = 2 /\ pair[1] = reversal /\ pair[2] = replacement
  BY <1>7 DEF NewRow
<1> HIDE DEF pair
<1>9. /\ executions' \in Seq(Rows) /\ DOMAIN executions' = 1 .. (n + 2)
      /\ \A i \in 1 .. n : executions'[i] = rows[i]
      /\ executions'[n + 1] = reversal /\ executions'[n + 2] = replacement
  <2>1. DOMAIN pair = 1 .. 2 /\ DOMAIN rows = 1 .. n  BY <1>1, <1>8
  <2>2. rows \in Seq(Rows) /\ pair \in Seq(Rows)  BY <1>8
  <2>3. rows \o pair \in Seq(Rows)  BY <2>2, AppendedRows
  <2>4. DOMAIN (rows \o pair) = 1 .. (Len(rows) + Len(pair))  BY <2>2, AppendedRows
  <2>5. \A i \in DOMAIN rows : (rows \o pair)[i] = rows[i]  BY <2>2, AppendedRows
  <2>6. \A j \in DOMAIN pair : (rows \o pair)[Len(rows) + j] = pair[j]  BY <2>2, AppendedRows
  <2> QED  BY <1>3, <1>8, <2>1, <2>3, <2>4, <2>5, <2>6
<1>10. Grown  BY <1>1, <1>9 DEF Grown
<1>11. Economic(n + 1)' = -Economic(x)
  <2>1. (IsAlias(n + 1)' <=> FALSE) /\ (Linked(n + 1)' <=> Linked(x))
    BY <1>6, <1>7, <1>9 DEF IsAlias, Linked, NewRow
  <2>2. Concrete(n + 1)' = reversed
    <3>1. Concrete(n + 1)' = IF Linked(x)
            THEN ResolveEconomicExecutionAction(reversed, row.direction) ELSE reversed
      BY <1>7, <1>9, <2>1 DEF Concrete, NewRow
    <3> QED  BY <1>2, <3>1
  <2>3. EconomicDirection(n + 1)' = CashDirection(reversed)
    BY <2>1, <2>2 DEF EconomicDirection
  <2>4. EconomicDirection(x) = CashDirection(concrete)
    BY DEF EconomicDirection, MayCorrect, concrete
  <2>5. row.gross \in Int /\ CashDirection(concrete) \in {"increase", "decrease"}
    BY <1>1 DEF Rows, CashDirection
  <2>6. Economic(n + 1)' = Signed(Opposite(CashDirection(concrete)), row.gross)
    BY <1>4, <1>7, <1>9, <2>3 DEF Economic, NewRow
  <2>7. Economic(x) = Signed(CashDirection(concrete), row.gross)  BY <2>4 DEF Economic
  <2> QED  BY <2>5, <2>6, <2>7, SignedOpposite
<1>12. /\ executions'[n + 1].key = NoKey /\ executions'[n + 1].action \notin GenericActions
       /\ executions'[n + 1].charged = 0 /\ executions'[n + 1].refunded = 0
       /\ executions'[n + 1].compensated = 0
  BY <1>6, <1>7, <1>9 DEF NewRow
<1> QED  BY <1>1, <1>3, <1>9, <1>10, <1>11, <1>12 DEF Corrected

\* Whatever happens to events, and whatever is appended, corrections stay what they are.
LEMMA CorrectionsKept ==
  ASSUME TypeOK, CorrectionsAppend, Grown, lineage' = lineage
  PROVE  CorrectionsAppend'
<1>1. Originals' = Originals /\ Reversals' = Reversals /\ Replacements' = Replacements
      /\ Constituents' = Constituents
  BY DEF Originals, Reversals, Replacements, Constituents
<1>2. \A x \in Constituents : x \in DOMAIN executions /\ SameFill(executions'[x], executions[x])
  BY TableShape DEF Constituents, Reversals, Replacements, Grown
<1>3. \A x \in Constituents' : ~IsAlias(x)' /\ executions'[x].key = NoKey
  BY <1>1, <1>2, SameReading DEF CorrectionsAppend, SameFill
<1>4. ASSUME NEW c \in lineage PROVE TakesBack(c.reversal, c.original)'
  <2>1. SameFill(executions'[c.reversal], executions[c.reversal])
        /\ SameFill(executions'[c.original], executions[c.original])
    BY TableShape DEF Grown
  <2>2. ~IsAlias(c.reversal)  BY DEF CorrectionsAppend, Constituents, Reversals
  <2>3. TakesBack(c.reversal, c.original)  BY DEF CorrectionsAppend
  <2>4. Economic(c.reversal)' = Economic(c.reversal)  BY <2>1, <2>2, SameReading
  <2>5. /\ Economic(c.original)' = Economic(c.original)
        /\ (IsAlias(c.original) => Linked(c.original))'
    BY <2>1, <2>3, SameReading DEF TakesBack
  <2> QED  BY <2>3, <2>4, <2>5 DEF TakesBack
<1> QED  BY <1>1, <1>3, <1>4 DEF CorrectionsAppend

\* A correction of a row that is itself no reversal and no replacement is one more
\* of the same shape.
LEMMA CorrectionsGrow ==
  ASSUME TypeOK, CorrectionsAppend, NEW x \in DOMAIN executions, NEW n, n = Len(executions),
         x \notin Constituents, IsAlias(x) => Linked(x), Corrected(x, n),
         executions'[n + 2].key = NoKey, executions'[n + 2].action \notin GenericActions
  PROVE  CorrectionsAppend'
<1> DEFINE new == Correction(x, n)
<1>1. n \in Nat /\ DOMAIN executions = 1 .. n /\ x \in 1 .. n  BY TableShape
<1>2. /\ new.original = x /\ new.reversal = n + 1 /\ new.replacement = n + 2
      /\ lineage' = lineage \cup {new} /\ Grown
      /\ Economic(n + 1)' = -Economic(x)
      /\ executions'[n + 1].key = NoKey /\ executions'[n + 1].action \notin GenericActions
  BY DEF Corrected, Correction
<1> HIDE DEF new
<1>3. \A c \in lineage : c.original \in 1 .. n /\ c.reversal \in 1 .. n /\ c.replacement \in 1 .. n
  BY <1>1, TableShape
<1>4. Originals' = Originals \cup {x} /\ Constituents' = Constituents \cup {n + 1, n + 2}
      /\ Originals \subseteq 1 .. n /\ Constituents \subseteq 1 .. n
  BY <1>2, <1>3 DEF Originals, Reversals, Replacements, Constituents
<1>5. Originals' \cap Constituents' = {}
  <2>1. Originals \cap Constituents = {}  BY DEF CorrectionsAppend
  <2>2. \A y \in Originals : y \notin Constituents /\ y # n + 1 /\ y # n + 2
    BY <1>1, <1>4, <2>1
  <2>3. x \notin Constituents /\ x # n + 1 /\ x # n + 2  BY <1>1
  <2> HIDE DEF Constituents
  <2> QED  BY <1>4, <2>2, <2>3
<1>6. \A c, d \in lineage' : c # d => c.reversal \notin {d.reversal, d.replacement}
                                        /\ c.replacement # d.replacement
  BY <1>1, <1>2, <1>3 DEF CorrectionsAppend
<1>7. ASSUME NEW y \in Constituents' PROVE ~IsAlias(y)' /\ executions'[y].key = NoKey
  <2>1. CASE y \in Constituents
    <3>1. SameFill(executions'[y], executions[y])  BY <1>1, <1>2, <1>4, <2>1 DEF Grown
    <3> QED  BY <2>1, <3>1, SameReading DEF CorrectionsAppend, SameFill
  <2>2. CASE y \in {n + 1, n + 2}  BY <1>2, <2>2 DEF IsAlias
  <2> QED  BY <1>4, <2>1, <2>2
<1>8. ASSUME NEW c \in lineage' PROVE TakesBack(c.reversal, c.original)'
  <2>1. CASE c \in lineage
    <3>1. SameFill(executions'[c.reversal], executions[c.reversal])
          /\ SameFill(executions'[c.original], executions[c.original])
      BY <1>1, <1>2, <1>3, <2>1 DEF Grown
    <3>2. ~IsAlias(c.reversal)  BY <2>1 DEF CorrectionsAppend, Constituents, Reversals
    <3>3. TakesBack(c.reversal, c.original)  BY <2>1 DEF CorrectionsAppend
    <3>4. Economic(c.reversal)' = Economic(c.reversal)  BY <3>1, <3>2, SameReading
    <3>5. /\ Economic(c.original)' = Economic(c.original)
          /\ (IsAlias(c.original) => Linked(c.original))'
      BY <3>1, <3>3, SameReading DEF TakesBack
    <3> QED  BY <3>3, <3>4, <3>5 DEF TakesBack
  <2>2. CASE c = new
    <3>1. SameFill(executions'[x], executions[x])  BY <1>2 DEF Grown
    <3>2. Economic(x)' = Economic(x) /\ (IsAlias(x) => Linked(x))'  BY <3>1, SameReading
    <3> QED  BY <1>2, <2>2, <3>2 DEF TakesBack
  <2> QED  BY <1>2, <2>1, <2>2
<1>9. \A c \in lineage' : c.original < c.reversal /\ c.replacement = c.reversal + 1
  BY <1>1, <1>2, <1>3 DEF CorrectionsAppend
<1> QED  BY <1>5, <1>6, <1>7, <1>8, <1>9 DEF CorrectionsAppend

-----------------------------------------------------------------------------
(* The other parts of the invariant *)

\* Rows without a key leave the keys as they were.
LEMMA KeysKept ==
  ASSUME TypeOK, KeysDiffer(executions), KeysNameJournalRows, Grown,
         DOMAIN journal \subseteq DOMAIN journal',
         \A x \in DOMAIN executions' \ DOMAIN executions : executions'[x].key = NoKey
  PROVE  KeysDiffer(executions)' /\ KeysNameJournalRows'
<1>1. \A x \in DOMAIN executions : executions'[x].key = executions[x].key
  BY DEF Grown, SameFill
<1> QED  BY <1>1 DEF KeysDiffer, KeysNameJournalRows

\* Events are added where they belong.
EventsAdded ==
  /\ \A x \in DOMAIN executions :
       /\ executions'[x].refunded = executions[x].refunded
       /\ executions'[x].charged = executions[x].charged \/ (x \in Effective /\ executions'[x].charged = 1)
       /\ executions'[x].compensated = executions[x].compensated \/ Inverted(x)
  /\ \A x \in DOMAIN executions' \ DOMAIN executions :
       executions'[x].refunded = 0 /\ executions'[x].compensated = 0

LEMMA EventsKept ==
  ASSUME TypeOK, EventsMatchRows, Grown, lineage' = lineage, executions' \in Seq(Rows), EventsAdded
  PROVE  EventsMatchRows'
<1>1. Originals' = Originals /\ Reversals' = Reversals /\ Reversals \subseteq DOMAIN executions
  BY TableShape DEF Originals, Reversals
<1>2. \A x \in DOMAIN executions' : executions'[x] \in Rows  OBVIOUS
<1>3. ASSUME NEW x \in DOMAIN executions
      PROVE  /\ executions'[x].refunded <= executions'[x].charged
             /\ executions'[x].refunded # 0 => x \in Originals
             /\ x \in Reversals => executions'[x].charged = 0
             /\ executions'[x].compensated # 0 => Inverted(x)'
  <2>1. executions[x] \in Rows /\ SameFill(executions'[x], executions[x])
    BY TableShape DEF Grown
  <2>2. Inverted(x)' <=> Inverted(x)  BY <2>1, SameReading
  <2>3. executions[x].refunded \in 0 .. 1 /\ executions[x].charged \in 0 .. 1  BY <2>1 DEF Rows
  <2>4. x \in Effective => x \notin Reversals  BY DEF Effective
  <2> QED  BY <2>2, <2>3, <2>4 DEF EventsAdded, EventsMatchRows
<1>4. ASSUME NEW x \in DOMAIN executions' \ DOMAIN executions
      PROVE  /\ executions'[x].refunded <= executions'[x].charged
             /\ executions'[x].refunded = 0 /\ x \notin Reversals
             /\ executions'[x].compensated = 0
  <2>1. executions'[x].charged \in 0 .. 1  BY <1>2 DEF Rows
  <2> QED  BY <1>1, <2>1 DEF EventsAdded
<1> QED  BY <1>1, <1>3, <1>4 DEF EventsMatchRows

\* The alias repair's list stays one of aliases, and what was checked stands.
LEMMA ChecksKept ==
  ASSUME TypeOK, ChecksStand, Grown, aliasQueue' \subseteq aliasQueue,
         aliasRow' \in {aliasRow, NoRow}, correcting' \in {correcting, NoRow},
         overtaken \subseteq overtaken',
         aliasRow' \in Originals' => aliasRow' \in Originals \/ aliasRow' \in overtaken',
         correcting' \in Originals' => correcting' \in Originals \/ correcting' \in overtaken',
         correcting' \in Constituents' => correcting' \in Constituents \cup {NoRow}
  PROVE  ChecksStand'
<1>1. ASSUME NEW x, x \in DOMAIN executions
      PROVE  (IsAlias(x)' <=> IsAlias(x)) /\ (Linked(x)' <=> Linked(x))
  BY <1>1, SameReading DEF Grown
<1>2. /\ aliasQueue \subseteq DOMAIN executions
      /\ aliasRow \in DOMAIN executions \cup {NoRow} /\ correcting \in DOMAIN executions \cup {NoRow}
  BY DEF TypeOK
<1>3. \A x \in aliasQueue' : IsAlias(x)'  BY <1>1, <1>2 DEF ChecksStand
<1>4. ASSUME aliasRow' # NoRow
      PROVE  IsAlias(aliasRow)' /\ Linked(aliasRow)'
             /\ (aliasRow' \in Originals' => aliasRow' \in overtaken')
  <2>1. aliasRow' = aliasRow /\ aliasRow \in DOMAIN executions /\ aliasRow # NoRow  BY <1>2, <1>4
  <2>2. PICK x \in DOMAIN executions : x = aliasRow  BY <2>1
  <2>3. IsAlias(x) /\ Linked(x)  BY <2>1, <2>2 DEF ChecksStand
  <2>4. IsAlias(x)' /\ Linked(x)'  BY <1>1, <2>3
  <2>5. x = aliasRow'  BY <2>1, <2>2
  <2>6. IsAlias(aliasRow)' /\ Linked(aliasRow)'  BY <2>4, <2>5 DEF IsAlias, Linked
  <2> QED  BY <2>1, <2>6 DEF ChecksStand
<1>5. ASSUME correcting' # NoRow
      PROVE  MayCorrect(correcting)' /\ correcting' \notin Constituents'
             /\ (correcting' \in Originals' => correcting' \in overtaken')
  <2>1. correcting' = correcting /\ correcting \in DOMAIN executions /\ correcting # NoRow
    BY <1>2, <1>5
  <2>2. PICK x \in DOMAIN executions : x = correcting  BY <2>1
  <2>3. MayCorrect(x)  BY <2>1, <2>2 DEF ChecksStand
  <2>4. SameFill(executions'[x], executions[x])  BY DEF Grown
  <2>5. MayCorrect(x)'  BY <1>1, <2>3, <2>4 DEF MayCorrect, SameFill
  <2>6. x = correcting'  BY <2>1, <2>2
  <2>7. MayCorrect(correcting)'  BY <2>5, <2>6 DEF MayCorrect, IsAlias, Linked
  <2> QED  BY <1>5, <2>1, <2>7 DEF ChecksStand
<1> QED  BY <1>3, <1>4, <1>5 DEF ChecksStand

\* No row is superseded by a check, nor by the end of a process.
LEMMA ThriceKept ==
  ASSUME NeverThrice, UNCHANGED lineage,
         aliasRow' = aliasRow \/ aliasRow' \notin Originals,
         correcting' = correcting \/ correcting' \notin Originals
  PROVE  NeverThrice'
<1>1. Originals' = Originals /\ \A c \in lineage : c.original \in Originals  BY DEF Originals
<1> QED  BY <1>1 DEF NeverThrice

\* A correction of a row that was checked uses that check up.
LEMMA ThriceCorrected ==
  ASSUME NeverThrice, NEW x, x # NoRow, NEW new, new.original = x, lineage' = lineage \cup {new},
         NoRow \notin Originals,
         \/ x = aliasRow /\ aliasRow' = NoRow /\ correcting' = correcting
         \/ x = correcting /\ correcting' = NoRow /\ aliasRow' = aliasRow
  PROVE  NeverThrice'
<1>1. \A c \in lineage : c.original \in Originals  BY DEF Originals
<1>2. Originals' = Originals \cup {x}  BY DEF Originals
<1>3. \A c, d \in lineage : c.original = x /\ d.original = x => c = d  BY DEF NeverThrice
<1>4. x = aliasRow' \/ x = correcting' => x \notin Originals  BY DEF NeverThrice
<1>5. \A c, d, e \in lineage' :
        c.original = d.original /\ d.original = e.original => c = d \/ d = e \/ c = e
  <2> SUFFICES ASSUME NEW c \in lineage', NEW d \in lineage', NEW e \in lineage',
                      c.original = d.original, d.original = e.original
               PROVE  c = d \/ d = e \/ c = e
    OBVIOUS
  <2>1. CASE c.original = x  BY <1>3, <2>1
  <2>2. CASE c.original # x
    <3>1. c \in lineage /\ d \in lineage /\ e \in lineage  BY <2>2
    <3> QED  BY <3>1 DEF NeverThrice
  <2> QED  BY <2>1, <2>2
<1>6. ASSUME NEW c \in lineage', NEW d \in lineage', c.original = d.original,
             c.original = aliasRow' \/ c.original = correcting'
      PROVE  c = d
  <2>1. CASE c.original = x
    <3>1. c \notin lineage /\ d \notin lineage  BY <1>1, <1>4, <1>6, <2>1
    <3> QED  BY <3>1
  <2>2. CASE c.original # x
    <3>1. c \in lineage /\ d \in lineage  BY <1>6, <2>2
    <3>2. c.original = aliasRow \/ c.original = correcting  BY <1>1, <1>6, <3>1
    <3> QED  BY <1>6, <3>1, <3>2 DEF NeverThrice
  <2> QED  BY <2>1, <2>2
<1>7. aliasRow' = correcting' => aliasRow' = NoRow
  BY DEF NeverThrice
<1> QED  BY <1>5, <1>6, <1>7 DEF NeverThrice

-----------------------------------------------------------------------------
(* Steps *)

\* A step that adds events to the rows there are, or changes nothing but the lists
\* of the repairs.
LEMMA RowsRewritten ==
  ASSUME IInv, Grown, executions' \in Seq(Rows), DOMAIN executions' = DOMAIN executions, EventsAdded,
         UNCHANGED <<journal, lineage, imported, run, overtaken>>,
         aliasQueue' \cup backfillQueue' \subseteq DOMAIN executions,
         aliasRow' \in DOMAIN executions \cup {NoRow},
         correcting' \in DOMAIN executions \cup {NoRow}, ChecksStand', NeverThrice'
  PROVE  IInv'
<1>1. TypeOK /\ ImportedOnce /\ KeysNameJournalRows /\ CorrectionsAppend /\ TwiceOnlyIfOvertaken
      /\ EventsMatchRows
  BY DEF IInv
<1>2. TypeOK'  BY <1>1 DEF TypeOK
<1>3. KeysDiffer(executions)' /\ KeysNameJournalRows'  BY <1>1, KeysKept DEF ImportedOnce
<1>4. ImportedOnce'  BY <1>1, <1>3 DEF ImportedOnce
<1>5. CorrectionsAppend'  BY <1>1, CorrectionsKept
<1>6. TwiceOnlyIfOvertaken'  BY <1>1 DEF TwiceOnlyIfOvertaken
<1>7. EventsMatchRows'  BY <1>1, EventsKept
<1> QED  BY <1>2, <1>3, <1>4, <1>5, <1>6, <1>7 DEF IInv

\* Nothing happens to the rows.
LEMMA RowsUnchanged ==
  ASSUME TypeOK, executions' = executions
  PROVE  /\ Grown /\ executions' \in Seq(Rows) /\ DOMAIN executions' = DOMAIN executions
         /\ EventsAdded
<1>1. Grown  BY DEF Grown, SameFill
<1>2. EventsAdded  BY DEF EventsAdded
<1> QED  BY <1>1, <1>2 DEF TypeOK

\* A step that appends rows whose keys are new.
LEMMA RowsAppended ==
  ASSUME IInv, NEW rows \in Seq(Rows), executions' = executions \o rows,
         \A i \in DOMAIN rows : rows[i].refunded = 0 /\ rows[i].compensated = 0,
         KeysDiffer(executions)', KeysNameJournalRows', journal' \in Seq(JournalRows),
         imported' \in [Transactions -> Nat], \A t \in Transactions : imported'[t] <= 1,
         run' \in [completed : BOOLEAN, anomalies : Nat],
         UNCHANGED <<lineage, aliasQueue, aliasRow, backfillQueue, correcting, overtaken>>
  PROVE  IInv'
<1>1. TypeOK /\ CorrectionsAppend /\ TwiceOnlyIfOvertaken /\ EventsMatchRows /\ ChecksStand
      /\ NeverThrice
  BY DEF IInv
<1>2. executions \in Seq(Rows)  BY <1>1 DEF TypeOK
<1>3. executions' \in Seq(Rows)  BY <1>2, AppendedRows
<1>4. DOMAIN executions \subseteq DOMAIN executions'  BY <1>2, AppendedRows
<1>5. \A x \in DOMAIN executions : executions'[x] = executions[x]  BY <1>2, AppendedRows
<1>6. \A x \in DOMAIN executions' \ DOMAIN executions :
        executions'[x].refunded = 0 /\ executions'[x].compensated = 0
  <2> SUFFICES ASSUME NEW x \in DOMAIN (executions \o rows), x \notin DOMAIN executions
               PROVE (executions \o rows)[x].refunded = 0 /\ (executions \o rows)[x].compensated = 0
    OBVIOUS
  <2>1. x - Len(executions) \in DOMAIN rows
        /\ (executions \o rows)[x] = rows[x - Len(executions)]
    BY <1>2, RowsOfEither
  <2> QED  BY <2>1
<1>7. Grown  BY <1>4, <1>5 DEF Grown, SameFill
<1>8. EventsAdded  BY <1>5, <1>6 DEF EventsAdded
<1>9. TypeOK'  BY <1>1, <1>3, <1>4 DEF TypeOK
<1>10. CorrectionsAppend'  BY <1>1, <1>7, CorrectionsKept
<1>11. EventsMatchRows'  BY <1>1, <1>3, <1>7, <1>8, EventsKept
<1>12. ChecksStand'
  <2>1. Originals' = Originals /\ Constituents' = Constituents
    BY DEF Originals, Constituents, Reversals, Replacements
  <2> QED  BY <1>1, <1>7, <2>1, ChecksKept
<1>13. TwiceOnlyIfOvertaken'  BY <1>1 DEF TwiceOnlyIfOvertaken
<1>14. ImportedOnce'  BY DEF ImportedOnce
<1>15. NeverThrice'  BY <1>1, ThriceKept
<1> QED  BY <1>9, <1>10, <1>11, <1>12, <1>13, <1>14, <1>15 DEF IInv

\* What a correction of the row x does to the events of the rows.
EventsCorrected(x, n) ==
  /\ \A i \in DOMAIN executions :
       /\ executions'[i].charged = executions[i].charged
       /\ executions'[i].compensated = executions[i].compensated
       /\ IF i = x THEN executions'[i].refunded <= executions'[i].charged
          ELSE executions'[i].refunded = executions[i].refunded
  /\ executions'[n + 2].refunded = 0 /\ executions'[n + 2].compensated = 0
  /\ executions'[n + 2].key = NoKey /\ executions'[n + 2].action \notin GenericActions

\* A step that corrects the row x.
LEMMA RowCorrected ==
  ASSUME IInv, NEW x \in DOMAIN executions, NEW n, n = Len(executions), x \notin Constituents,
         IsAlias(x) => Linked(x), Corrected(x, n), EventsCorrected(x, n),
         UNCHANGED <<journal, imported, run, aliasQueue, backfillQueue>>,
         aliasRow' \in {aliasRow, NoRow}, aliasRow' = x => x \in overtaken',
         correcting' \in {correcting, NoRow}, correcting' = x => x \in overtaken',
         NeverThrice', overtaken \subseteq overtaken', overtaken' \subseteq DOMAIN executions,
         x \in Originals => x \in overtaken'
  PROVE  IInv'
<1>1. TypeOK /\ ImportedOnce /\ KeysNameJournalRows /\ CorrectionsAppend /\ TwiceOnlyIfOvertaken
      /\ EventsMatchRows /\ ChecksStand
  BY DEF IInv
<1>2. n \in Nat /\ DOMAIN executions = 1 .. n /\ x \in 1 .. n  BY <1>1, TableShape
<1>3. /\ Grown /\ executions' \in Seq(Rows) /\ DOMAIN executions' = 1 .. (n + 2)
      /\ executions'[n + 1].key = NoKey
      /\ executions'[n + 1].charged = 0 /\ executions'[n + 1].refunded = 0
      /\ executions'[n + 1].compensated = 0
      /\ lineage' = lineage \cup {Correction(x, n)}
  BY DEF Corrected
<1>4. \A c \in lineage : c.original \in 1 .. n /\ c.reversal \in 1 .. n /\ c.replacement \in 1 .. n
  BY <1>1, <1>2, TableShape
<1>5. /\ Originals' = Originals \cup {x} /\ Reversals' = Reversals \cup {n + 1}
      /\ Reversals \subseteq 1 .. n
  <2> DEFINE new == Correction(x, n)
  <2>1. new.original = x /\ new.reversal = n + 1 /\ lineage' = lineage \cup {new}
    BY <1>3 DEF Correction
  <2> HIDE DEF new
  <2> QED  BY <1>4, <2>1 DEF Originals, Reversals
<1>6. DOMAIN executions' = DOMAIN executions \cup {n + 1, n + 2}  BY <1>2, <1>3
<1>7. TypeOK'
  <2>1. lineage' \subseteq [original : DOMAIN executions, reversal : DOMAIN executions,
                            replacement : DOMAIN executions]'
    <3>1. Correction(x, n) \in [original : DOMAIN executions', reversal : DOMAIN executions',
                                replacement : DOMAIN executions']
      BY <1>6 DEF Correction
    <3>2. lineage \subseteq [original : DOMAIN executions', reversal : DOMAIN executions',
                             replacement : DOMAIN executions']
      BY <1>1, <1>6 DEF TypeOK
    <3> QED  BY <1>3, <3>1, <3>2
  <2>2. (aliasQueue \cup backfillQueue \cup overtaken)' \subseteq DOMAIN executions'
    BY <1>1, <1>6 DEF TypeOK
  <2>3. {aliasRow', correcting'} \subseteq DOMAIN executions' \cup {NoRow}
    BY <1>1, <1>6 DEF TypeOK
  <2> QED  BY <1>1, <1>3, <2>1, <2>2, <2>3 DEF TypeOK
<1>8. KeysDiffer(executions)' /\ KeysNameJournalRows'
  <2>1. \A y \in DOMAIN executions' \ DOMAIN executions : executions'[y].key = NoKey
    BY <1>3, <1>6 DEF EventsCorrected
  <2> QED  BY <1>1, <1>3, <2>1, KeysKept DEF ImportedOnce
<1>9. ImportedOnce'  BY <1>1, <1>8 DEF ImportedOnce
<1>10. CorrectionsAppend'  BY <1>1, CorrectionsGrow DEF EventsCorrected
<1>11. TwiceOnlyIfOvertaken'
  <2> SUFFICES ASSUME NEW c \in lineage', NEW d \in lineage', c # d, c.original = d.original
               PROVE  c.original \in overtaken'
    BY DEF TwiceOnlyIfOvertaken
  <2>1. CASE c \in lineage /\ d \in lineage  BY <1>1, <2>1 DEF TwiceOnlyIfOvertaken
  <2>2. Correction(x, n).original = x  BY DEF Correction
  <2>3. CASE c \notin lineage \/ d \notin lineage
    <3>1. c.original \in Originals /\ c.original = x  BY <1>3, <2>2, <2>3 DEF Originals
    <3> QED  BY <3>1
  <2> QED  BY <2>1, <2>3
<1>12. ChecksStand'
  <2>1. aliasRow' \in Originals' => aliasRow' \in Originals \/ aliasRow' \in overtaken'  BY <1>5
  <2>2. correcting' \in Originals' => correcting' \in Originals \/ correcting' \in overtaken'
    BY <1>5
  <2>3. correcting' \in Constituents' => correcting' \in Constituents \cup {NoRow}
    <3>1. correcting' \in 1 .. n \/ correcting' = NoRow  BY <1>1, <1>2 DEF TypeOK
    <3>2. Constituents' \subseteq Constituents \cup {n + 1, n + 2}
      <4> DEFINE new == Correction(x, n)
      <4>1. new.reversal = n + 1 /\ new.replacement = n + 2 /\ lineage' = lineage \cup {new}
        BY <1>3 DEF Correction
      <4> HIDE DEF new
      <4> QED  BY <4>1 DEF Constituents, Reversals, Replacements
    <3> QED  BY <1>2, <3>1, <3>2
  <2> QED  BY <1>1, <1>3, <2>1, <2>2, <2>3, ChecksKept
<1>13. EventsMatchRows'
  <2>1. ASSUME NEW y \in DOMAIN executions
        PROVE  /\ executions'[y].refunded <= executions'[y].charged
               /\ executions'[y].refunded # 0 => y \in Originals'
               /\ y \in Reversals' => executions'[y].charged = 0
               /\ executions'[y].compensated # 0 => Inverted(y)'
    <3>1. SameFill(executions'[y], executions[y])  BY <1>3 DEF Grown
    <3>2. Inverted(y)' <=> Inverted(y)  BY <3>1, SameReading
    <3>3. y \in Reversals' => y \in Reversals  BY <1>2, <1>5
    <3> QED  BY <1>1, <1>5, <3>2, <3>3 DEF EventsCorrected, EventsMatchRows
  <2>2. ASSUME NEW y \in {n + 1, n + 2}
        PROVE  /\ executions'[y].refunded <= executions'[y].charged
               /\ executions'[y].refunded = 0 /\ executions'[y].compensated = 0
               /\ y \in Reversals' => executions'[y].charged = 0
    <3>1. executions'[y].charged \in 0 .. 1
      <4>1. y \in DOMAIN executions'  BY <1>6
      <4>2. executions'[y] \in Rows  BY <1>3, <4>1
      <4> QED  BY <4>2 DEF Rows
    <3>2. y = n + 2 => y \notin Reversals'  BY <1>2, <1>5
    <3> QED  BY <1>3, <3>1, <3>2 DEF EventsCorrected
  <2> QED  BY <1>6, <2>1, <2>2 DEF EventsMatchRows
<1> QED  BY <1>7, <1>8, <1>9, <1>10, <1>11, <1>12, <1>13 DEF IInv

\* Keys of new rows that name journal rows and were not taken.
LEMMA KeysAdded ==
  ASSUME TypeOK, KeysDiffer(executions), KeysNameJournalRows, NEW rows \in Seq(Rows),
         executions' = executions \o rows, KeysDiffer(rows),
         DOMAIN journal \subseteq DOMAIN journal',
         \A i \in DOMAIN rows : /\ ~KeyTaken(rows[i].key)
                                /\ rows[i].key.of \in DOMAIN journal'
  PROVE  KeysDiffer(executions)' /\ KeysNameJournalRows'
<1> DEFINE n == Len(executions)
           all == executions \o rows
<1>1. executions \in Seq(Rows)  BY DEF TypeOK
<1>2. \A x \in DOMAIN all : \/ x \in DOMAIN executions /\ all[x] = executions[x]
                            \/ x - n \in DOMAIN rows /\ all[x] = rows[x - n]
  BY <1>1, RowsOfEither
<1>3. \A x \in DOMAIN all : x \in Nat
  BY <1>1, AppendedRows
<1>4. n \in Nat  BY <1>1
<1> HIDE DEF all, n
<1>5. KeysDiffer(all)
  <2> SUFFICES ASSUME NEW x \in DOMAIN all, NEW y \in DOMAIN all, all[x].key = all[y].key,
                      all[x].key # NoKey
               PROVE  x = y
    BY DEF KeysDiffer
  <2>1. CASE x \in DOMAIN executions /\ all[x] = executions[x]
    <3>1. ~(y - n \in DOMAIN rows /\ all[y] = rows[y - n])  BY <2>1 DEF KeyTaken
    <3>2. y \in DOMAIN executions /\ all[y] = executions[y]  BY <1>2, <3>1
    <3> QED  BY <2>1, <3>2 DEF KeysDiffer
  <2>2. CASE x - n \in DOMAIN rows /\ all[x] = rows[x - n]
    <3>1. ~(y \in DOMAIN executions /\ all[y] = executions[y])  BY <2>2 DEF KeyTaken
    <3>2. y - n \in DOMAIN rows /\ all[y] = rows[y - n]  BY <1>2, <3>1
    <3>3. x - n = y - n  BY <2>2, <3>2 DEF KeysDiffer
    <3> QED  BY <1>3, <1>4, <3>3
  <2> QED  BY <1>2, <2>1, <2>2
<1>6. KeysDiffer(executions)'  BY <1>5 DEF all, KeysDiffer
<1>7. KeysNameJournalRows'
  <2>1. \A x \in DOMAIN all : all[x].key # NoKey =>
          all[x].key.of \in DOMAIN journal' \/ all[x].key.of > MaxJournal
    BY <1>2 DEF KeysNameJournalRows
  <2> QED  BY <2>1 DEF all, KeysNameJournalRows
<1> QED  BY <1>6, <1>7

\* Counting anomalies.
LEMMA AnomaliesCounted ==
  ASSUME TypeOK, NEW dryRun \in BOOLEAN
  PROVE  Anomalies(dryRun) \in Nat
<1> DEFINE failing == {j \in DOMAIN journal : ~Mapped(j) \/ (~dryRun /\ ~Resolved(j))}
           others == Transactions \ Importable
<1>1. IsFiniteSet(DOMAIN journal)
  <2>1. DOMAIN journal = 1 .. Len(journal) /\ Len(journal) \in Nat  BY DEF TypeOK
  <2> QED  BY <2>1, FS_Interval
<1>2. failing \subseteq DOMAIN journal /\ others \subseteq Transactions  OBVIOUS
<1>3. IsFiniteSet(failing)  BY <1>1, <1>2, FS_Subset
<1>4. IsFiniteSet(others)  BY <1>2, FS_Subset, TransactionsAssumption
<1> HIDE DEF failing, others
<1>5. Cardinality(failing) \in Nat /\ Cardinality(others) \in Nat
  BY <1>3, <1>4, FS_CardinalityType
<1> QED  BY <1>5 DEF Anomalies, failing, others

\* The legacy import.
LEMMA MigrateKeeps ==
  ASSUME IInv, NEW dryRun \in BOOLEAN, Migrate(dryRun)
  PROVE  IInv'
<1>1. TypeOK /\ KeysDiffer(executions) /\ KeysNameJournalRows
      /\ \A t \in Transactions : imported[t] <= 1
  BY DEF IInv, ImportedOnce
<1>2. run' \in [completed : BOOLEAN, anomalies : Nat]
  BY <1>1, AnomaliesCounted DEF Migrate
<1>3. UNCHANGED <<journal, lineage, aliasQueue, aliasRow, backfillQueue, correcting, overtaken>>
  BY DEF Migrate
<1>4. journal \in Seq(JournalRows) /\ executions \in Seq(Rows) /\ imported \in [Transactions -> Nat]
  BY <1>1 DEF TypeOK
<1>5. CASE dryRun
  <2>1. UNCHANGED <<executions, imported>>  BY <1>5 DEF Migrate
  <2>2. executions' = executions \o << >> /\ << >> \in Seq(Rows)  BY <1>4, <2>1
  <2>3. KeysDiffer(executions)' /\ KeysNameJournalRows'
    BY <1>1, <1>3, <2>1 DEF KeysDiffer, KeysNameJournalRows
  <2>4. \A i \in DOMAIN << >> : FALSE  OBVIOUS
  <2> QED  BY <1>1, <1>2, <1>3, <1>4, <2>1, <2>2, <2>3, <2>4, RowsAppended
<1>6. CASE ~dryRun
  <2> DEFINE S == ToImport
             new == InOrder(ToImport, LAMBDA i, j : i < j)
             places == {<<1 + Cardinality({y \in S : y < x}), x>> : x \in S}
             rows == [n \in DOMAIN new |-> MigratedFill(new[n])]
  <2>1. executions' = executions \o rows
        /\ imported' = [t \in Transactions |-> imported[t] + (IF Imported(t) THEN 1 ELSE 0)]
    BY <1>6 DEF Migrate
  <2>2. S \in SUBSET Nat /\ IsFiniteSet(S) /\ S \subseteq DOMAIN journal
    <3>1. DOMAIN journal = 1 .. Len(journal) /\ Len(journal) \in Nat  BY <1>4
    <3>2. S \subseteq DOMAIN journal  BY DEF ToImport
    <3>3. IsFiniteSet(DOMAIN journal)  BY <3>1, FS_Interval
    <3> QED  BY <3>1, <3>2, <3>3, FS_Subset
  <2>3. Placed(new, S, places)  BY DEF InOrder, Placed
  <2>4. places = {<<1 + Cardinality({y \in S : y < x}), x>> : x \in S}  OBVIOUS
  <2>5. rows = [n \in DOMAIN new |-> MigratedFill(new[n])]  OBVIOUS
  <2> HIDE DEF new, places, rows
  <2>6. Lists(new, S, Lesser(S)) /\ Cardinality(S) \in Nat /\ DOMAIN new = 1 .. Cardinality(S)
    BY <2>2, <2>3, <2>4, NumbersListed
  <2>7. \A k \in DOMAIN new : new[k] \in S  BY <2>6 DEF Lists
  <2>8. \A k, l \in DOMAIN new : new[k] = new[l] => k = l  BY <2>6 DEF Lists
  <2>9. ASSUME NEW j \in S
        PROVE  /\ MigratedFill(j) \in Rows /\ MigratedFill(j).key = MigratedKey(j)
               /\ MigratedFill(j).refunded = 0 /\ MigratedFill(j).compensated = 0
    <3> DEFINE row == journal[j]
               concrete == ResolveEconomicExecutionAction(row.action, row.direction)
    <3>1. j \in DOMAIN journal /\ Resolvable(row.action, row.direction) /\ j \in Nat
      BY <2>2 DEF ToImport, Resolved
    <3>2. row \in JournalRows  BY <1>4, <3>1
    <3>3. concrete \in EconomicActions  BY <3>1, <3>2, Resolves DEF JournalRows
    <3>4. MigratedKey(j) \in [kind : {"none", "migrated", "engine"}, of : Nat]
      BY <3>1 DEF MigratedKey
    <3>5. MigratedFill(j) = Fill(row.direction, concrete, row.gross, row.fees, MigratedKey(j))
      BY DEF MigratedFill
    <3> HIDE DEF concrete
    <3>6. Postable(row.direction, concrete, row.gross, row.fees, MigratedKey(j))
      BY <3>2, <3>3, <3>4 DEF Postable, JournalRows, JournalActions
    <3> HIDE DEF row
    <3>7. NewRow(MigratedFill(j), row.direction, concrete, row.gross, row.fees, MigratedKey(j))
      BY <3>5, <3>6, NewFill
    <3> QED  BY <3>7 DEF NewRow
  <2>10. rows \in Seq(Rows) /\ DOMAIN rows = DOMAIN new
    <3>1. rows \in [1 .. Cardinality(S) -> Rows]  BY <2>5, <2>6, <2>7, <2>9
    <3> QED  BY <2>5, <2>6, <3>1, SequenceOf
  <2>11. \A i \in DOMAIN rows :
           /\ rows[i].refunded = 0 /\ rows[i].compensated = 0
           /\ rows[i].key = MigratedKey(new[i]) /\ new[i] \in S
    BY <2>5, <2>7, <2>9, <2>10
  <2>12. KeysDiffer(rows)
    <3>1. \A i, j : MigratedKey(i) = MigratedKey(j) => i = j
      <4>1. \A i : MigratedKey(i).of = i  BY DEF MigratedKey
      <4> QED  BY <4>1
    <3>2. \A i, j \in DOMAIN rows : rows[i].key = rows[j].key => new[i] = new[j]
      BY <2>11, <3>1
    <3> QED  BY <2>8, <2>10, <3>2 DEF KeysDiffer
  <2>13. \A i \in DOMAIN rows : ~KeyTaken(rows[i].key) /\ rows[i].key.of \in DOMAIN journal'
    <3>1. \A j \in S : ~KeyTaken(MigratedKey(j)) /\ MigratedKey(j).of \in DOMAIN journal'
      BY <1>3, <2>2 DEF ToImport, MigratedKey
    <3> QED  BY <2>11, <3>1
  <2>14. KeysDiffer(executions)' /\ KeysNameJournalRows'
    BY <1>1, <1>3, <2>1, <2>10, <2>12, <2>13, KeysAdded
  <2>15. imported' \in [Transactions -> Nat] /\ \A t \in Transactions : imported'[t] <= 1
    BY <1>1, <1>4, <2>1 DEF Imported
  <2> QED  BY <1>2, <1>3, <1>4, <2>1, <2>10, <2>11, <2>14, <2>15, RowsAppended
<1> QED  BY <1>5, <1>6

\* A fill the journal sync posts.
LEMMA EngineFillKeeps ==
  ASSUME IInv, NEW direction \in Directions, NEW action \in JournalActions,
         NEW gross \in Gross, NEW fees \in Fees, EngineFill(direction, action, gross, fees)
  PROVE  IInv'
<1> DEFINE j == Len(journal) + 1
           concrete == ResolveEconomicExecutionAction(action, direction)
           key == EngineKey(j)
           fill == SettledFill(direction, concrete, gross, fees, key)
           row == [direction |-> direction, action |-> action, gross |-> gross, fees |-> fees,
                   valid |-> TRUE]
           rows == <<fill>>
<1>1. TypeOK /\ KeysDiffer(executions) /\ KeysNameJournalRows
      /\ \A t \in Transactions : imported[t] <= 1
  BY DEF IInv, ImportedOnce
<1>2. journal \in Seq(JournalRows) /\ executions \in Seq(Rows) /\ Len(journal) \in Nat
      /\ DOMAIN journal = 1 .. Len(journal)
      /\ imported \in [Transactions -> Nat] /\ run \in [completed : BOOLEAN, anomalies : Nat]
  BY <1>1 DEF TypeOK
<1>3. gross \in Nat /\ fees \in Nat  BY GrossAssumption, FeesAssumption
<1>4. /\ Len(journal) < MaxJournal /\ Resolvable(action, direction)
      /\ journal' = Append(journal, row) /\ executions' = Append(executions, fill)
      /\ UNCHANGED <<lineage, imported, run, aliasQueue, aliasRow, backfillQueue, correcting,
                     overtaken>>
  BY DEF EngineFill
<1>5. row \in JournalRows  BY <1>3 DEF JournalRows
<1> HIDE DEF row
<1>6. journal' \in Seq(JournalRows) /\ DOMAIN journal' = 1 .. j  BY <1>2, <1>4, <1>5
<1>7. concrete \in EconomicActions  BY <1>4, Resolves
<1>8. key \in [kind : {"none", "migrated", "engine"}, of : Nat] /\ key.of = j /\ key.kind = "engine"
  BY <1>2 DEF EngineKey
<1> HIDE DEF concrete, key
<1>9. Postable(direction, concrete, gross, fees, key)
  BY <1>3, <1>7, <1>8 DEF Postable, JournalActions
<1>10. NewRow(fill, direction, concrete, gross, fees, key)  BY <1>9, NewFill
<1> HIDE DEF fill
<1>11. fill \in Rows /\ fill.key = key /\ fill.refunded = 0 /\ fill.compensated = 0
  BY <1>10 DEF NewRow
<1>12. /\ rows \in Seq(Rows) /\ DOMAIN rows = {1} /\ rows[1] = fill
       /\ executions' = executions \o rows
  BY <1>2, <1>4, <1>11
<1> HIDE DEF rows
<1>13. ~KeyTaken(key)
  <2> SUFFICES ASSUME NEW x \in DOMAIN executions, executions[x].key = key PROVE FALSE
    BY DEF KeyTaken
  <2>1. key # NoKey  BY <1>8 DEF NoKey
  <2>2. j \in DOMAIN journal \/ j > MaxJournal  BY <1>1, <1>8, <2>1 DEF KeysNameJournalRows
  <2> QED  BY <1>2, <1>4, <2>2, BoundsAssumption
<1>14. KeysDiffer(rows)  BY <1>12 DEF KeysDiffer
<1>15. \A i \in DOMAIN rows : ~KeyTaken(rows[i].key) /\ rows[i].key.of \in DOMAIN journal'
  BY <1>2, <1>6, <1>8, <1>11, <1>12, <1>13
<1>16. DOMAIN journal \subseteq DOMAIN journal'  BY <1>2, <1>6
<1>17. KeysDiffer(executions)' /\ KeysNameJournalRows'
  BY <1>1, <1>12, <1>14, <1>15, <1>16, KeysAdded
<1>18. \A i \in DOMAIN rows : rows[i].refunded = 0 /\ rows[i].compensated = 0
  BY <1>11, <1>12
<1>19. /\ imported' \in [Transactions -> Nat] /\ \A t \in Transactions : imported'[t] <= 1
       /\ run' \in [completed : BOOLEAN, anomalies : Nat]
  BY <1>1, <1>2, <1>4
<1> QED  BY <1>4, <1>6, <1>12, <1>17, <1>18, <1>19, RowsAppended

\* Rewriting rows one by one leaves a table of rows.
LEMMA RowsMapped ==
  ASSUME TypeOK, NEW rows, DOMAIN rows = DOMAIN executions, rows = [x \in DOMAIN rows |-> rows[x]],
         \A x \in DOMAIN executions : rows[x] \in Rows
  PROVE  rows \in Seq(Rows) /\ Len(rows) = Len(executions)
<1>1. Len(executions) \in Nat /\ DOMAIN executions = 1 .. Len(executions)  BY TableShape
<1>2. rows \in [1 .. Len(executions) -> Rows]  BY <1>1
<1>3. rows \in Seq(Rows)  BY <1>1, <1>2, SequenceOf
<1> QED  BY <1>1, <1>3

\* The fee repair.
LEMMA RepairFeesKeeps ==
  ASSUME IInv, RepairFees
  PROVE  IInv'
<1> DEFINE charged(row) == [row EXCEPT !.charged = @ + 1]
<1>1. TypeOK /\ ChecksStand /\ \A x \in DOMAIN executions : executions[x] \in Rows
  BY TableShape DEF IInv
<1>2. /\ executions' = [x \in DOMAIN executions |->
                          IF FeeMissing(x) THEN charged(executions[x]) ELSE executions[x]]
      /\ UNCHANGED <<journal, lineage, imported, run, aliasQueue, aliasRow, backfillQueue,
                     correcting, overtaken>>
  BY DEF RepairFees, Update
<1>3. DOMAIN executions' = DOMAIN executions  BY <1>2
<1>4. ASSUME NEW x \in DOMAIN executions
      PROVE  /\ executions'[x] \in Rows /\ SameFill(executions'[x], executions[x])
             /\ executions'[x].refunded = executions[x].refunded
             /\ executions'[x].compensated = executions[x].compensated
             /\ executions'[x].charged = executions[x].charged
                  \/ (x \in Effective /\ executions'[x].charged = 1)
  <2>1. CASE FeeMissing(x)
    <3>1. executions'[x] = charged(executions[x])  BY <1>2, <2>1
    <3>2. executions[x].charged = 0 /\ x \in Effective  BY <2>1 DEF FeeMissing
    <3> QED  BY <1>1, <3>1, <3>2 DEF Rows, SameFill
  <2>2. CASE ~FeeMissing(x)
    <3>1. executions'[x] = executions[x]  BY <1>2, <2>2
    <3> QED  BY <1>1, <3>1 DEF SameFill
  <2> QED  BY <2>1, <2>2
<1>5. executions' = [x \in DOMAIN executions' |-> executions'[x]]  BY <1>2
<1>6. executions' \in Seq(Rows)  BY <1>1, <1>3, <1>4, <1>5, RowsMapped
<1>7. Grown  BY <1>3, <1>4 DEF Grown
<1>8. EventsAdded  BY <1>3, <1>4 DEF EventsAdded
<1>9. ChecksStand'
  <2>1. Originals' = Originals /\ Constituents' = Constituents
    BY <1>2 DEF Originals, Constituents, Reversals, Replacements
  <2> QED  BY <1>1, <1>2, <1>7, <2>1, ChecksKept
<1>10. /\ aliasQueue' \cup backfillQueue' \subseteq DOMAIN executions
       /\ aliasRow' \in DOMAIN executions \cup {NoRow}
       /\ correcting' \in DOMAIN executions \cup {NoRow}
  BY <1>1, <1>2 DEF TypeOK
<1>11. NeverThrice'  BY <1>2, ThriceKept DEF IInv
<1> QED  BY <1>2, <1>3, <1>6, <1>7, <1>8, <1>9, <1>10, <1>11, RowsRewritten

\* The repair of the cash directions.
LEMMA RepairDirectionsKeeps ==
  ASSUME IInv, RepairDirections
  PROVE  IInv'
<1> DEFINE compensated(row) == [row EXCEPT !.compensated = @ + 1]
           due(x) == Inverted(x) /\ executions[x].compensated = 0
<1>1. TypeOK /\ ChecksStand /\ \A x \in DOMAIN executions : executions[x] \in Rows
  BY TableShape DEF IInv
<1>2. /\ executions' = [x \in DOMAIN executions |->
                          IF due(x) THEN compensated(executions[x]) ELSE executions[x]]
      /\ UNCHANGED <<journal, lineage, imported, run, aliasQueue, aliasRow, backfillQueue,
                     correcting, overtaken>>
  BY DEF RepairDirections, Update
<1>3. DOMAIN executions' = DOMAIN executions  BY <1>2
<1>4. ASSUME NEW x \in DOMAIN executions
      PROVE  /\ executions'[x] \in Rows /\ SameFill(executions'[x], executions[x])
             /\ executions'[x].refunded = executions[x].refunded
             /\ executions'[x].charged = executions[x].charged
             /\ executions'[x].compensated = executions[x].compensated \/ Inverted(x)
  <2>1. CASE due(x)
    <3>1. executions'[x] = compensated(executions[x])  BY <1>2, <2>1
    <3> QED  BY <1>1, <2>1, <3>1 DEF Rows, SameFill
  <2>2. CASE ~due(x)
    <3>1. executions'[x] = executions[x]  BY <1>2, <2>2
    <3> QED  BY <1>1, <3>1 DEF SameFill
  <2> QED  BY <2>1, <2>2
<1>5. executions' = [x \in DOMAIN executions' |-> executions'[x]]  BY <1>2
<1>6. executions' \in Seq(Rows)  BY <1>1, <1>3, <1>4, <1>5, RowsMapped
<1>7. Grown  BY <1>3, <1>4 DEF Grown
<1>8. EventsAdded  BY <1>3, <1>4 DEF EventsAdded
<1>9. ChecksStand'
  <2>1. Originals' = Originals /\ Constituents' = Constituents
    BY <1>2 DEF Originals, Constituents, Reversals, Replacements
  <2> QED  BY <1>1, <1>2, <1>7, <2>1, ChecksKept
<1>10. /\ aliasQueue' \cup backfillQueue' \subseteq DOMAIN executions
       /\ aliasRow' \in DOMAIN executions \cup {NoRow}
       /\ correcting' \in DOMAIN executions \cup {NoRow}
  BY <1>1, <1>2 DEF TypeOK
<1>11. NeverThrice'  BY <1>2, ThriceKept DEF IInv
<1> QED  BY <1>2, <1>3, <1>6, <1>7, <1>8, <1>9, <1>10, <1>11, RowsRewritten

\* No row has the number that stands for none.
LEMMA NoRowIsNone == ASSUME TypeOK PROVE NoRow \notin Originals /\ NoRow \notin Constituents
BY TableShape DEF TypeOK, NoRow, Originals, Constituents, Reversals, Replacements

\* Steps that touch no row, whatever they do to the lists of the repairs.
LEMMA ListsChange ==
  ASSUME IInv, UNCHANGED <<journal, executions, lineage, imported, run, correcting, overtaken>>,
         aliasQueue' \cup backfillQueue' \subseteq DOMAIN executions,
         aliasRow' \in DOMAIN executions \cup {NoRow}, \A x \in aliasQueue' : IsAlias(x),
         aliasRow' = aliasRow \/ aliasRow' \notin Originals,
         aliasRow' # NoRow => /\ IsAlias(aliasRow)' /\ Linked(aliasRow)'
                              /\ aliasRow' \in Originals => aliasRow' \in overtaken
  PROVE  IInv'
<1>1. TypeOK /\ ChecksStand /\ NeverThrice  BY DEF IInv
<1>2. Grown /\ executions' \in Seq(Rows) /\ DOMAIN executions' = DOMAIN executions /\ EventsAdded
  BY <1>1, RowsUnchanged
<1>3. \A x : IsAlias(x)' <=> IsAlias(x)  BY DEF IsAlias
<1>4. Originals' = Originals /\ Constituents' = Constituents
  BY DEF Originals, Constituents, Reversals, Replacements
<1>5. MayCorrect(correcting)' <=> MayCorrect(correcting)  BY DEF MayCorrect, IsAlias, Linked
<1>6. ChecksStand'  BY <1>1, <1>3, <1>4, <1>5 DEF ChecksStand
<1>7. NeverThrice'  BY <1>1, ThriceKept
<1>8. correcting' \in DOMAIN executions \cup {NoRow}  BY <1>1 DEF TypeOK
<1> QED  BY <1>2, <1>6, <1>7, <1>8, RowsRewritten

\* The server checks a row, or gives a correction up.
LEMMA ServerChecks ==
  ASSUME IInv, FailCorrection \/ \E x \in DOMAIN executions : CheckCorrection(x)
  PROVE  IInv'
<1>1. TypeOK /\ ChecksStand /\ NeverThrice  BY DEF IInv
<1>2. UNCHANGED <<journal, executions, lineage, imported, run, aliasQueue, aliasRow,
                  backfillQueue, overtaken>>
  BY DEF FailCorrection, CheckCorrection
<1>3. Grown /\ executions' \in Seq(Rows) /\ DOMAIN executions' = DOMAIN executions /\ EventsAdded
  BY <1>1, <1>2, RowsUnchanged
<1>4. /\ correcting' \in DOMAIN executions \cup {NoRow}
      /\ correcting' \notin Originals /\ correcting' \notin Constituents
      /\ correcting' # NoRow => MayCorrect(correcting)'
  <2>1. CASE FailCorrection  BY <1>1, <2>1, NoRowIsNone DEF FailCorrection
  <2>2. ASSUME NEW x \in DOMAIN executions, CheckCorrection(x)
        PROVE  /\ correcting' \in DOMAIN executions
               /\ correcting' \notin Originals /\ correcting' \notin Constituents
               /\ MayCorrect(correcting)'
    <3>1. correcting' = x /\ MayCorrect(x) /\ x \notin Originals /\ x \notin Constituents
      BY <2>2 DEF CheckCorrection, Constituents
    <3>2. MayCorrect(x)'  BY <1>2, <3>1 DEF MayCorrect, IsAlias, Linked
    <3>3. MayCorrect(correcting)'  BY <3>1, <3>2 DEF MayCorrect, IsAlias, Linked
    <3> QED  BY <3>1, <3>3
  <2> QED  BY <2>1, <2>2
<1>5. Originals' = Originals /\ Constituents' = Constituents
  BY <1>2 DEF Originals, Constituents, Reversals, Replacements
<1>6. ChecksStand'
  <2>1. \A x : (IsAlias(x)' <=> IsAlias(x)) /\ (Linked(x)' <=> Linked(x))
    BY <1>2 DEF IsAlias, Linked
  <2>2. (IsAlias(aliasRow)' <=> IsAlias(aliasRow)) /\ (Linked(aliasRow)' <=> Linked(aliasRow))
    BY <1>2 DEF IsAlias, Linked
  <2> QED  BY <1>1, <1>2, <1>4, <1>5, <2>1, <2>2 DEF ChecksStand
<1>7. NeverThrice'  BY <1>1, <1>2, <1>4, ThriceKept
<1>8. /\ aliasQueue' \cup backfillQueue' \subseteq DOMAIN executions
      /\ aliasRow' \in DOMAIN executions \cup {NoRow}
  BY <1>1, <1>2 DEF TypeOK
<1> QED  BY <1>2, <1>3, <1>4, <1>6, <1>7, <1>8, RowsRewritten

\* The least row of a list.
LEMMA MinOfRows ==
  ASSUME TypeOK, NEW S \in SUBSET (DOMAIN executions), S # {}
  PROVE  Min(S) \in S
<1>1. S \in SUBSET Nat  BY TableShape
<1> QED  BY <1>1, LeastNumber DEF Min

\* What the alias repair and the backfill do between two transactions.
LEMMA ListsKeep ==
  ASSUME IInv, StartAliasRepair \/ CheckAliasRow \/ StartBackfill \/ Interrupt
  PROVE  IInv'
<1>1. TypeOK /\ ChecksStand  BY DEF IInv
<1>2. /\ aliasQueue \subseteq DOMAIN executions /\ backfillQueue \subseteq DOMAIN executions
      /\ aliasRow \in DOMAIN executions \cup {NoRow}
      /\ \A x \in aliasQueue : IsAlias(x)
      /\ aliasRow # NoRow => /\ IsAlias(aliasRow) /\ Linked(aliasRow)
                             /\ aliasRow \in Originals => aliasRow \in overtaken
  BY <1>1 DEF TypeOK, ChecksStand
<1>3. CASE StartAliasRepair
  <2>1. /\ UNCHANGED <<journal, executions, lineage, imported, run, aliasRow, backfillQueue,
                       correcting, overtaken>>
        /\ aliasRow = NoRow
        /\ aliasQueue' = {x \in DOMAIN executions : IsAlias(x) /\ x \notin Originals}
    BY <1>3 DEF StartAliasRepair
  <2> QED  BY <1>2, <2>1, ListsChange
<1>4. CASE CheckAliasRow
  <2>1. PICK x : x = Min(aliasQueue)  OBVIOUS
  <2>2. x \in aliasQueue  BY <1>1, <1>2, <1>4, <2>1, MinOfRows DEF CheckAliasRow
  <2>3. /\ UNCHANGED <<journal, executions, lineage, imported, run, backfillQueue, correcting,
                       overtaken>>
        /\ aliasQueue' = aliasQueue \ {x}
        /\ aliasRow' = IF MayRepair(x) THEN x ELSE NoRow
    BY <1>4, <2>1 DEF CheckAliasRow
  <2>4. IsAlias(x)' /\ (MayRepair(x) => Linked(x)' /\ x \notin Originals)
    BY <1>2, <2>2, <2>3 DEF IsAlias, Linked, MayRepair
  <2>5. ASSUME aliasRow' # NoRow
        PROVE  /\ IsAlias(aliasRow)' /\ Linked(aliasRow)'
               /\ aliasRow' \in Originals => aliasRow' \in overtaken
    <3>1. aliasRow' = x /\ MayRepair(x)  BY <2>3, <2>5
    <3>2. IsAlias(x)' /\ Linked(x)'  BY <2>4, <3>1
    <3>3. IsAlias(aliasRow)' /\ Linked(aliasRow)'  BY <3>1, <3>2 DEF IsAlias, Linked
    <3> QED  BY <2>4, <3>1, <3>3
  <2>6. aliasRow' \in DOMAIN executions \cup {NoRow}  BY <1>2, <2>2, <2>3
  <2>7. aliasQueue' \cup backfillQueue' \subseteq DOMAIN executions  BY <1>2, <2>3
  <2>8. \A y \in aliasQueue' : IsAlias(y)  BY <1>2, <2>3
  <2>9. aliasRow' \notin Originals  BY <1>1, <2>3, <2>4, NoRowIsNone
  <2> QED  BY <2>3, <2>5, <2>6, <2>7, <2>8, <2>9, ListsChange
<1>5. CASE StartBackfill
  <2>1. /\ UNCHANGED <<journal, executions, lineage, imported, run, aliasQueue, aliasRow,
                       correcting, overtaken>>
        /\ backfillQueue' = {x \in DOMAIN executions :
                               executions[x].key.kind = "engine" /\ executions[x].stored = "none"}
    BY <1>5 DEF StartBackfill
  <2>2. aliasRow' # NoRow => IsAlias(aliasRow)' /\ Linked(aliasRow)'
    BY <1>2, <2>1 DEF IsAlias, Linked
  <2> QED  BY <1>2, <2>1, <2>2, ListsChange
<1>6. CASE Interrupt
  <2>1. /\ UNCHANGED <<journal, executions, lineage, imported, run, correcting, overtaken>>
        /\ aliasQueue' \subseteq aliasQueue /\ backfillQueue' \subseteq backfillQueue
        /\ aliasRow' \in {aliasRow, NoRow}
    BY <1>6 DEF Interrupt
  <2>2. aliasRow' # NoRow => aliasRow' = aliasRow  BY <2>1
  <2>3. aliasRow' # NoRow => IsAlias(aliasRow)' /\ Linked(aliasRow)'
    BY <1>2, <2>1, <2>2 DEF IsAlias, Linked
  <2>4. aliasRow' = aliasRow \/ aliasRow' \notin Originals  BY <1>1, <2>1, NoRowIsNone
  <2> QED  BY <1>2, <2>1, <2>2, <2>3, <2>4, ListsChange
<1> QED  BY <1>3, <1>4, <1>5, <1>6

\* One row of the backfill.
LEMMA BackfillRowKeeps ==
  ASSUME IInv, BackfillRow
  PROVE  IInv'
<1> DEFINE posted(row) == [row EXCEPT !.stored = CashDirection(row.action), !.keyed = TRUE]
<1>1. TypeOK /\ ChecksStand /\ \A x \in DOMAIN executions : executions[x] \in Rows
  BY TableShape DEF IInv
<1>2. PICK y : y = Min(backfillQueue)  OBVIOUS
<1>3. /\ \/ executions' = executions
         \/ executions' = [x \in DOMAIN executions |->
                             IF x = y THEN posted(executions[x]) ELSE executions[x]]
      /\ backfillQueue' = backfillQueue \ {y}
      /\ UNCHANGED <<journal, lineage, imported, run, aliasQueue, aliasRow, correcting, overtaken>>
  BY <1>2 DEF BackfillRow, Update
<1>4. DOMAIN executions' = DOMAIN executions  BY <1>3
<1>5. ASSUME NEW x \in DOMAIN executions
      PROVE  /\ executions'[x] \in Rows /\ SameFill(executions'[x], executions[x])
             /\ executions'[x].refunded = executions[x].refunded
             /\ executions'[x].charged = executions[x].charged
             /\ executions'[x].compensated = executions[x].compensated
  <2>1. executions'[x] = executions[x] \/ executions'[x] = posted(executions[x])  BY <1>3
  <2>2. CashDirection(executions[x].action) \in {"increase", "decrease"}  BY DEF CashDirection
  <2> QED  BY <1>1, <2>1, <2>2 DEF Rows, SameFill
<1>6. executions' = [x \in DOMAIN executions' |-> executions'[x]]
  <2>1. CASE executions' = executions
    <3>1. executions = [x \in DOMAIN executions |-> executions[x]]  BY <1>1 DEF TypeOK
    <3> QED  BY <2>1, <3>1
  <2>2. CASE executions' = [x \in DOMAIN executions |->
                              IF x = y THEN posted(executions[x]) ELSE executions[x]]
    BY <2>2
  <2> QED  BY <1>3, <2>1, <2>2
<1>7. executions' \in Seq(Rows)  BY <1>1, <1>4, <1>5, <1>6, RowsMapped
<1>8. Grown  BY <1>4, <1>5 DEF Grown
<1>9. EventsAdded  BY <1>4, <1>5 DEF EventsAdded
<1>10. ChecksStand'
  <2>1. Originals' = Originals /\ Constituents' = Constituents
    BY <1>3 DEF Originals, Constituents, Reversals, Replacements
  <2> QED  BY <1>1, <1>3, <1>8, <2>1, ChecksKept
<1>11. /\ aliasQueue' \cup backfillQueue' \subseteq DOMAIN executions
       /\ aliasRow' \in DOMAIN executions \cup {NoRow}
       /\ correcting' \in DOMAIN executions \cup {NoRow}
  BY <1>1, <1>3 DEF TypeOK
<1>12. NeverThrice'  BY <1>3, ThriceKept DEF IInv
<1> QED  BY <1>3, <1>4, <1>7, <1>8, <1>9, <1>10, <1>11, <1>12, RowsRewritten

\* The replacement of the row x, in n rows.
LEMMA ReplacementPosted ==
  ASSUME TypeOK, NEW x \in DOMAIN executions, MayCorrect(x), NEW gross \in Nat, NEW fees \in Nat
  PROVE  /\ NewRow(Fill(executions[x].direction, Concrete(x), gross, fees, NoKey),
                   executions[x].direction, Concrete(x), gross, fees, NoKey)
         /\ NewRow(SettledFill(executions[x].direction, Concrete(x), gross, fees, NoKey),
                   executions[x].direction, Concrete(x), gross, fees, NoKey)
         /\ Concrete(x) \notin GenericActions
<1> DEFINE direction == executions[x].direction
           concrete == Concrete(x)
           key == NoKey
<1>1. concrete \in EconomicActions /\ concrete \notin GenericActions
  BY ConcreteAction DEF MayCorrect
<1>2. direction \in Directions \cup {"none"}  BY TableShape DEF Rows
<1>3. key \in [kind : {"none", "migrated", "engine"}, of : Nat]  BY DEF NoKey
<1> HIDE DEF direction, concrete, key
<1>4. Postable(direction, concrete, gross, fees, key)
  BY <1>1, <1>2, <1>3 DEF Postable, JournalActions
<1>5. /\ NewRow(Fill(direction, concrete, gross, fees, key), direction, concrete, gross, fees, key)
      /\ NewRow(SettledFill(direction, concrete, gross, fees, key),
                direction, concrete, gross, fees, key)
  BY <1>4, NewFill
<1> QED  BY <1>1, <1>5 DEF direction, concrete, key

\* The alias repair corrects the row it has checked.
LEMMA RepairAliasRowKeeps ==
  ASSUME IInv, RepairAliasRow
  PROVE  IInv'
<1>1. TypeOK /\ ChecksStand /\ CorrectionsAppend  BY DEF IInv
<1>2. PICK x : x = aliasRow  OBVIOUS
<1>3. PICK n : n = Len(executions)  OBVIOUS
<1> DEFINE row == executions[x]
           replacement == Fill(row.direction, Concrete(x), row.gross, row.fees, NoKey)
<1>4. /\ x # NoRow /\ aliasRow' = NoRow /\ AppendCorrection(x, executions, replacement)
      /\ overtaken' = IF x = correcting THEN overtaken \cup {x} ELSE overtaken
      /\ UNCHANGED <<journal, imported, run, aliasQueue, backfillQueue, correcting>>
  BY <1>2 DEF RepairAliasRow
<1>5. x \in DOMAIN executions  BY <1>1, <1>2, <1>4 DEF TypeOK
<1>6. IsAlias(x) /\ Linked(x) /\ (x \in Originals => x \in overtaken)
  BY <1>2, <1>4, <1>1 DEF ChecksStand
<1>7. n \in Nat /\ DOMAIN executions = 1 .. n /\ row \in Rows /\ executions \in Seq(Rows)
  BY <1>1, <1>3, <1>5, TableShape DEF TypeOK
<1>8. x \notin Constituents  BY <1>1, <1>6 DEF CorrectionsAppend
<1>9. MayCorrect(x)
  <2>1. row.direction \in Directions /\ row.action \in GenericActions
    BY <1>6, <1>7 DEF Rows, Linked, IsAlias
  <2> QED  BY <1>6, <2>1, AliasesResolve DEF MayCorrect
<1>10. NewRow(replacement, row.direction, Concrete(x), row.gross, row.fees, NoKey)
       /\ Concrete(x) \notin GenericActions
  <2>1. row.gross \in Nat /\ row.fees \in Nat  BY <1>7 DEF Rows
  <2> QED  BY <1>1, <1>5, <1>9, <2>1, ReplacementPosted
<1> HIDE DEF replacement
<1>11. replacement \in Rows /\ replacement.key = NoKey /\ replacement.action \notin GenericActions
       /\ replacement.refunded = 0 /\ replacement.compensated = 0
  BY <1>10 DEF NewRow
<1>12. \A i \in DOMAIN executions : SameFill(executions[i], executions[i])  BY DEF SameFill
<1>13. /\ Corrected(x, n) /\ \A i \in DOMAIN executions : executions'[i] = executions[i]
       /\ executions'[n + 2] = replacement
  BY <1>1, <1>3, <1>4, <1>5, <1>7, <1>9, <1>11, <1>12, CorrectionMade
<1>14. EventsCorrected(x, n)
  <2>1. row.refunded <= row.charged  BY <1>5 DEF IInv, EventsMatchRows
  <2> QED  BY <1>11, <1>13, <2>1 DEF EventsCorrected
<1>15. /\ overtaken \subseteq overtaken' /\ overtaken' \subseteq DOMAIN executions
       /\ correcting' \in {correcting, NoRow} /\ (correcting' = x => x \in overtaken')
       /\ (x \in Originals => x \in overtaken')
  BY <1>1, <1>4, <1>5, <1>6 DEF TypeOK
<1>16. aliasRow' # x /\ aliasRow' \in {aliasRow, NoRow}  BY <1>4
<1>17. NeverThrice'
  <2>1. NeverThrice /\ NoRow \notin Originals  BY <1>1, NoRowIsNone DEF IInv
  <2>2. lineage' = lineage \cup {Correction(x, n)} /\ Correction(x, n).original = x
    BY <1>13 DEF Corrected, Correction
  <2> QED  BY <1>2, <1>4, <2>1, <2>2, ThriceCorrected
<1> QED  BY <1>3, <1>4, <1>5, <1>6, <1>8, <1>13, <1>14, <1>15, <1>16, <1>17, RowCorrected

\* The server corrects a fill.
LEMMA CorrectFillKeeps ==
  ASSUME IInv, NEW gross \in Gross, NEW fees \in Fees, CorrectFill(gross, fees)
  PROVE  IInv'
<1>1. TypeOK /\ ChecksStand /\ CorrectionsAppend  BY DEF IInv
<1>2. PICK n : n = Len(executions)  OBVIOUS
<1>0. PICK x \in DOMAIN executions : x = correcting  BY <1>1 DEF CorrectFill, TypeOK
<1> DEFINE row == executions[x]
           rows == [y \in DOMAIN executions |->
                      IF y = x THEN Refunded(executions[y]) ELSE executions[y]]
           replacement == SettledFill(row.direction, Concrete(x), gross, fees, NoKey)
<1>3. /\ x # NoRow /\ x \notin Constituents /\ MayCorrect(x)
      /\ (x \in Originals => x \in overtaken)
      /\ AppendCorrection(x, rows, replacement)
      /\ overtaken' = IF x = aliasRow THEN overtaken \cup {x} ELSE overtaken
      /\ correcting' = NoRow
      /\ UNCHANGED <<journal, imported, run, aliasQueue, aliasRow, backfillQueue>>
  <2>1. rows = Update({x}, Refunded)  BY DEF Update
  <2>2. AppendCorrection(x, Update({x}, Refunded), replacement)  BY <1>0 DEF CorrectFill
  <2> HIDE DEF rows
  <2>3. AppendCorrection(x, rows, replacement)  BY <2>1, <2>2
  <2>4. /\ x # NoRow /\ correcting' = NoRow
        /\ overtaken' = IF x = aliasRow THEN overtaken \cup {x} ELSE overtaken
        /\ UNCHANGED <<journal, imported, run, aliasQueue, aliasRow, backfillQueue>>
    BY <1>0 DEF CorrectFill
  <2>5. MayCorrect(x) /\ x \notin Constituents /\ (x \in Originals => x \in overtaken)
    BY <1>1, <1>0, <2>4 DEF ChecksStand
  <2> QED  BY <2>3, <2>4, <2>5
<1>4. \A y \in DOMAIN executions : executions[y] \in Rows  BY <1>1, TableShape
<1>5. gross \in Nat /\ fees \in Nat  BY GrossAssumption, FeesAssumption
<1>6. ASSUME NEW y \in DOMAIN executions
      PROVE  /\ rows[y] \in Rows /\ SameFill(rows[y], executions[y])
             /\ rows[y].charged = executions[y].charged
             /\ rows[y].compensated = executions[y].compensated
             /\ IF y = x THEN rows[y].refunded <= rows[y].charged
                ELSE rows[y].refunded = executions[y].refunded
  <2>1. executions[y].refunded <= executions[y].charged  BY DEF IInv, EventsMatchRows
  <2>2. CASE y = x
    <3>1. rows[y] = Refunded(executions[y])  BY <2>2
    <3>2. executions[y] \in Rows  BY <1>4
    <3> HIDE DEF rows
    <3> QED  BY <2>1, <2>2, <3>1, <3>2 DEF Refunded, Rows, SameFill
  <2>3. CASE y # x
    <3>1. rows[y] = executions[y]  BY <2>3
    <3> QED  BY <1>4, <2>3, <3>1 DEF SameFill
  <2> QED  BY <2>2, <2>3
<1>7. rows \in Seq(Rows) /\ Len(rows) = n
  <2>1. DOMAIN rows = DOMAIN executions /\ rows = [y \in DOMAIN rows |-> rows[y]]  OBVIOUS
  <2> HIDE DEF rows
  <2> QED  BY <1>1, <1>2, <1>6, <2>1, RowsMapped
<1> HIDE DEF rows
<1>8. NewRow(replacement, row.direction, Concrete(x), gross, fees, NoKey)
      /\ Concrete(x) \notin GenericActions
  BY <1>1, <1>3, <1>5, ReplacementPosted
<1> HIDE DEF replacement
<1>9. replacement \in Rows /\ replacement.key = NoKey /\ replacement.action \notin GenericActions
      /\ replacement.refunded = 0 /\ replacement.compensated = 0
  BY <1>8 DEF NewRow
<1>10. /\ Corrected(x, n) /\ \A i \in DOMAIN executions : executions'[i] = rows[i]
       /\ executions'[n + 2] = replacement
  BY <1>1, <1>2, <1>3, <1>6, <1>7, <1>9, CorrectionMade
<1>11. EventsCorrected(x, n)  BY <1>6, <1>9, <1>10 DEF EventsCorrected
<1>12. IsAlias(x) => Linked(x)  BY <1>3 DEF MayCorrect
<1>13. /\ overtaken \subseteq overtaken' /\ overtaken' \subseteq DOMAIN executions
       /\ aliasRow' \in {aliasRow, NoRow} /\ (aliasRow' = x => x \in overtaken')
       /\ correcting' # x /\ correcting' \in {correcting, NoRow}
       /\ (x \in Originals => x \in overtaken')
  BY <1>1, <1>3 DEF TypeOK
<1>14. NeverThrice'
  <2>1. NeverThrice /\ NoRow \notin Originals  BY <1>1, NoRowIsNone DEF IInv
  <2>2. lineage' = lineage \cup {Correction(x, n)} /\ Correction(x, n).original = x
    BY <1>10 DEF Corrected, Correction
  <2> QED  BY <1>3, <1>0, <2>1, <2>2, ThriceCorrected
<1> QED  BY <1>2, <1>3, <1>10, <1>11, <1>12, <1>13, <1>14, RowCorrected

-----------------------------------------------------------------------------
(* Theorems *)

LEMMA InitEstablishes == ASSUME Init PROVE IInv
<1>1. journal \in Seq(JournalRows)  BY JournalsAssumption DEF Init
<1>2. executions \in Seq(Rows) /\ KeysDiffer(executions)
      /\ \A x \in DOMAIN executions : executions[x].refunded = 0 /\ executions[x].compensated = 0
  BY HistoriesAssumption DEF Init
<1>3. KeysNameJournalRows  BY IdsAssumption DEF Init, KeysNameJournalRows
<1>4. lineage = {} /\ imported = [t \in Transactions |-> 0] /\ run = NoRun /\ aliasQueue = {}
      /\ aliasRow = NoRow /\ backfillQueue = {} /\ correcting = NoRow /\ overtaken = {}
  BY DEF Init
<1>5. TypeOK  BY <1>1, <1>2, <1>4 DEF TypeOK, NoRun
<1>6. ImportedOnce  BY <1>2, <1>4 DEF ImportedOnce
<1>7. CorrectionsAppend  BY <1>4 DEF CorrectionsAppend, Constituents, Originals, Reversals, Replacements
<1>8. TwiceOnlyIfOvertaken /\ ChecksStand /\ NeverThrice
  BY <1>4 DEF TwiceOnlyIfOvertaken, ChecksStand, NeverThrice, Originals
<1>9. EventsMatchRows
  <2>1. \A x \in DOMAIN executions : executions[x].charged \in 0 .. 1
    <3>1. \A x \in DOMAIN executions : executions[x] \in Rows  BY <1>2
    <3> QED  BY <3>1 DEF Rows
  <2>2. Reversals = {}  BY <1>4 DEF Reversals
  <2> QED  BY <1>2, <2>1, <2>2 DEF EventsMatchRows
<1> QED  BY <1>3, <1>5, <1>6, <1>7, <1>8, <1>9 DEF IInv

\* Every step of a command, of a repair or of the server keeps the invariant.
LEMMA NextKeeps == ASSUME IInv, [Next]_vars PROVE IInv'
<1>1. ASSUME NEW dryRun \in BOOLEAN, Migrate(dryRun) PROVE IInv'  BY <1>1, MigrateKeeps
<1>2. CASE RepairFees  BY <1>2, RepairFeesKeeps
<1>3. CASE RepairDirections  BY <1>3, RepairDirectionsKeeps
<1>4. CASE StartAliasRepair \/ CheckAliasRow \/ StartBackfill \/ Interrupt  BY <1>4, ListsKeep
<1>5. CASE RepairAliasRow  BY <1>5, RepairAliasRowKeeps
<1>6. CASE BackfillRow  BY <1>6, BackfillRowKeeps
<1>7. ASSUME NEW direction \in Directions, NEW action \in JournalActions, NEW gross \in Gross,
             NEW fees \in Fees, EngineFill(direction, action, gross, fees)
      PROVE  IInv'
  BY <1>7, EngineFillKeeps
<1>8. ASSUME NEW gross \in Gross, NEW fees \in Fees, CorrectFill(gross, fees)
      PROVE  IInv'
  BY <1>8, CorrectFillKeeps
<1>9. CASE UNCHANGED vars
  <2>1. UNCHANGED <<journal, executions, lineage, imported, run, overtaken, aliasQueue, aliasRow,
                    backfillQueue, correcting>>
    BY <1>9 DEF vars
  <2>2. aliasQueue \cup backfillQueue \subseteq DOMAIN executions
        /\ aliasRow \in DOMAIN executions \cup {NoRow} /\ ChecksStand
    BY DEF IInv, TypeOK
  <2>3. aliasRow' # NoRow => IsAlias(aliasRow)' /\ Linked(aliasRow)'
    BY <2>1, <2>2 DEF ChecksStand, IsAlias, Linked
  <2> QED  BY <2>1, <2>2, <2>3, ListsChange DEF ChecksStand
<1>10. CASE FailCorrection \/ \E x \in DOMAIN executions : CheckCorrection(x)
  BY <1>10, ServerChecks
<1> QED  BY <1>1, <1>2, <1>3, <1>4, <1>5, <1>6, <1>7, <1>8, <1>9, <1>10 DEF Next, Maintain, Serve

\* The invariant holds however commands, repairs and the server's fills interleave.
THEOREM IInvHolds == Spec => []IInv
<1>1. Init => IInv  BY InitEstablishes
<1>2. IInv /\ [Next]_vars => IInv'  BY NextKeeps
<1> QED  BY <1>1, <1>2, PTL DEF Spec

\* Every stored row is one the schema admits (Maintenance, for every journal and
\* every record older releases left).
THEOREM TypeCorrectness == Spec => []TypeOK
<1>1. IInv => TypeOK  BY DEF IInv
<1> QED  BY <1>1, IInvHolds, PTL

\* Each legacy row is posted under its key at most once, however often the import is
\* run and whatever runs beside it.
THEOREM ImportsOnce == Spec => []ImportedOnce
<1>1. IInv => ImportedOnce  BY DEF IInv
<1> QED  BY <1>1, IInvHolds, PTL

\* A set without three different elements has two at most.
LEMMA TwoAtMost ==
  ASSUME NEW S, \A c, d, e \in S : c = d \/ d = e \/ c = e
  PROVE  Cardinality(S) <= 2
<1>1. CASE S = {}
  <2>1. Cardinality({}) = 0  BY FS_EmptySet
  <2> QED  BY <1>1, <2>1
<1>2. ASSUME NEW c \in S PROVE Cardinality(S) <= 2
  <2>1. CASE S = {c}
    <3>1. Cardinality({c}) = 1  BY FS_Singleton
    <3> QED  BY <2>1, <3>1
  <2>2. CASE S # {c}
    <3>1. PICK d \in S : d # c  BY <2>2
    <3>2. S = {c} \cup {d}  BY <3>1
    <3>3. IsFiniteSet({c}) /\ Cardinality({c}) = 1  BY FS_Singleton
    <3>4. Cardinality({c} \cup {d}) = 2  BY <3>1, <3>3, FS_AddElement
    <3> QED  BY <3>2, <3>4
  <2> QED  BY <2>1, <2>2
<1> QED  BY <1>1, <1>2

\* No row is superseded twice, nor one that a correction produced, except for a row that
\* the server or the alias repair corrects between the other's check and its transaction;
\* that one is not superseded a third time.
THEOREM CorrectsOnce == Spec => []CorrectedOnce
<1>1. ASSUME IInv PROVE CorrectedOnce
  <2>1. CorrectionsAppend /\ TwiceOnlyIfOvertaken /\ NeverThrice  BY <1>1 DEF IInv
  <2>2. \A c \in lineage : c.original \in Originals /\ c.reversal \in Constituents
                             /\ c.replacement \in Constituents
    BY DEF Originals, Constituents, Reversals, Replacements
  <2>3. \A c, d \in lineage : c.original # d.reversal /\ c.original # d.replacement
    BY <2>1, <2>2 DEF CorrectionsAppend
  <2>4. \A c, d \in lineage : c # d => /\ c.reversal # d.reversal /\ c.reversal # d.replacement
                                       /\ c.replacement # d.replacement
    BY <2>1 DEF CorrectionsAppend
  <2>5. \A c, d \in lineage : c # d /\ c.original = d.original => c.original \in overtaken
    BY <2>1 DEF TwiceOnlyIfOvertaken
  <2>6. \A c \in lineage : c.original < c.reversal  BY <2>1 DEF CorrectionsAppend
  <2>7. ASSUME NEW c \in lineage, NEW d \in lineage, c # d
        PROVE  {c.reversal, c.replacement} \cap {d.original, d.reversal, d.replacement} = {}
    <3>1. c.reversal # d.original /\ c.reversal # d.reversal /\ c.reversal # d.replacement
      BY <2>3, <2>4, <2>7
    <3>2. c.replacement # d.original /\ c.replacement # d.reversal /\ c.replacement # d.replacement
      BY <2>3, <2>4, <2>7
    <3> QED  BY <3>1, <3>2
  <2>8. ASSUME NEW x PROVE Cardinality({c \in lineage : c.original = x}) <= 2
    <3> DEFINE S == {c \in lineage : c.original = x}
    <3>1. \A c, d, e \in S : c = d \/ d = e \/ c = e  BY <2>1 DEF NeverThrice
    <3> HIDE DEF S
    <3>2. Cardinality(S) <= 2  BY <3>1, TwoAtMost
    <3> QED  BY <3>2 DEF S
  <2> QED  BY <2>5, <2>6, <2>7, <2>8 DEF CorrectedOnce
<1>2. IInv => CorrectedOnce  BY <1>1
<1> QED  BY <1>2, IInvHolds, PTL

-----------------------------------------------------------------------------
(* The gate before the cutover *)

\* The rows that carry the key of a journal row.
PostedRows == {x \in DOMAIN executions : \E j \in DOMAIN journal : x \in PostedFrom(j)}

\* A posted row counts as an effective one: itself, or its replacement.
LEMMA PostedRowsCount ==
  ASSUME IInv
  PROVE  /\ IsFiniteSet(Effective) /\ IsFiniteSet(PostedRows)
         /\ Cardinality(PostedRows) <= Cardinality(Effective)
<1> DEFINE P == PostedRows
           E == Effective
           line(x) == CHOOSE c \in lineage : c.original = x
           f == [x \in P |-> IF x \in E THEN x ELSE line(x).replacement]
<1>1. TypeOK /\ CorrectionsAppend  BY DEF IInv
<1>2. Len(executions) \in Nat /\ DOMAIN executions = 1 .. Len(executions)  BY <1>1, TableShape
<1>3. IsFiniteSet(E) /\ IsFiniteSet(P)
  <2>1. IsFiniteSet(DOMAIN executions)  BY <1>2, FS_Interval
  <2>2. E \subseteq DOMAIN executions /\ P \subseteq DOMAIN executions  BY DEF Effective, PostedRows
  <2> QED  BY <2>1, <2>2, FS_Subset
<1>4. \A x \in P : executions[x].key # NoKey /\ x \in DOMAIN executions
  BY DEF PostedRows, PostedFrom, MigratedKey, EngineKey, NoKey
<1>5. \A c \in lineage : /\ c.original \in Originals /\ c.replacement \in Constituents
                         /\ c.reversal \in Reversals
  BY DEF Originals, Constituents, Replacements, Reversals
<1>6. \A c \in lineage : c.replacement \in E /\ executions[c.replacement].key = NoKey
  <2> SUFFICES ASSUME NEW c \in lineage
               PROVE  c.replacement \in E /\ executions[c.replacement].key = NoKey
    OBVIOUS
  <2>1. c.replacement \in DOMAIN executions /\ c.reversal \in Nat
    BY <1>1, <1>2, TableShape
  <2>2. c.replacement \notin Originals /\ executions[c.replacement].key = NoKey
    BY <1>1, <1>5 DEF CorrectionsAppend
  <2>3. ASSUME NEW d \in lineage PROVE d.reversal # c.replacement
    <3>1. CASE d = c  BY <1>1, <2>1, <3>1 DEF CorrectionsAppend
    <3>2. CASE d # c  BY <1>1, <3>2 DEF CorrectionsAppend
    <3> QED  BY <3>1, <3>2
  <2>4. c.replacement \notin Reversals  BY <2>3 DEF Reversals
  <2> QED  BY <2>1, <2>2, <2>4 DEF Effective
<1>7. ASSUME NEW x \in P, x \notin E PROVE line(x) \in lineage /\ line(x).original = x
  <2>1. x \in Originals \cup Reversals  BY <1>4, <1>7 DEF Effective
  <2>2. x \notin Reversals  BY <1>1, <1>4 DEF CorrectionsAppend, Constituents
  <2>3. \E c \in lineage : c.original = x  BY <2>1, <2>2 DEF Originals
  <2> QED  BY <2>3
<1>8. \A c, d \in lineage : c.replacement = d.replacement => c = d
  BY <1>1 DEF CorrectionsAppend
<1> HIDE DEF P, E, line
<1>9. f \in [P -> E]  BY <1>6, <1>7
<1>10. \A x, y \in P : f[x] = f[y] => x = y
  <2> SUFFICES ASSUME NEW x \in P, NEW y \in P, f[x] = f[y] PROVE x = y  OBVIOUS
  <2>1. x \in E => f[x] = x  OBVIOUS
  <2>2. y \in E => f[y] = y  OBVIOUS
  <2>3. x \notin E => f[x] = line(x).replacement /\ line(x) \in lineage /\ line(x).original = x
    BY <1>7
  <2>4. y \notin E => f[y] = line(y).replacement /\ line(y) \in lineage /\ line(y).original = y
    BY <1>7
  <2> HIDE DEF f
  <2>5. x \in E /\ y \notin E => FALSE  BY <1>4, <1>6, <2>1, <2>4
  <2>6. x \notin E /\ y \in E => FALSE  BY <1>4, <1>6, <2>2, <2>3
  <2>7. x \notin E /\ y \notin E => x = y  BY <1>8, <2>3, <2>4
  <2> QED  BY <2>1, <2>2, <2>5, <2>6, <2>7
<1>11. Cardinality(P) <= Cardinality(E)
  <2> HIDE DEF f
  <2>1. f \in Injection(P, E)  BY <1>9, <1>10 DEF Injection, IsInjective
  <2> QED  BY <1>3, <2>1, FS_Injection
<1> QED  BY <1>3, <1>11 DEF P, E

\* More rows are posted than the journal has, when none is missing and one is there
\* twice.
LEMMA DoublePostedRows ==
  ASSUME IInv, \A j \in DOMAIN journal : PostedFrom(j) # {},
         NEW i \in DOMAIN journal, Cardinality(PostedFrom(i)) > 1
  PROVE  Cardinality(PostedRows) > Len(journal)
<1> DEFINE P == PostedRows
           J == DOMAIN journal
<1>1. IsFiniteSet(P)  BY PostedRowsCount
<1>2. Len(journal) \in Nat /\ J = 1 .. Len(journal)  BY DEF IInv, TypeOK
<1>3. IsFiniteSet(J) /\ Cardinality(J) = Len(journal)  BY <1>2, FS_Interval
<1>4. \A j \in J : PostedFrom(j) \subseteq P  BY DEF PostedRows, PostedFrom
<1>5. \A x \in P : \A j \in J : x \in PostedFrom(j) <=> executions[x].key.of = j
  BY DEF PostedRows, PostedFrom, MigratedKey, EngineKey
<1>6. PICK x \in PostedFrom(i), y \in PostedFrom(i) : x # y
  <2>1. PICK x : x \in PostedFrom(i)  OBVIOUS
  <2>2. PostedFrom(i) # {x}
    <3>1. Cardinality({x}) = 1  BY FS_Singleton
    <3> QED  BY <3>1
  <2> QED  BY <2>1, <2>2
<1>7. x \in P /\ y \in P /\ executions[x].key.of = i /\ executions[y].key.of = i
  BY <1>4, <1>5, <1>6
<1> HIDE DEF P, J
<1> DEFINE Q == P \ {x}
           m == [z \in Q |-> executions[z].key.of]
<1>8. IsFiniteSet(Q) /\ Cardinality(Q) = Cardinality(P) - 1 /\ Cardinality(P) \in Nat
  BY <1>1, <1>7, FS_RemoveElement, FS_CardinalityType
<1>9. \A z \in P : executions[z].key.of \in J
  <2>1. \A z \in P : \E j \in J : z \in PostedFrom(j)  BY DEF P, J, PostedRows
  <2> QED  BY <1>5, <2>1
<1>10. \A j \in J : \E z \in Q : m[z] = j
  <2> SUFFICES ASSUME NEW j \in J PROVE \E z \in Q : executions[z].key.of = j  OBVIOUS
  <2>1. CASE j = i  BY <1>6, <1>7, <2>1
  <2>2. CASE j # i
    <3>1. PICK z : z \in PostedFrom(j)  BY DEF J
    <3>2. z \in P /\ executions[z].key.of = j  BY <1>4, <1>5, <3>1
    <3>3. z # x  BY <1>7, <2>2, <3>2
    <3> QED  BY <3>2, <3>3
  <2> QED  BY <2>1, <2>2
<1>11. m \in [Q -> J]  BY <1>9
<1> HIDE DEF Q, m
<1>12. m \in Surjection(Q, J)  BY <1>10, <1>11 DEF Surjection
<1>13. Cardinality(J) <= Cardinality(Q)  BY <1>8, <1>12, FS_Surjection
<1> QED  BY <1>2, <1>3, <1>8, <1>13 DEF P

\* With every journal fill in the accounts and one of them there twice, the gate
\* refuses, whatever was imported, repaired or corrected.
THEOREM DoublePosting == Spec => []DoublePostingIsRefused
<1>1. ASSUME IInv, \A j \in DOMAIN journal : PostedFrom(j) # {},
             NEW i \in DOMAIN journal, Cardinality(PostedFrom(i)) > 1, CutoverEligible
      PROVE  FALSE
  <2>1. Cardinality(PostedRows) > Len(journal)  BY <1>1, DoublePostedRows
  <2>2. Cardinality(PostedRows) <= Cardinality(Effective)
        /\ Cardinality(PostedRows) \in Nat /\ Cardinality(Effective) \in Nat
    BY <1>1, PostedRowsCount, FS_CardinalityType
  <2>3. Len(journal) \in Nat /\ run.anomalies \in Nat  BY <1>1 DEF IInv, TypeOK
  <2>4. Len(journal) - Cardinality(Effective) \in 0 .. run.anomalies
    BY <1>1 DEF CutoverEligible, CountExplained
  <2> QED  BY <2>1, <2>2, <2>3, <2>4
<1>2. IInv => DoublePostingIsRefused  BY <1>1 DEF DoublePostingIsRefused
<1> QED  BY <1>2, IInvHolds, PTL

-----------------------------------------------------------------------------
(* Where the cash comes from *)

\* How often a row was superseded.
TimesSuperseded(x) == Cardinality({c \in lineage : c.original = x})

\* What a row has of each fee event.
FeeCash(x) == (executions[x].refunded - executions[x].charged) * executions[x].fees

\* What it has of its consideration and the compensation.
ConsiderationCash(x) ==
  (IF executions[x].stored = "none" THEN 0 ELSE Signed(ReadDirection(x), executions[x].gross))
    + (IF executions[x].compensated = 0 THEN 0 ELSE executions[x].compensated * Compensation(x))

\* The economic amount of a row, and its consideration and compensation.
LEMMA ConsiderationExplained ==
  ASSUME IInv, NEW x \in DOMAIN executions
  PROVE  /\ Economic(x) \in Int /\ ConsiderationCash(x) \in Int
         /\ Unsettled(x) \in Int /\ WrongDirection(x) \in Int /\ Overcompensated(x) \in Int
         /\ ConsiderationCash(x)
              = Economic(x) + Unsettled(x) + WrongDirection(x) + Overcompensated(x)
<1> DEFINE row == executions[x]
           g == row.gross
           E == Economic(x)
           R == Signed(ReadDirection(x), g)
           C == Compensation(x)
<1>1. row \in Rows  BY TableShape DEF IInv
<1>2. g \in Nat /\ row.stored \in {"none", "increase", "decrease"} /\ row.compensated \in 0 .. 1
  BY <1>1 DEF Rows
<1>3. E \in Int /\ R \in Int  BY <1>2 DEF Economic, Signed
<1>4. row.stored # "none" => R = IF ReadDirection(x) = EconomicDirection(x) THEN E ELSE -E
  <2> SUFFICES ASSUME row.stored # "none"
               PROVE  R = IF ReadDirection(x) = EconomicDirection(x) THEN E ELSE -E
    OBVIOUS
  <2>1. /\ ReadDirection(x) \in {"increase", "decrease"}
        /\ EconomicDirection(x) \in {"increase", "decrease"}
    BY <1>2 DEF ReadDirection, EconomicDirection, CashDirection
  <2> QED  BY <1>2, <2>1 DEF Economic, Signed
<1>5. row.compensated # 0 => C = 2 * E
  <2> SUFFICES ASSUME row.compensated # 0 PROVE C = 2 * E  OBVIOUS
  <2>1. Inverted(x)  BY DEF IInv, EventsMatchRows
  <2>2. EconomicDirection(x) = CashDirection(Concrete(x))
    BY <2>1 DEF Inverted, EconomicDirection
  <2>3. Opposite(RecordedDirection(row.action)) = CashDirection(Concrete(x))
    BY <2>1 DEF Inverted, Opposite, RecordedDirection, CashDirection
  <2> QED  BY <1>2, <2>2, <2>3 DEF Economic, Signed, Compensation
<1> HIDE DEF E, R, C
<1>6. ConsiderationCash(x) = (IF row.stored = "none" THEN 0 ELSE R)
                               + (IF row.compensated = 0 THEN 0 ELSE row.compensated * C)
  BY DEF ConsiderationCash, R, C
<1>7. Unsettled(x) = IF row.stored = "none" THEN -E ELSE 0  BY DEF Unsettled, E
<1>8. WrongDirection(x) = IF row.stored # "none" /\ ReadDirection(x) # EconomicDirection(x)
                             /\ row.compensated = 0 THEN -2 * E ELSE 0
  BY DEF WrongDirection, E
<1>9. Overcompensated(x) =
        IF row.compensated > 0 /\ (row.stored = "none" \/ ReadDirection(x) = EconomicDirection(x))
          THEN 2 * E ELSE 0
  BY DEF Overcompensated, E
<1>10. row.compensated = 0 \/ (row.compensated = 1 /\ C = 2 * E /\ row.compensated * C = 2 * E)
  BY <1>2, <1>3, <1>5
<1> HIDE DEF row
<1>11. ConsiderationCash(x) = E + Unsettled(x) + WrongDirection(x) + Overcompensated(x)
       /\ ConsiderationCash(x) \in Int
       /\ Unsettled(x) \in Int /\ WrongDirection(x) \in Int /\ Overcompensated(x) \in Int
  BY <1>3, <1>4, <1>6, <1>7, <1>8, <1>9, <1>10 DEF row
<1> QED  BY <1>3, <1>11 DEF E

\* The fee an effective row owes.
FeeOwed(x) == IF x \in Effective THEN -executions[x].fees ELSE 0

\* Its fee events.
LEMMA FeesExplained ==
  ASSUME IInv, NEW x \in DOMAIN executions
  PROVE  /\ FeeCash(x) \in Int /\ FeeOwed(x) \in Int
         /\ Uncharged(x) \in Int /\ NotGivenBack(x) \in Int
         /\ FeeCash(x) = FeeOwed(x) + Uncharged(x) + NotGivenBack(x)
<1> DEFINE row == executions[x]
           fees == row.fees
<1>1. row \in Rows /\ EventsMatchRows  BY TableShape DEF IInv
<1>2. fees \in Nat /\ row.charged \in 0 .. 1 /\ row.refunded \in 0 .. 1  BY <1>1 DEF Rows
<1>3. /\ row.refunded <= row.charged /\ (row.refunded # 0 => x \in Originals)
      /\ x \in Reversals => row.charged = 0
  BY <1>1 DEF EventsMatchRows
<1>4. x \in Effective <=> x \notin Originals /\ x \notin Reversals  BY DEF Effective
<1>5. Originals \cap Reversals = {}  BY DEF IInv, CorrectionsAppend, Constituents
<1>6. FeeCash(x) = IF row.refunded = row.charged THEN 0 ELSE -fees
  <2>1. \/ row.refunded = 0 /\ row.charged = 0
        \/ row.refunded = 1 /\ row.charged = 1
        \/ row.refunded = 0 /\ row.charged = 1
    BY <1>2, <1>3
  <2>2. FeeCash(x) = (row.refunded - row.charged) * fees  BY DEF FeeCash
  <2>3. 0 * fees = 0 /\ (-1) * fees = -fees  BY <1>2
  <2>4. row.refunded - row.charged = IF row.refunded = row.charged THEN 0 ELSE -1  BY <2>1
  <2> QED  BY <2>2, <2>3, <2>4
<1>7. Uncharged(x) = IF x \in Effective /\ fees > 0 /\ row.charged = 0 THEN fees ELSE 0
  BY DEF Uncharged, FeeMissing
<1>8. NotGivenBack(x) = IF x \in Originals /\ row.charged > row.refunded THEN -fees ELSE 0
  BY DEF NotGivenBack
<1>9. FeeOwed(x) = IF x \in Effective THEN -fees ELSE 0  BY DEF FeeOwed
<1>10. \/ x \in Effective /\ x \notin Originals /\ row.refunded = 0
       \/ x \notin Effective /\ x \in Originals
       \/ x \notin Effective /\ x \notin Originals /\ row.charged = 0 /\ row.refunded = 0
  BY <1>2, <1>3, <1>4, <1>5
<1> HIDE DEF fees, row
<1> QED  BY <1>2, <1>3, <1>6, <1>7, <1>8, <1>9, <1>10

\* Each reversal belongs to one correction, so an original has as many corrections as
\* reversals that take it back.
LineOf(r) == CHOOSE c \in lineage : c.reversal = r

TakingBack(x) == {r \in Reversals : LineOf(r).original = x}

LEMMA SupersededCounted ==
  ASSUME IInv
  PROVE  /\ IsFiniteSet(DOMAIN executions) /\ IsFiniteSet(Reversals) /\ IsFiniteSet(Originals)
         /\ Reversals \subseteq DOMAIN executions /\ Originals \subseteq DOMAIN executions
         /\ \A r \in Reversals : LineOf(r) \in lineage /\ LineOf(r).reversal = r
         /\ \A x : TimesSuperseded(x) \in Nat
                   /\ Cardinality(TakingBack(x)) = TimesSuperseded(x)
<1>1. TypeOK /\ CorrectionsAppend  BY DEF IInv
<1>2. DOMAIN executions = 1 .. Len(executions) /\ Len(executions) \in Nat  BY <1>1, TableShape
<1>3. Reversals \subseteq DOMAIN executions /\ Originals \subseteq DOMAIN executions
  BY <1>1, TableShape DEF Reversals, Originals
<1>4. IsFiniteSet(DOMAIN executions)  BY <1>2, FS_Interval
<1>5. IsFiniteSet(Reversals) /\ IsFiniteSet(Originals)  BY <1>3, <1>4, FS_Subset
<1>6. \A r \in Reversals : LineOf(r) \in lineage /\ LineOf(r).reversal = r
  BY DEF LineOf, Reversals
<1>7. \A c, d \in lineage : c.reversal = d.reversal => c = d  BY <1>1 DEF CorrectionsAppend
<1>8. ASSUME NEW x
      PROVE  TimesSuperseded(x) \in Nat /\ Cardinality(TakingBack(x)) = TimesSuperseded(x)
  <2> DEFINE F == TakingBack(x)
             L == {c \in lineage : c.original = x}
             f == [r \in F |-> LineOf(r)]
  <2>1. F \subseteq Reversals  BY DEF TakingBack
  <2>2. IsFiniteSet(F)  BY <1>5, <2>1, FS_Subset
  <2>3. \A r \in F : LineOf(r) \in L /\ LineOf(r).reversal = r  BY <1>6 DEF TakingBack
  <2>4. \A c \in L : c.reversal \in F /\ LineOf(c.reversal) = c
    <3> SUFFICES ASSUME NEW c \in L PROVE c.reversal \in F /\ LineOf(c.reversal) = c  OBVIOUS
    <3>1. c.reversal \in Reversals  BY DEF Reversals
    <3>2. LineOf(c.reversal) = c  BY <1>6, <1>7, <3>1
    <3> QED  BY <3>1, <3>2 DEF TakingBack
  <2> HIDE DEF F, L
  <2>5. f \in [F -> L] /\ (\A r, s \in F : f[r] = f[s] => r = s) /\ (\A c \in L : \E r \in F : f[r] = c)
    <3>1. f \in [F -> L]  BY <2>3
    <3>2. ASSUME NEW r \in F, NEW s \in F, f[r] = f[s] PROVE r = s  BY <2>3, <3>2
    <3>3. ASSUME NEW c \in L PROVE \E r \in F : f[r] = c  BY <2>4
    <3> QED  BY <3>1, <3>2, <3>3
  <2> HIDE DEF f
  <2>6. f \in Bijection(F, L)  BY <2>5 DEF Bijection, Injection, IsInjective, Surjection
  <2>7. ExistsBijection(F, L)  BY <2>6 DEF ExistsBijection
  <2>8. IsFiniteSet(L) /\ Cardinality(L) = Cardinality(F)  BY <2>2, <2>7, FS_Bijection
  <2>9. Cardinality(L) \in Nat  BY <2>8, FS_CardinalityType
  <2> QED  BY <2>8, <2>9 DEF F, L, TimesSuperseded
<1> QED  BY <1>3, <1>4, <1>5, <1>6, <1>8

\* What is left of a row is right, or wrong for a cause.
LEMMA RowExplained ==
  ASSUME IInv, NEW x \in DOMAIN executions
  PROVE  /\ Economic(x) \in Int /\ FeeOwed(x) \in Int /\ CashOf(x) \in Int
         /\ TakenBackAgain(x) \in Int /\ Wrong(x) \in Int
         /\ CashOf(x) + TakenBackAgain(x) = Economic(x) + FeeOwed(x) + Wrong(x)
<1>1. /\ Economic(x) \in Int /\ ConsiderationCash(x) \in Int
      /\ Unsettled(x) \in Int /\ WrongDirection(x) \in Int /\ Overcompensated(x) \in Int
      /\ ConsiderationCash(x)
           = Economic(x) + Unsettled(x) + WrongDirection(x) + Overcompensated(x)
  BY ConsiderationExplained
<1>2. /\ FeeCash(x) \in Int /\ FeeOwed(x) \in Int
      /\ Uncharged(x) \in Int /\ NotGivenBack(x) \in Int
      /\ FeeCash(x) = FeeOwed(x) + Uncharged(x) + NotGivenBack(x)
  BY FeesExplained
<1>3. CashOf(x) = ConsiderationCash(x) + FeeCash(x)
  <2> DEFINE a == IF executions[x].stored = "none" THEN 0
                  ELSE Signed(ReadDirection(x), executions[x].gross)
             b == (executions[x].refunded - executions[x].charged) * executions[x].fees
             c == IF executions[x].compensated = 0 THEN 0
                  ELSE executions[x].compensated * Compensation(x)
  <2>1. CashOf(x) = a + b + c /\ ConsiderationCash(x) = a + c /\ FeeCash(x) = b
    BY DEF CashOf, ConsiderationCash, FeeCash
  <2>2. a \in Int
    <3>1. executions[x].gross \in Nat
      <4>1. executions[x] \in Rows  BY TableShape DEF IInv
      <4> QED  BY <4>1 DEF Rows
    <3> QED  BY <3>1 DEF Signed
  <2>3. b \in Int  BY <1>2, <2>1
  <2>4. c \in Int
    <3>1. executions[x] \in Rows  BY TableShape DEF IInv
    <3>2. executions[x].gross \in Nat /\ executions[x].compensated \in 0 .. 1  BY <3>1 DEF Rows
    <3>3. Compensation(x) \in Int  BY <3>2 DEF Compensation, Signed
    <3> QED  BY <3>2, <3>3
  <2> HIDE DEF a, b, c
  <2> QED  BY <2>1, <2>2, <2>3, <2>4
<1>4. TakenBackAgain(x) \in Int
  <2>1. TakenBackAgain(x) = IF x \in Originals THEN Economic(x) * (1 - TimesSuperseded(x)) ELSE 0
    BY DEF TakenBackAgain, TimesSuperseded
  <2>2. TimesSuperseded(x) \in Nat  BY SupersededCounted
  <2> QED  BY <1>1, <2>1, <2>2
<1>5. Wrong(x) = Unsettled(x) + WrongDirection(x) + Uncharged(x) + NotGivenBack(x)
                   + Overcompensated(x) + TakenBackAgain(x)
  BY DEF Wrong
<1> QED  BY <1>1, <1>2, <1>3, <1>4, <1>5

\* The reversals of a row take it back once for each time it was superseded.
LEMMA ReversalsAddUp ==
  ASSUME IInv
  PROVE  /\ [x \in Reversals |-> Economic(x)] \in [Reversals -> Int]
         /\ [x \in Originals |-> TimesSuperseded(x) * (-Economic(x))] \in [Originals -> Int]
         /\ Total([x \in Reversals |-> Economic(x)])
              = Total([x \in Originals |-> TimesSuperseded(x) * (-Economic(x))])
<1> DEFINE R == Reversals
           O == Originals
           f == [x \in R |-> Economic(x)]
           p == [r \in R |-> LineOf(r).original]
           g == [x \in O |-> TimesSuperseded(x) * (-Economic(x))]
           Fibre(d) == {r \in R : p[r] = d}
           h == [d \in O |-> Total(Restrict(f, Fibre(d)))]
<1>1. /\ IsFiniteSet(R) /\ IsFiniteSet(O) /\ R \subseteq DOMAIN executions
      /\ O \subseteq DOMAIN executions
      /\ \A r \in R : LineOf(r) \in lineage /\ LineOf(r).reversal = r
      /\ \A x : TimesSuperseded(x) \in Nat /\ Cardinality(TakingBack(x)) = TimesSuperseded(x)
  BY SupersededCounted
<1>2. \A x \in DOMAIN executions : Economic(x) \in Int  BY RowExplained
<1>3. f \in [R -> Int]  BY <1>1, <1>2
<1>4. p \in [R -> O]  BY <1>1 DEF Originals
<1>5. \A x \in O : TimesSuperseded(x) * (-Economic(x)) \in Int
  <2> TAKE x \in O
  <2>1. Economic(x) \in Int /\ TimesSuperseded(x) \in Nat  BY <1>1, <1>2
  <2> QED  BY <2>1
<1>6. g \in [O -> Int]  BY <1>5
<1>7. \A r \in R : f[r] = -Economic(p[r])
  <2> SUFFICES ASSUME NEW r \in R PROVE Economic(r) = -Economic(LineOf(r).original)  OBVIOUS
  <2>1. LineOf(r) \in lineage /\ LineOf(r).reversal = r  BY <1>1
  <2> QED  BY <2>1 DEF IInv, CorrectionsAppend, TakesBack
<1>8. ASSUME NEW d \in O PROVE h[d] = g[d]
  <2> DEFINE F == Fibre(d)
             e == Restrict(f, F)
             c == -Economic(d)
  <2>1. F \in SUBSET R /\ IsFiniteSet(F)  BY <1>1, FS_Subset
  <2>2. Cardinality(F) = TimesSuperseded(d)
    <3>1. F = TakingBack(d)  BY DEF TakingBack
    <3> QED  BY <1>1, <3>1
  <2>3. c \in Int
    <3>1. Economic(d) \in Int  BY <1>1, <1>2
    <3> QED  BY <3>1
  <2>4. e \in [F -> Int] /\ \A r \in F : e[r] = c  BY <1>3, <1>7, <2>1 DEF Restrict
  <2>5. h[d] = Total(e) /\ g[d] = TimesSuperseded(d) * c  OBVIOUS
  <2> HIDE DEF F, e, c
  <2>6. Total(e) = Cardinality(F) * c  BY <2>1, <2>3, <2>4, TotalOfSame
  <2> QED  BY <2>2, <2>5, <2>6
<1>9. h = g
  <2>1. \A d \in O : h[d] = g[d]  BY <1>8
  <2>2. h = [d \in O |-> h[d]] /\ g = [d \in O |-> g[d]]  OBVIOUS
  <2> HIDE DEF h, g
  <2> QED  BY <2>1, <2>2
<1>10. h = [d \in O |-> Total(Restrict(f, {r \in R : p[r] = d}))]  OBVIOUS
<1> HIDE DEF R, O, f, p, g, h
<1>11. Total(f) = Total([d \in O |-> Total(Restrict(f, {r \in R : p[r] = d}))])
  BY <1>1, <1>3, <1>4, TotalGrouped
<1> QED  BY <1>3, <1>6, <1>9, <1>10, <1>11 DEF R, O, f, g

\* The economic amounts of all rows are those of the effective ones, and what was taken
\* back again.
LEMMA EconomicAddsUp ==
  ASSUME IInv, NEW D, D = DOMAIN executions,
         NEW e \in [D -> Int], \A x \in D : e[x] = Economic(x),
         NEW t \in [D -> Int], \A x \in D : t[x] = TakenBackAgain(x)
  PROVE  Total(e) = Total(Restrict(e, Effective)) + Total(t)
<1> DEFINE E == Effective
           O == Originals
           R == Reversals
           U == D \ E
           eU == Restrict(e, U)
           eO == Restrict(eU, O)
           eR == Restrict(eU, U \ O)
           tO == Restrict(t, O)
           g == [x \in O |-> TimesSuperseded(x) * (-Economic(x))]
<1>1. /\ IsFiniteSet(D) /\ IsFiniteSet(O) /\ IsFiniteSet(R) /\ O \subseteq D /\ R \subseteq D
      /\ \A x : TimesSuperseded(x) \in Nat
  BY SupersededCounted
<1>2. O \cap R = {}  BY DEF IInv, CorrectionsAppend, Constituents
<1>3. E \in SUBSET D /\ U \in SUBSET D /\ O \in SUBSET U /\ U \ O = R
  BY <1>1, <1>2 DEF Effective
<1>4. IsFiniteSet(U)  BY <1>1, <1>3, FS_Subset
<1>5. eU \in [U -> Int] /\ \A x \in U : eU[x] = e[x]  BY <1>3 DEF Restrict
<1>6. eO \in [O -> Int] /\ \A x \in O : eO[x] = Economic(x)  BY <1>3, <1>5 DEF Restrict
<1>7. eR = [x \in R |-> Economic(x)]  BY <1>3, <1>5 DEF Restrict
<1>8. tO \in [O -> Int] /\ \A x \in O : tO[x] = Economic(x) * (1 - TimesSuperseded(x))
  <2>1. tO = [x \in O |-> t[x]]  BY <1>1 DEF Restrict
  <2>2. \A x \in O : t[x] = Economic(x) * (1 - TimesSuperseded(x))
    BY <1>1 DEF TakenBackAgain, TimesSuperseded
  <2> QED  BY <1>1, <2>1, <2>2
<1>9. g \in [O -> Int] /\ Total(eR) = Total(g)  BY <1>7, ReversalsAddUp
<1>10. \A x \in O : tO[x] = eO[x] + g[x]
  <2> SUFFICES ASSUME NEW x \in O PROVE tO[x] = eO[x] + g[x]  OBVIOUS
  <2>1. PICK a \in Int : a = Economic(x)  BY <1>6
  <2>2. PICK k \in Nat : k = TimesSuperseded(x)  BY <1>1
  <2>3. a * (1 - k) = a + k * (-a)  OBVIOUS
  <2>4. g[x] = k * (-a)  BY <2>1, <2>2
  <2> HIDE DEF g, eO, tO
  <2> QED  BY <1>6, <1>8, <2>1, <2>2, <2>3, <2>4
<1>11. \A x \in D \ O : t[x] = 0  BY DEF TakenBackAgain
<1>12. Total(e) = Total(Restrict(e, E)) + Total(Restrict(e, D \ E))  BY <1>1, <1>3, TotalSplit
<1>13. Total(Restrict(e, E)) \in Int  BY <1>1, <1>3, RestrictedInt
<1>14. Restrict(e, D \ E) = eU  OBVIOUS
<1> HIDE DEF E, O, R, U, eU, eO, eR, tO, g
<1>15. Total(eU) = Total(Restrict(eU, O)) + Total(Restrict(eU, U \ O))
  BY <1>3, <1>4, <1>5, TotalSplit
<1>16. Total(eU) = Total(eO) + Total(eR)  BY <1>15 DEF eO, eR
<1>17. Total(tO) = Total(eO) + Total(g)
  <2>1. IsFiniteSet(O) /\ tO \in [O -> Int] /\ eO \in [O -> Int] /\ g \in [O -> Int]
    BY <1>1, <1>6, <1>8, <1>9
  <2> QED  BY <1>10, <2>1, TotalOfSum
<1>18. Total(t) = Total(Restrict(t, O))
  <2>1. O \in SUBSET D  BY <1>1
  <2> QED  BY <1>1, <1>11, <2>1, TotalOfOthers
<1>19. Total(t) = Total(tO)  BY <1>18 DEF tO
<1> QED  BY <1>9, <1>12, <1>14, <1>16, <1>17, <1>19 DEF E

\* The cash of the fills is what the effective ones and their fees amount to, and what is
\* wrong with a row for one of six causes: whatever order import, repairs and
\* corrections come in, and wherever a repair is interrupted.
THEOREM CashExplainedByCause == Spec => []CashIsExplained
<1>1. ASSUME IInv PROVE CashIsExplained
  <2> DEFINE D == DOMAIN executions
             E == Effective
             cash == [x \in D |-> CashOf(x)]
             e == [x \in D |-> Economic(x)]
             a == [x \in D |-> FeeOwed(x)]
             t == [x \in D |-> TakenBackAgain(x)]
             w == [x \in D |-> Wrong(x)]
             u == [x \in D |-> cash[x] + t[x]]
             v == [x \in D |-> e[x] + a[x]]
             net == [x \in E |-> Economic(x) - executions[x].fees]
             eE == Restrict(e, E)
             aE == Restrict(a, E)
  <2>1. IsFiniteSet(D)  BY <1>1, SupersededCounted
  <2>2. E \in SUBSET D /\ IsFiniteSet(E)  BY <2>1, FS_Subset DEF Effective
  <2>3. /\ \A x \in D : /\ Economic(x) \in Int /\ FeeOwed(x) \in Int /\ CashOf(x) \in Int
                        /\ TakenBackAgain(x) \in Int /\ Wrong(x) \in Int
                        /\ CashOf(x) + TakenBackAgain(x) = Economic(x) + FeeOwed(x) + Wrong(x)
    BY <1>1, RowExplained
  <2>4. /\ cash \in [D -> Int] /\ e \in [D -> Int] /\ a \in [D -> Int] /\ t \in [D -> Int]
        /\ w \in [D -> Int]
    BY <2>3
  <2>5. u \in [D -> Int] /\ v \in [D -> Int]  BY <2>3
  <2>6. \A x \in D : u[x] = cash[x] + t[x] /\ v[x] = e[x] + a[x] /\ u[x] = v[x] + w[x]
    BY <2>3
  <2>7. \A x \in D : e[x] = Economic(x) /\ t[x] = TakenBackAgain(x)  OBVIOUS
  <2>8. \A x \in D \ E : a[x] = 0  BY DEF FeeOwed
  <2>9. eE \in [E -> Int] /\ aE \in [E -> Int]  BY <2>2, <2>4 DEF Restrict
  <2>10. net \in [E -> Int] /\ \A x \in E : net[x] = eE[x] + aE[x]
    <3>1. \A x \in E : /\ eE[x] = Economic(x) /\ aE[x] = -executions[x].fees
                       /\ Economic(x) \in Int /\ executions[x].fees \in Nat
      <4> SUFFICES ASSUME NEW x \in E
                   PROVE  /\ eE[x] = Economic(x) /\ aE[x] = -executions[x].fees
                          /\ Economic(x) \in Int /\ executions[x].fees \in Nat
        OBVIOUS
      <4>1. x \in D  BY <2>2
      <4>2. executions[x] \in Rows  BY <1>1, <4>1, TableShape DEF IInv
      <4>3. executions[x].fees \in Nat  BY <4>2 DEF Rows
      <4>4. eE[x] = Economic(x)  BY <2>2, <4>1 DEF Restrict
      <4>5. aE[x] = -executions[x].fees  BY <2>2, <4>1 DEF Restrict, FeeOwed
      <4> QED  BY <2>3, <4>1, <4>3, <4>4, <4>5
    <3> HIDE DEF eE, aE, E
    <3> QED  BY <3>1
  <2>11. FillCash = Total(cash)  BY DEF FillCash
  <2>12. CashIsExplained <=> Total(cash) = Total(net) + Total(w)
    BY <2>11 DEF CashIsExplained
  <2> HIDE DEF cash, e, a, t, w, u, v, net, eE, aE, E
  <2>13. Total(u) = Total(cash) + Total(t)  BY <2>1, <2>4, <2>5, <2>6, TotalOfSum
  <2>14. Total(v) = Total(e) + Total(a)  BY <2>1, <2>4, <2>5, <2>6, TotalOfSum
  <2>15. Total(u) = Total(v) + Total(w)  BY <2>1, <2>4, <2>5, <2>6, TotalOfSum
  <2>16. Total(e) = Total(Restrict(e, Effective)) + Total(t)
    BY <1>1, <2>4, <2>7, EconomicAddsUp
  <2>17. Total(a) = Total(Restrict(a, E))  BY <2>1, <2>2, <2>4, <2>8, TotalOfOthers
  <2>18. Total(net) = Total(eE) + Total(aE)  BY <2>2, <2>9, <2>10, TotalOfSum
  <2>19. Total(e) = Total(eE) + Total(t) /\ Total(a) = Total(aE)
    BY <2>16, <2>17 DEF eE, aE, E
  <2>20. /\ Total(cash) \in Int /\ Total(t) \in Int /\ Total(w) \in Int
         /\ Total(eE) \in Int /\ Total(aE) \in Int
    BY <2>1, <2>2, <2>4, <2>9, TotalInt
  <2>21. Total(cash) = Total(net) + Total(w)
    <3>1. PICK c \in Int, b \in Int, k \in Int, m \in Int, n \in Int :
            /\ c = Total(cash) /\ b = Total(t) /\ k = Total(w)
            /\ m = Total(eE) /\ n = Total(aE)
      BY <2>20
    <3>2. c + b = ((m + b) + n) + k  BY <2>13, <2>14, <2>15, <2>19, <3>1
    <3>3. c = (m + n) + k  BY <3>2
    <3> QED  BY <2>18, <3>1, <3>3
  <2> QED  BY <2>12, <2>21
<1>2. IInv => CashIsExplained  BY <1>1
<1> QED  BY <1>2, IInvHolds, PTL
=============================================================================
