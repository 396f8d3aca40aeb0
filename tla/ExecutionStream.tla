--------------------------- MODULE ExecutionStream ---------------------------
(***************************************************************************)
(* The effective execution stream of the immutable accounting_executions   *)
(* rows: what rebuildPositions replays once corrections are taken into     *)
(* account (src/lib/positions/rebuild.ts).                                 *)
(*                                                                         *)
(* `rows` is a sequence whose index is the row's id (SQLite rowid);        *)
(* `lineage` is the set of correction_lineage rows, each naming an original,*)
(* the reversal that cancels it and the replacement that restates it.      *)
(***************************************************************************)
EXTENDS Orders, Sequences

\* Mutation of Superseded: reversals are replayed.
SupersededOriginals(lineage) == {c.original : c \in lineage}

Superseded(lineage) == {c.original : c \in lineage} \cup {c.reversal : c \in lineage}

Replacements(lineage) == {c.replacement : c \in lineage}

Constituents(lineage) == {c.reversal : c \in lineage} \cup Replacements(lineage)

\* A replacement takes the posted_at of the execution it restates.
StreamPostedAt(rows, lineage, id) ==
  IF id \in Replacements(lineage)
    THEN LET c == CHOOSE c \in lineage : c.replacement = id
         IN rows[c.original].postedAt
    ELSE rows[id].postedAt

\* posted_at slot, then a replacement before a fill of the same slot, then
\* insertion order.
StreamBefore(rows, lineage, a, b) ==
  LET ta == StreamPostedAt(rows, lineage, a)
      tb == StreamPostedAt(rows, lineage, b)
      ra == a \in Replacements(lineage)
      rb == b \in Replacements(lineage)
  IN \/ ta < tb
     \/ ta = tb /\ ra /\ ~rb
     \/ ta = tb /\ ra = rb /\ a < b

\* The ids of the effective executions Included keeps, in replay order.
StreamIds(rows, lineage, Included(_)) ==
  InOrder({i \in DOMAIN rows : i \notin Superseded(lineage) /\ Included(i)},
          LAMBDA a, b : StreamBefore(rows, lineage, a, b))
=============================================================================
