--------------------------- MODULE MCPositionBook ---------------------------
EXTENDS PositionBook, TLC

Ticket(action, quantity, price, fees) ==
  [action |-> action, quantity |-> quantity, price |-> price, fees |-> fees]

\* Whole shares, in hundredths: a buy that takes three closes, fees that do not
\* divide, both sides and both generic actions.
MCTickets ==
  {Ticket("buy", 300, 200, 100),
   Ticket("sell", 100, 500, 10), Ticket("sell_short", 200, 400, 35),
   Ticket("buy_to_cover", 100, 200, 0), Ticket("add", 100, 100, 5),
   Ticket("reduce", 200, 600, 0)}

\* Three equal lots closed at once, with a fee that does not divide by three.
MCFeeTickets ==
  {Ticket("buy", 100, 200, 0), Ticket("sell", 300, 200, 100)}

MCSymmetry == Permutations(Instruments)
=============================================================================
