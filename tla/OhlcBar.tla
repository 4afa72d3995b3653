------------------------------ MODULE OhlcBar ------------------------------
(***************************************************************************)
(* One OHLCBar row, and what a price makes of it (_update_bar in           *)
(* apps/pricing/kafka_consumer.py).                                        *)
(***************************************************************************)
EXTENDS Integers

CONSTANT None   \* Python's None: no row

Bars == [open : Int, high : Int, low : Int, close : Int, ticks : Nat]

Larger(x, y)  == IF x >= y THEN x ELSE y
Smaller(x, y) == IF x <= y THEN x ELSE y

\* get_or_create's defaults: the row of a first price.
Opened(price) == [open |-> price, high |-> price, low |-> price, close |-> price, ticks |-> 1]

\* Faulty variant: a tick is counted when the price moves.
Widened_CountsMoves(bar, price) ==
  [open |-> bar.open, high |-> Larger(bar.high, price), low |-> Smaller(bar.low, price),
   close |-> price, ticks |-> IF price = bar.close THEN bar.ticks ELSE bar.ticks + 1]

\* Faulty variant: the close is left out of update_fields.
Widened_NoClose(bar, price) ==
  [open |-> bar.open, high |-> Larger(bar.high, price), low |-> Smaller(bar.low, price),
   close |-> bar.close, ticks |-> bar.ticks + 1]

\* The row as it is saved when it was there already.
Widened(bar, price) ==
  [open |-> bar.open, high |-> Larger(bar.high, price), low |-> Smaller(bar.low, price),
   close |-> price, ticks |-> bar.ticks + 1]

\* What _update_bar leaves of a row, or of none.
Updated(bar, price) == IF bar = None THEN Opened(price) ELSE Widened(bar, price)
=============================================================================
