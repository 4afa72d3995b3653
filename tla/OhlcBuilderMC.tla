--------------------------- MODULE OhlcBuilderMC ---------------------------
(***************************************************************************)
(* Instances of OhlcBuilder for TLC.  The widths keep the ratios' shape:   *)
(* each interval is a multiple of the one before it.                       *)
(***************************************************************************)
EXTENDS OhlcLedger, TLC

Event(price) == [price |-> price, usable |-> TRUE]
Junk         == [price |-> 0, usable |-> FALSE]

TwoWidths == <<1, 2>>

OnePrice    == {Event(1)}
TwoPrices   == {Event(1), Event(2)}
PricesOrJunk == TwoPrices \cup {Junk}

Symmetry == Permutations(Builders) \cup Permutations(Producers)
=============================================================================
