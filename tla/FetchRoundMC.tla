---------------------------- MODULE FetchRoundMC ----------------------------
(***************************************************************************)
(* Instances of FetchRound for TLC: the books the venues answer.           *)
(***************************************************************************)
EXTENDS TapeReads, TLC

Book(b, a) == [bid |-> b, ask |-> a]

\* Two books that cross between venues (3 > 2).
CrossingBooks == {Book(1, 2), Book(3, 4)}
\* One ordinary book and one that the positivity filter drops.
PlainBooks == {Book(1, 2), Book(0, 2)}
MixedBooks == CrossingBooks \cup {Book(0, 2)}
\* One book that crosses with itself, hence between any two venues: the fallback
\* of consolidate() and an arbitrage whenever both venues answer.
GlitchBook == {Book(3, 2)}
OneBook == {Book(1, 2)}

Symmetry == Permutations(Workers)
=============================================================================
