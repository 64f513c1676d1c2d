--------------------------- MODULE MCLexicalCache ---------------------------
(* TLC instance of LexicalCache: two games, two questions, two writers.     *)
EXTENDS LexicalCache, TLC

CONSTANTS g1, g2, r1, r2, w1, w2

MCGames   == {g1, g2}
MCReaders == {r1, r2}
MCWriters == {w1, w2}

(* Games, questions and writers are only ever compared.                     *)
MCSymmetry == Permutations(MCGames) \cup Permutations(MCReaders)
                                    \cup Permutations(MCWriters)
=============================================================================
