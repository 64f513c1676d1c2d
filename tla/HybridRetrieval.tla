-------------------------- MODULE HybridRetrieval --------------------------
(* The ranking of RAG: a ranking by meaning and another by words, both of   *)
(* content hashes without repetitions, fused by their positions.            *)
EXTENDS Integers, Sequences, FiniteSets, SequencesExt

CONSTANTS
    RrfK,               \* _RRF_K
    FusionCandidates    \* _FUSION_CANDIDATES

ASSUME RankingAssumption == RrfK \in Nat /\ FusionCandidates \in Nat \ {0}

(* A hit is a chunk, by its id and the hash of its text.                    *)
Hashes(hits) == [i \in DOMAIN hits |-> hits[i].content_hash]
FirstOf(hits, n) == [i \in DOMAIN hits \cap 1 .. n |-> hits[i]]

(* The hits at some positions, in their order.                              *)
HitsAt(hits, positions) ==
    [k \in 1 .. Cardinality(positions) |->
        hits[CHOOSE i \in positions : Cardinality({j \in positions : j <= i}) = k]]

(* Keeps the first hit of each text.                                        *)
Deduplicate(hits) ==
    HitsAt(hits, {i \in DOMAIN hits :
                     \A j \in DOMAIN hits : j < i => hits[j].content_hash # hits[i].content_hash})

HitOf(hits, hash) == CHOOSE h \in ToSet(hits) : h.content_hash = hash

----------------------------------------------------------------------------
(* The position of a hash in a ranking, and one past the end without one.   *)
Position(ranking, hash) ==
    IF hash \in ToSet(ranking)
    THEN CHOOSE i \in DOMAIN ranking : ranking[i] = hash
    ELSE Len(ranking) + 1

Part_AbsentIsFirst(ranking, hash) ==
    [num |-> 1, den |-> RrfK + IF hash \in ToSet(ranking) THEN Position(ranking, hash) ELSE 0]

(* 1/(k + position), summed over the rankings that have the hash: fractions *)
(* are compared by cross products, with no rounding.                        *)
Part(ranking, hash) ==
    IF hash \in ToSet(ranking) THEN [num |-> 1, den |-> RrfK + Position(ranking, hash)]
    ELSE [num |-> 0, den |-> 1]

Score(semantic, lexical, hash) ==
    LET s == Part(semantic, hash)  l == Part(lexical, hash)
    IN [num |-> s.num * l.den + l.num * s.den, den |-> s.den * l.den]

Higher(a, b) == a.num * b.den > b.num * a.den

(* The sort key: score, then presence in the semantic ranking, then both    *)
(* positions.  Two hashes never share them all.                             *)
Before(semantic, lexical, x, y) ==
    LET sx == Score(semantic, lexical, x)  sy == Score(semantic, lexical, y)
        px == Position(semantic, x)        py == Position(semantic, y)
    IN \/ Higher(sx, sy)
       \/ /\ ~Higher(sy, sx)
          /\ \/ px < py
             \/ px = py /\ Position(lexical, x) < Position(lexical, y)

FuseRrf(semantic, lexical) ==
    LET hashes == ToSet(semantic) \cup ToSet(lexical)
    IN [k \in 1 .. Cardinality(hashes) |->
           CHOOSE x \in hashes :
               Cardinality({y \in hashes : Before(semantic, lexical, y, x)}) = k - 1]

(* A text in both rankings is cited by the chunk the semantic one found.    *)
FuseHybridChunks(dense, lexical, top_k) ==
    LET fused == FirstOf(FuseRrf(Hashes(dense), Hashes(lexical)), top_k)
    IN [i \in DOMAIN fused |->
            IF fused[i] \in ToSet(Hashes(dense)) THEN HitOf(dense, fused[i])
            ELSE HitOf(lexical, fused[i])]

----------------------------------------------------------------------------
(* A hash another precedes in both rankings, where absence comes last.      *)
Dominates(semantic, lexical, x, y) ==
    /\ Position(semantic, x) <= Position(semantic, y)
    /\ Position(lexical, x) <= Position(lexical, y)
    /\ x # y

(* A hash another one dominates is chosen only with it and after it.        *)
RespectsRanks(semantic, lexical, order) ==
    \A x, y \in ToSet(semantic) \cup ToSet(lexical) :
        Dominates(semantic, lexical, x, y) /\ y \in ToSet(order) =>
            x \in ToSet(order) /\ Position(order, x) < Position(order, y)
=============================================================================
