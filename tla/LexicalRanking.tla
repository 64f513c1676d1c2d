--------------------------- MODULE LexicalRanking ---------------------------
(* The ranking by words: BM25 over the texts of a game, each counted once   *)
(* whatever the manuals that say it, and the chunk a user may consult that  *)
(* each text is cited by (rag/lexical.py, build_game_index in               *)
(* rag/lexical_cache.py and _rank_authorized_lexical_chunks in              *)
(* rag/service.py).  Chunks are hits, as in HybridRetrieval.                *)
EXTENDS HybridRetrieval, Chunking

CONSTANTS
    Stopwords,      \* words that say nothing
    Suffix,         \* the ending that stemming drops
    Idf(_, _),      \* 100 log(1 + (n - d + 0.5) / (d + 0.5)), for d of n texts
    MaxTexts        \* where the table of logarithms ends

ASSUME LogarithmsAssumption ==
    /\ MaxTexts \in Nat \ {0}
    /\ \A n, d \in 1 .. MaxTexts : d <= n => Idf(d, n) \in Nat \ {0}

(* A word of the question finds its inflections.                            *)
Stem(word) ==
    IF Len(word) > 1 /\ word[Len(word)] = Suffix THEN SubSeq(word, 1, Len(word) - 1) ELSE word

Tokenize(words) ==
    FlattenSeq([i \in DOMAIN words |->
                   IF words[i] \in Stopwords THEN <<>> ELSE <<Stem(words[i])>>])

(* The texts of the corpus, in the order they are first seen, each with the *)
(* chunks that say it.                                                      *)
BuildGameIndex(corpus) ==
    LET texts == Hashes(Deduplicate(corpus))
    IN [i \in DOMAIN texts |->
           [content_hash |-> texts[i],
            tokens |-> Tokenize(WordsOf(texts[i])),
            occurrences |-> HitsAt(corpus, {j \in DOMAIN corpus : corpus[j].content_hash = texts[i]})]]

----------------------------------------------------------------------------
(* BM25.                                                                    *)

Frequency(document, term) ==
    Cardinality({i \in DOMAIN document.tokens : document.tokens[i] = term})
Postings(documents, term) == {d \in DOMAIN documents : Frequency(documents[d], term) > 0}

Total(numbers) ==
    LET total[n \in 0 .. Len(numbers)] == IF n = 0 THEN 0 ELSE total[n - 1] + numbers[n]
    IN total[Len(numbers)]

TotalLength(documents) == Total([d \in DOMAIN documents |-> Len(documents[d].tokens)])

Tabled(n) == IF n <= MaxTexts THEN n ELSE MaxTexts

(* idf f (k1 + 1) / (f + k1 (1 - b + b length / average)), in thousandths,  *)
(* with k1 = 3/2 and b = 3/4.  What is positive is not rounded to zero.     *)
TermScore(documents, d, term) ==
    LET f == Frequency(documents[d], term)
        n == Len(documents)
        total == TotalLength(documents)
        idf == Idf(Tabled(Cardinality(Postings(documents, term))), Tabled(n))
        divisor == 8 * f * total + 3 * total + 9 * Len(documents[d].tokens) * n
    IN (1000 * 20 * idf * f * total + divisor - 1) \div divisor

(* A word the question repeats counts once.                                 *)
Bm25(documents, d, query) ==
    Total([i \in DOMAIN query |->
              IF d \in Postings(documents, query[i]) /\ \A j \in 1 .. i - 1 : query[j] # query[i]
              THEN TermScore(documents, d, query[i]) ELSE 0])

(* The texts with some word of the question, by score and then as they come.*)
RankBm25(documents, query) ==
    LET score == [d \in DOMAIN documents |-> Bm25(documents, d, query)]
        found == {d \in DOMAIN documents : score[d] > 0}
        Ahead(d, e) == score[d] > score[e] \/ (score[d] = score[e] /\ d < e)
    IN [k \in 1 .. Cardinality(found) |->
           CHOOSE d \in found : Cardinality({e \in found : Ahead(e, d)}) = k - 1]

----------------------------------------------------------------------------
Consultable_FirstOnly(document, allowed) ==
    SelectSeq(<<Head(document.occurrences)>>, LAMBDA hit : hit.page \in allowed)

Consultable(document, allowed) ==
    HitsAt(document.occurrences,
           {i \in DOMAIN document.occurrences : document.occurrences[i].page \in allowed})

(* Each text is cited by its first chunk in a manual the user may consult,  *)
(* and left out without one.                                                *)
RankAuthorizedLexicalChunks(corpus, query, allowed) ==
    LET documents == BuildGameIndex(corpus)
        ranked == RankBm25(documents, query)
        citable == HitsAt(ranked, {i \in DOMAIN ranked :
                                      Consultable(documents[ranked[i]], allowed) # <<>>})
    IN FirstOf([i \in DOMAIN citable |-> Head(Consultable(documents[citable[i]], allowed))],
               FusionCandidates)
=============================================================================
