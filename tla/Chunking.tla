------------------------------ MODULE Chunking ------------------------------
(* How a text is cut into the chunks that are indexed: along its lines where*)
(* they fit, else along its words, and at last anywhere; every chunk after  *)
(* the first begins with the end of the one before.  Paragraphs and         *)
(* sentences are two more separators that work alike, and are left out.  A  *)
(* text is a sequence of units of size one: parts of words and separators.  *)
EXTENDS Integers, Sequences, SequencesExt

CONSTANTS ChunkSize, Overlap

ASSUME ChunkingAssumption == ChunkSize \in Nat \ {0} /\ Overlap \in Nat

NewLine == "\n"
Space == " "

Strip(text) ==
    LET solid == {i \in DOMAIN text : text[i] \notin {NewLine, Space}}
    IN IF solid = {} THEN <<>> ELSE SubSeq(text, Min(solid), Max(solid))

AddUnit(parts, unit, separator) ==
    IF unit = separator THEN Append(parts, <<>>)
    ELSE [parts EXCEPT ![Len(parts)] = Append(@, unit)]

Parts(text, separator) ==
    LET parts[n \in 0 .. Len(text)] ==
            IF n = 0 THEN <<<<>>>> ELSE AddUnit(parts[n - 1], text[n], separator)
    IN parts[Len(text)]

NonEmpty(texts) ==
    FlattenSeq([i \in DOMAIN texts |-> IF texts[i] = <<>> THEN <<>> ELSE <<texts[i]>>])

Closed_Forgets(split) == split.chunks

(* The chunks, with the one that was being filled.                          *)
Closed(split) == IF split.current = <<>> THEN split.chunks ELSE Append(split.chunks, split.current)

(* One more part joins the chunk being filled, begins another one, or leaves*)
(* its pieces, by the next separator, when it alone does not fit.           *)
AddPart(split, part, separator, pieces) ==
    LET candidate == IF split.current = <<>> THEN part ELSE split.current \o <<separator>> \o part
    IN CASE Len(candidate) <= ChunkSize -> [split EXCEPT !.current = candidate]
         [] Len(candidate) > ChunkSize /\ Len(part) <= ChunkSize ->
                [chunks |-> Closed(split), current |-> part]
         [] OTHER -> [chunks |-> Closed(split) \o pieces[part], current |-> <<>>]

SplitBy(separator, text, pieces) ==
    CASE Len(text) <= ChunkSize -> <<text>>
      [] Len(text) > ChunkSize /\ separator \notin ToSet(text) -> pieces[text]
      [] OTHER ->
            LET parts == Parts(text, separator)
                split[n \in 0 .. Len(parts)] ==
                    IF n = 0 THEN [chunks |-> <<>>, current |-> <<>>]
                    ELSE AddPart(split[n - 1], parts[n], separator, pieces)
                closed == Closed(split[Len(parts)])
            IN NonEmpty([i \in DOMAIN closed |-> Strip(closed[i])])

SplitUnits(text) ==
    [i \in 1 .. (Len(text) + ChunkSize - 1) \div ChunkSize |->
        SubSeq(text, (i - 1) * ChunkSize + 1, Min({i * ChunkSize, Len(text)}))]
SplitWords(text) ==
    SplitBy(Space, text, [word \in ToSet(Parts(text, Space)) |-> SplitUnits(word)])
SplitLines(text) ==
    SplitBy(NewLine, text, [line \in ToSet(Parts(text, NewLine)) |-> SplitWords(line)])

(* The end of a chunk goes before the next one with nothing in between.     *)
ApplyOverlap(chunks) ==
    [i \in DOMAIN chunks |->
        IF i = 1 THEN chunks[i]
        ELSE LET before == chunks[i - 1]
             IN Strip(SubSeq(before, Max({1, Len(before) - Overlap + 1}), Len(before)) \o chunks[i])]

ChunkText(text) ==
    IF Strip(text) = <<>> THEN <<>> ELSE ApplyOverlap(SplitLines(Strip(text)))

----------------------------------------------------------------------------
(* Reference: what a good cut of a text is, whatever the way to it.         *)

WordsOf(text) ==
    LET blank == [i \in DOMAIN text |-> IF text[i] = NewLine THEN Space ELSE text[i]]
    IN NonEmpty(Parts(blank, Space))

(* Without what each chunk repeats of the one before, the chunks are the    *)
(* words of the text in their order, none cut that fits in a chunk.         *)
CoversInOrder(chunks, text) ==
    \E repeated \in [DOMAIN chunks -> 0 .. Overlap] :
        LET own == [i \in DOMAIN chunks |->
                        SubSeq(chunks[i], 1 + (IF i = 1 THEN 0 ELSE repeated[i]), Len(chunks[i]))]
            words == FlattenSeq([i \in DOMAIN own |-> WordsOf(own[i])])
        IN /\ FlattenSeq(words) = FlattenSeq(WordsOf(text))
           /\ (\A word \in ToSet(WordsOf(text)) : Len(word) <= ChunkSize) => words = WordsOf(text)
           /\ \A i \in DOMAIN own : Len(own[i]) \in 1 .. ChunkSize
=============================================================================
