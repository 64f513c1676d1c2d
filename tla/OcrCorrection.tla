--------------------------- MODULE OcrCorrection ---------------------------
(* What the API makes of the lines the OCR service read on one page: noise  *)
(* and lines nobody trusts are dropped, words cut by a hyphen at the end of *)
(* a line are joined, the lines of doubtful confidence are corrected by the *)
(* vote of three answers of the LLM, and every change is annotated.         *)
(* A word is the sequence of its parts: one part, or the parts a hyphen     *)
(* divided; letters are never looked at one by one.                         *)
EXTENDS Integers, Sequences, FiniteSets, SequencesExt

CONSTANTS
    Fragments,      \* the parts of words
    Numbers,        \* the parts that are digits
    Bullet,         \* the part the OCR reads where the page has a bullet
    Lexicon,        \* the Spanish words, as sequences of parts
    NoConfidence,   \* the confidence of a line the engine gave none
    LowLine, DiscardBelow, LlmBelow,    \* thresholds of the confidence
    Replacements    \* the word sequences the LLM may put in the place of others

ASSUME ThresholdsAssumption ==
    /\ LowLine \in Nat /\ DiscardBelow \in Nat /\ LlmBelow \in Nat
    /\ DiscardBelow <= LlmBelow

VARIABLE
    ocr     \* the correction of the page that is under way

Words == [parts : Seq(Fragments), hyphen : BOOLEAN]
Lines == [text : Seq(Words), conf : Nat \cup {NoConfidence},
          noise : {"no", "likely", "sure"}]

ASSUME ReplacementsAssumption == Replacements \subseteq Seq(Words)

(* The elements of a sequence that are in a set, in their order.            *)
Within(seq, S) == FlattenSeq([i \in DOMAIN seq |-> IF seq[i] \in S THEN <<seq[i]>> ELSE <<>>])

(* The parts and the digits of a sequence of words, in their order.         *)
Letters(words) == FlattenSeq([i \in DOMAIN words |-> words[i].parts])
Digits(words) == Within(Letters(words), Numbers)
AllWords(texts) == FlattenSeq(texts)
TextsOf(lines) == [i \in DOMAIN lines |-> lines[i].text]

----------------------------------------------------------------------------
(* The rules, in the order the page goes through them.                      *)

(* A text with hardly a letter is noise; a short one, or one of symbols,    *)
(* only where the OCR doubted it.                                           *)
IsProbableNoise(line) ==
    \/ line.noise = "sure"
    \/ /\ line.noise = "likely"
       /\ line.conf # NoConfidence
       /\ line.conf < LowLine

Postprocess(lines) ==
    Within(lines, {l \in Range(lines) : l.text # <<>> /\ ~IsProbableNoise(l)})

(* The words of the page count as words, those of discarded lines too.      *)
Vocabulary(lines) ==
    Lexicon \cup {w.parts : w \in ToSet(AllWords(TextsOf(lines)))}

ConfidenceGate(lines) ==
    Within(lines, {l \in Range(lines) : l.conf = NoConfidence \/ l.conf >= DiscardBelow})

StripBullet(line) ==
    IF Len(line.text) > 1 /\ Head(line.text).parts = <<Bullet>>
    THEN [line EXCEPT !.text = Tail(@)]
    ELSE line

CleanLines(lines) ==
    LET kept == ConfidenceGate(lines) IN [i \in DOMAIN kept |-> StripBullet(kept[i])]

(* Two lines hide a word when the first ends in a hyphen and its last word  *)
(* followed by the first of the next one is a word of the vocabulary.       *)
JoinHyphenated(current, next, vocabulary) ==
    /\ Last(current).hyphen
    /\ Last(current).parts # <<>>
    /\ Head(next).parts # <<>>
    /\ Last(current).parts \o Head(next).parts \in vocabulary

JoinedText(current, next) ==
    Append(Front(current),
           [parts |-> Last(current).parts \o Head(next).parts, hyphen |-> Head(next).hyphen])

(* The three lists of merge_hyphenated_lines: the lines, the text each one  *)
(* is compared with, and the words it had cut.                              *)
JoinFirstWord(merged, line) ==
    LET n == Len(merged.lines)
        current == merged.lines[n].text
    IN [lines |-> [merged.lines EXCEPT ![n].text = JoinedText(current, line.text)],
        bases |-> [merged.bases EXCEPT ![n] = Append(@, Head(line.text))],
        joins |-> [merged.joins EXCEPT ![n] = @ \cup {<<Last(current), Head(line.text)>>}]]

AddLine(merged, line) ==
    IF line.text = <<>> THEN merged
    ELSE [lines |-> Append(merged.lines, line),
          bases |-> Append(merged.bases, line.text),
          joins |-> Append(merged.joins, {})]

(* One more line stays as it is, loses its first word or disappears.        *)
MergeLine_KeepsWord(merged, line, vocabulary) ==
    LET n == Len(merged.lines)
    IN IF n > 0 /\ JoinHyphenated(merged.lines[n].text, line.text, vocabulary)
       THEN AddLine(JoinFirstWord(merged, line), line)
       ELSE AddLine(merged, line)

MergeLine(merged, line, vocabulary) ==
    LET n == Len(merged.lines)
    IN IF n > 0 /\ JoinHyphenated(merged.lines[n].text, line.text, vocabulary)
       THEN AddLine(JoinFirstWord(merged, line), [line EXCEPT !.text = Tail(@)])
       ELSE AddLine(merged, line)

MergeHyphenated(lines, vocabulary) ==
    LET merged[n \in 0 .. Len(lines)] ==
            IF n = 0 THEN [lines |-> <<>>, bases |-> <<>>, joins |-> <<>>]
            ELSE MergeLine(merged[n - 1], lines[n], vocabulary)
    IN merged[Len(lines)]

ApplyCorrectionRules(lines, vocabulary) == MergeHyphenated(CleanLines(lines), vocabulary)

----------------------------------------------------------------------------
(* The vote.  An answer of the LLM is the edits that turn the line into it: *)
(* words start+1 to end give way to the replacement.                        *)

Edits(words) ==
    {[start |-> s, end |-> e, replacement |-> r] :
        s \in 0 .. Len(words), e \in 0 .. Len(words), r \in Replacements}

OverlapsAny(e, f) == e.start < f.end /\ f.start < e.end

(* Two edits of one answer have a word that stays between them.             *)
Apart(e, f) == e.end < f.start \/ f.end < e.start

IsAnswer(edits, words) ==
    /\ edits \subseteq Edits(words)
    /\ \A e \in edits : /\ e.start <= e.end
                        /\ e.start < e.end \/ e.replacement # <<>>
                        /\ SubSeq(words, e.start + 1, e.end) # e.replacement
    /\ \A e, f \in edits : e = f \/ Apart(e, f)

Votes(edit, answers) == Cardinality({i \in DOMAIN answers : edit \in answers[i]})

HasMajority_First(edit, answers) == edit \in answers[1]

HasMajority(edit, answers) == Votes(edit, answers) >= 2

KeepsDigits(edit, words) ==
    Digits(SubSeq(words, edit.start + 1, edit.end)) = Digits(edit.replacement)

(* At most one edit of an answer starts at a word.                          *)
StartingAt(edits, start) == SetToSeq({e \in edits : e.start = start})

(* The edits are looked at in the order of the answers and, in an answer,   *)
(* of the line.                                                             *)
InLineOrder(edits, words) ==
    FlattenSeq([i \in 1 .. Len(words) + 1 |-> StartingAt(edits, i - 1)])

Proposed(answers, words) ==
    FlattenSeq([i \in DOMAIN answers |-> InLineOrder(answers[i], words)])

Approve(approved, edit, answers, words) ==
    IF /\ edit \notin approved
       /\ HasMajority(edit, answers)
       /\ edit.replacement # <<>>
       /\ KeepsDigits(edit, words)
       /\ \A other \in approved : ~OverlapsAny(edit, other)
    THEN approved \cup {edit}
    ELSE approved

Approved(answers, words) ==
    LET proposed == Proposed(answers, words)
        approved[n \in 0 .. Len(proposed)] ==
            IF n = 0 THEN {}
            ELSE Approve(approved[n - 1], proposed[n], answers, words)
    IN approved[Len(proposed)]

Splice(words, edit) ==
    SubSeq(words, 1, edit.start) \o edit.replacement
        \o SubSeq(words, edit.end + 1, Len(words))

(* From the last edit to the first, so that the positions stay true.        *)
ApplyEdits(words, edits) ==
    LET text[n \in 0 .. Len(words) + 1] ==
            IF n = 0 THEN words
            ELSE LET here == {e \in edits : e.start = Len(words) + 1 - n}
                 IN IF here = {} THEN text[n - 1]
                    ELSE Splice(text[n - 1], CHOOSE e \in here : TRUE)
    IN text[Len(words) + 1]

Consensus(answers, words) == ApplyEdits(words, Approved(answers, words))

----------------------------------------------------------------------------
(* The correction of a page, line by line.                                  *)

NotHeard == [words |-> <<>>, answers |-> <<>>, text |-> <<>>]

NoPageRead ==
    [stage |-> "idle", raw |-> <<>>, lines |-> <<>>, bases |-> <<>>, joins |-> <<>>,
     at |-> 0, llm_enabled |-> FALSE, heard |-> NotHeard]

OcrInit == ocr = NoPageRead

NeedsLlm(line) ==
    /\ line.conf # NoConfidence
    /\ DiscardBelow <= line.conf
    /\ line.conf < LlmBelow

(* The OCR service answers; the rules run without waiting for anything.     *)
RunOcr(raw, configured) ==
    LET processed == Postprocess(raw)
        ruled == ApplyCorrectionRules(processed, Vocabulary(processed))
    IN /\ ocr.stage = "idle"
       /\ ocr' = [NoPageRead EXCEPT !.stage = "correcting", !.raw = raw, !.lines = ruled.lines,
                                    !.bases = ruled.bases, !.joins = ruled.joins,
                                    !.at = 1, !.llm_enabled = configured]

Correcting == ocr.stage = "correcting" /\ ocr.at <= Len(ocr.lines)
Doubtful == ocr.llm_enabled /\ NeedsLlm(ocr.lines[ocr.at])

KeepLine ==
    /\ Correcting /\ ~Doubtful
    /\ ocr' = [ocr EXCEPT !.at = @ + 1, !.heard = NotHeard]

(* Three prompts, one after the other, and their consensus.                 *)
CorrectLine(answers) ==
    LET words == ocr.lines[ocr.at].text
        text == Consensus(answers, words)
    IN /\ Correcting /\ Doubtful
       /\ \A i \in DOMAIN answers : IsAnswer(answers[i], words)
       /\ ocr' = [ocr EXCEPT !.lines[ocr.at].text = text, !.at = @ + 1,
                             !.heard = [words |-> words, answers |-> answers, text |-> text]]

(* One of the three fails: the line stays and no other is asked about.      *)
CorrectionFails ==
    /\ Correcting /\ Doubtful
    /\ ocr' = [ocr EXCEPT !.at = @ + 1, !.llm_enabled = FALSE, !.heard = NotHeard]

(* The three lists are walked together, and must be of one length.          *)
AnnotateLines ==
    /\ ocr.stage = "correcting" /\ ocr.at > Len(ocr.lines)
    /\ Len(ocr.lines) = Len(ocr.bases) /\ Len(ocr.lines) = Len(ocr.joins)
    /\ ocr' = [ocr EXCEPT !.stage = "done", !.heard = NotHeard]

(* The answers possible for a line, with two edits at the most.             *)
Answers(words) ==
    LET single == {e \in Edits(words) : IsAnswer({e}, words)}
    IN {{}} \cup {pair \in {{e, f} : e \in single, f \in single} : IsAnswer(pair, words)}

OcrNext ==
    \/ KeepLine
    \/ /\ Correcting /\ Doubtful
       /\ \E answers \in [1 .. 3 -> Answers(ocr.lines[ocr.at].text)] : CorrectLine(answers)
    \/ CorrectionFails
    \/ AnnotateLines

----------------------------------------------------------------------------
(* The lines that survive noise and doubt, as the OCR read them.            *)
Survivors == CleanLines(Postprocess(ocr.raw))

(* The rules move words between lines and join them, and lose nothing: the  *)
(* text the annotations are computed against holds, in order, every part of *)
(* every line that survived, each line has its base and its joins, and a    *)
(* line the LLM has not touched has the letters of its base.                *)
NoLetterLost ==
    ocr.stage # "idle" =>
        /\ Len(ocr.bases) = Len(ocr.lines) /\ Len(ocr.joins) = Len(ocr.lines)
        /\ Letters(AllWords(ocr.bases)) = Letters(AllWords(TextsOf(Survivors)))
        /\ \A i \in DOMAIN ocr.lines :
               \/ Letters(ocr.lines[i].text) = Letters(ocr.bases[i])
               \/ i < ocr.at /\ NeedsLlm(ocr.lines[i])

(* The text three answers agree on does not depend on which came first,     *)
(* keeps the numbers of the line in their order, never empties the line,    *)
(* and keeps each word no majority replaced.                                *)
MajorityDecides ==
    LET words == ocr.heard.words
        answers == ocr.heard.answers
        majority == {e \in UNION Range(answers) : Votes(e, answers) >= 2}
        kept == {i \in DOMAIN words : \A e \in majority : i <= e.start \/ i > e.end}
    IN answers # <<>> =>
        /\ \A order \in Bijection(1 .. 3, 1 .. 3) :
               Consensus([i \in 1 .. 3 |-> answers[order[i]]], words) = ocr.heard.text
        /\ Digits(ocr.heard.text) = Digits(words)
        /\ ocr.heard.text # <<>>
        /\ \A i \in kept : words[i] \in ToSet(ocr.heard.text)
=============================================================================
