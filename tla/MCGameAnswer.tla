---------------------------- MODULE MCGameAnswer ----------------------------
(* TLC instance of GameAnswer: two users, an image that is a page of four   *)
(* manuals (two of them PDF, one with a text layer) and an image of its own.*)
EXTENDS GameAnswer, TLC

CONSTANTS ana, eva, notes, rules, copy, booklet, sheet

MCUsers == {ana, eva}
MCPages == {notes, rules, copy, booklet, sheet}
MCOwner == (notes :> ana) @@ (rules :> ana) @@ (copy :> eva) @@ (booklet :> eva) @@ (sheet :> eva)
MCShared == {rules, booklet}
MCPdf == {rules, booklet}
MCImage == [p \in MCPages |-> IF p = sheet THEN "own" ELSE "common"]

Whole(part) == [parts |-> <<part>>, hyphen |-> FALSE]
Cut(part) == [parts |-> <<part>>, hyphen |-> TRUE]
Line(text, conf, noise) == [text |-> text, conf |-> conf, noise |-> noise]

MCFragments == {"car", "ta", "s", "mesa", "3", "e", "?"}
MCLexicon == {<<"car", "ta">>, <<"car", "ta", "s">>}
MCReplacements == {<<>>, <<Whole("mesa")>>}
MCTextLayer == [p \in MCPages |-> <<<<Whole(IF p = booklet THEN "ta" ELSE "?")>>>>]
MCHandWritten == {<<<<Whole("car"), Whole("ta")>>, <<Whole("mesa")>>>>}

(* Thresholds 2 (line), 1 (discard), 3 (LLM) and 4 (page).                  *)
MCCommonReadings ==
    {<<>>, <<Line(<<Whole("car")>>, 4, "no")>>, <<Line(<<Whole("mesa")>>, 3, "no")>>}

(* Up to three lines with cut words, words alone on their line, a bullet,   *)
(* noise and a line nobody trusts; and lines for the LLM.                   *)
MCPlainLines ==
    {Line(<<Cut("car")>>, 4, "no"), Line(<<Cut("ta")>>, 4, "no"),
     Line(<<Whole("s"), Whole("mesa")>>, 4, "no"), Line(<<Whole("ta")>>, NoConfidence, "likely"),
     Line(<<Whole("e"), Whole("mesa"), Cut("car")>>, 3, "no"),
     Line(<<Whole("3")>>, 1, "likely"), Line(<<Whole("ta")>>, 0, "no")}
MCDoubtful(text) == Line(text, 2, "no")
MCOwnReadings ==
    BoundedSeq(MCPlainLines, 2) \cup
    {<<cut>> \o rest : cut \in {line \in MCPlainLines : Last(line.text).hyphen},
                       rest \in [1 .. 2 -> MCPlainLines]} \cup
    {<<MCDoubtful(<<Whole("car"), Whole("3")>>)>>,
     <<MCDoubtful(<<Whole("car")>>), MCDoubtful(<<Whole("3")>>)>>,
     <<MCDoubtful(<<Cut("car")>>), Line(<<Whole("ta")>>, 4, "sure"), Line(<<Whole("ta")>>, 4, "no")>>}

MCReadings == [common |-> MCCommonReadings, own |-> MCOwnReadings]

MCQuestions == {<<>>, <<<<"car", "s">>, <<"mesa">>, <<"ta">>>>}
MCStopwords == {<<"ta">>}

(* 100 log(1 + (n - d + 0.5) / (d + 0.5)) = 100 log((2n + 2) / (2d + 1)).    *)
MCIdf(d, n) ==
    LET hundredths == <<<<28>>, <<69, 18>>, <<98, 47, 13>>, <<120, 69, 35, 10>>,
                        <<138, 87, 53, 28, 8>>, <<154, 102, 69, 44, 24, 7>>>>
    IN hundredths[n][d]

(* The behaviours explored start from one of three cases: a page is read    *)
(* and corrected, with every answer of the LLM; one or two pages with an    *)
(* image read before are processed, while any is copied and deleted, and    *)
(* one is edited or processed again, or both when the page read before is   *)
(* shared; or three pages are in the index, one a copy of another, and a    *)
(* question is asked while they change.                                     *)
Text(p, word) == [by |-> p, how |-> "ocr", words |-> <<<<Whole(word)>>>>]
Read(p, text, from) ==
    [NewPage(p) EXCEPT !.ocr_status = "completed", !.text_source = "ocr", !.text_quality = "ok",
                       !.image = TRUE, !.source_fingerprint = TRUE,
                       !.reused_from = from, !.lines = text]

FirstChunks(p, texts) == {[id |-> <<p, 1, i>>, text |-> texts[i]] : i \in DOMAIN texts}

(* The text of each page that has been read, and the pages under way.       *)
Beginning(text, from, processing) ==
    LET read == DOMAIN text IN
    /\ pages = [p \in Pages |-> IF p \in read THEN Read(p, text[p], from[p]) ELSE NewPage(p)]
    /\ manuals = [p \in Pages |-> IF p \in read THEN "active"
                                  ELSE IF p \in processing THEN "indexing" ELSE "hidden"]
    /\ chunks = [p \in Pages |-> IF p \in read THEN FirstChunks(p, ChunkTexts(text[p])) ELSE {}]
    /\ version = [p \in Pages |-> IF p \in read THEN 1 ELSE 0]

ReadingAPage ==
    /\ Beginning(<<>>, <<>>, {sheet})
    /\ edits = MaxEdits /\ reprocesses = MaxReprocess /\ question = NoQuestion(MaxQuestions)

Reusing ==
    /\ \/ /\ Beginning((notes :> Text(notes, "car")) @@ (copy :> Text(copy, "mesa")),
                       (notes :> NoPage) @@ (copy :> NoPage), {rules})
          /\ edits = 0 /\ reprocesses = MaxReprocess
       \/ /\ Beginning(notes :> Text(notes, "car"), notes :> NoPage, {rules, copy})
          /\ edits = MaxEdits /\ reprocesses = MaxReprocess
       \/ /\ Beginning(rules :> Text(rules, "car"), rules :> NoPage, {copy})
          /\ edits = 0 /\ reprocesses = 0
       \/ /\ Beginning(notes :> Text(notes, "car"), notes :> NoPage, {booklet})
          /\ \/ edits = 0 /\ reprocesses = MaxReprocess
             \/ edits = MaxEdits /\ reprocesses = 0
    /\ question = NoQuestion(MaxQuestions)

Asking ==
    /\ Beginning((notes :> Text(notes, "car")) @@ (rules :> Text(notes, "car"))
                    @@ (sheet :> Text(sheet, "mesa")),
                 (notes :> NoPage) @@ (rules :> notes) @@ (sheet :> NoPage), {})
    /\ edits = 0 /\ reprocesses = MaxReprocess /\ question = NoQuestion(0)

MCInit ==
    /\ OcrInit
    /\ ReadingAPage \/ Reusing \/ Asking
    /\ chroma = chunks
    /\ task = [p \in Pages |-> Idle]
    /\ storing = [p \in Pages |-> NotBegun] /\ editing = [p \in Pages |-> NotBegun]
    /\ crossed = {} /\ unsynced = {} /\ purges = {}

MCSpec == MCInit /\ [][Next]_vars
=============================================================================
