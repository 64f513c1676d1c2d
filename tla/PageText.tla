------------------------------ MODULE PageText ------------------------------
(* Where the text of a page comes from: the text layer of its PDF, the OCR  *)
(* of its image, a page with the same image that was read before, or its    *)
(* owner's hand.  Every manual here has one page, so that a page and its    *)
(* manual go by one name; one image may be the page of several manuals, of  *)
(* several owners.  Claims, retries and the closing of manuals with many    *)
(* pages are in ManualPipeline, the index in ManualIndex.                   *)
EXTENDS OcrCorrection, Chunking

CONSTANTS
    Pages, NoPage,
    Users,
    Owner,          \* who uploaded each page
    Shared,         \* the pages of manuals with visibility "shared"
    Image,          \* what the image of a page shows: its fingerprint
    Pdf,            \* the pages of PDF manuals
    TextLayer,      \* what the text layer of a PDF page says
    Garbled,        \* units that stand for characters no text has
    Marks,          \* units that are neither letters nor digits
    PdfMinChars, PdfMinWords,                   \* PDF_TEXT_MIN_*, and in %
    PdfMaxGarbled, PdfMinAlnum,                 \* PDF_TEXT_MAX_BAD_CHAR_RATIO, MIN_ALNUM_RATIO
    OcrReadings,    \* what the OCR may read on an image
    HandWritten,    \* what an owner may write on a page
    Hyphen,
    LowPage,        \* OCR_LOW_CONFIDENCE_THRESHOLD
    MaxEdits, MaxReprocess

ASSUME PagesAssumption ==
    /\ NoPage \notin Pages /\ IsFiniteSet(Pages)
    /\ Owner \in [Pages -> Users]
    /\ Shared \subseteq Pages /\ Pdf \subseteq Pages
    /\ MaxEdits \in Nat /\ MaxReprocess \in Nat

ASSUME ReadingsAssumption ==
    /\ \A p \in Pages : /\ OcrReadings[Image[p]] \subseteq Seq(Lines)
                       /\ TextLayer[p] \in Seq(Seq(Words))
    /\ HandWritten \subseteq Seq(Seq(Words))

VARIABLES
    pages,      \* the rows of manual_pages
    chunks,     \* the rows of manual_chunks of each page
    manuals,    \* the status of each manual, "hidden" once it is deleted
    version,    \* how many results each page has had: names its chunks
    task,       \* the task that processes each page
    storing,    \* what it has read of the page to store its result
    editing,    \* the edit of each page: its checks, and what it has read
    crossed,    \* history: pages with lines of one result and chunks of another
    unsynced,   \* manuals edited and not yet sent to RAG
    edits, reprocesses

writing == <<storing, editing>>
pageVars == <<pages, chunks, manuals, version, task, writing, crossed, unsynced, edits, reprocesses>>

(* A text is known by the page it was read on, how, and what it says.       *)
NoText == [by |-> NoPage, how |-> "none", words |-> <<>>]
Idle == [at |-> "idle", from |-> NoPage, seen |-> 0, lines |-> NoText, quality |-> "empty",
         source |-> "none", chunk_texts |-> <<>>, torn |-> FALSE]

(* What a transaction that replaces a page has done: nothing or its checks, *)
(* the read of the row, or the DELETE of the chunks too.                    *)
NotBegun == [at |-> "idle"]
Checked == [at |-> "checked"]

NewPage(p) ==
    [ocr_status |-> "pending", text_source |-> "none", text_quality |-> "none",
     image |-> p \notin Pdf, source_fingerprint |-> p \notin Pdf,
     reused_from |-> NoPage, lines |-> NoText]

PageTextInit ==
    /\ OcrInit
    /\ pages = [p \in Pages |-> NewPage(p)]
    /\ chunks = [p \in Pages |-> {}]
    /\ manuals = [p \in Pages |-> "indexing"]
    /\ version = [p \in Pages |-> 0]
    /\ task = [p \in Pages |-> Idle]
    /\ storing = [p \in Pages |-> NotBegun] /\ editing = [p \in Pages |-> NotBegun]
    /\ crossed = {} /\ unsynced = {}
    /\ edits = 0 /\ reprocesses = 0

Alive(p) == manuals[p] # "hidden"

----------------------------------------------------------------------------
(* Storing a result.                                                        *)

Join(texts, separator) ==
    LET joined[n \in 0 .. Len(texts)] ==
            IF n = 0 THEN <<>>
            ELSE IF joined[n - 1] = <<>> THEN texts[n]
            ELSE joined[n - 1] \o <<separator>> \o texts[n]
    IN joined[Len(texts)]

(* normalize_ocr_lines: lines without words disappear.                      *)
Normalized(lines) ==
    LET word(w) == w.parts \o IF w.hyphen THEN <<Hyphen>> ELSE <<>>
        line(l) == Join([i \in DOMAIN l |-> word(l[i])], Space)
    IN Join(NonEmpty([i \in DOMAIN lines |-> line(lines[i])]), NewLine)

ChunkTexts(text) ==
    LET cut == ChunkText(Normalized(text.words))
    IN [i \in DOMAIN cut |-> [by |-> text.by, how |-> text.how, text |-> cut[i]]]

(* A new row, with a new id, for each chunk, numbered in the page.          *)
PrepareTextChunks(p, texts) ==
    {[id |-> <<p, version[p] + 1, i>>, text |-> texts[i]] : i \in DOMAIN texts}

(* The texts of the chunks of a page, by their index, which no two share.   *)
ChunksInOrder(p) ==
    [i \in {c.id[3] : c \in chunks[p]} |-> (CHOOSE c \in chunks[p] : c.id[3] = i).text]

(* The mean confidence of the lines, weighted by their length.              *)
Weighted(lines) == SelectSeq(lines, LAMBDA l : l.conf # NoConfidence)
Weight(lines) == FoldLeft(LAMBDA n, l : n + Len(Letters(l.text)), 0, Weighted(lines))
Confidence(lines) == FoldLeft(LAMBDA n, l : n + l.conf * Len(Letters(l.text)), 0, Weighted(lines))

LowConfidence(lines) ==
    Weight(lines) > 0 /\ Confidence(lines) < LowPage * Weight(lines)

Result(text, source, low) ==
    LET texts == ChunkTexts(text)
    IN [lines |-> text, chunk_texts |-> texts, from |-> NoPage, torn |-> FALSE,
        source |-> IF texts = <<>> THEN "none" ELSE source,
        quality |-> IF texts = <<>> THEN "empty" ELSE IF low THEN "low_confidence" ELSE "ok"]

(* The row a transaction loaded, which another one may have changed since,  *)
(* and the chunks another one stored that its DELETE did not see.           *)
Loaded(p, own) == IF own.at \in {"loaded", "deleted"} THEN own.row ELSE pages[p]
Unseen(p, own) == IF own.at = "deleted" /\ own.seen # version[p] THEN chunks[p] ELSE {}

(* Only the columns that differ from the row loaded are written.  Lines     *)
(* that say the same may differ in a confidence, or not.                    *)
Column(p, own, name, new) == IF Loaded(p, own)[name] = new THEN pages[p][name] ELSE new
LinesLeft(p, own, text) ==
    {text} \cup (IF text.words = Loaded(p, own).lines.words /\ text.words # pages[p].lines.words
                 THEN {pages[p].lines} ELSE {})

ReplacePageResult_Upserts(p, own, result) ==
    /\ pages' = [pages EXCEPT ![p].ocr_status = "completed", ![p].lines = result.lines,
                              ![p].text_source = result.source, ![p].text_quality = result.quality,
                              ![p].reused_from = result.from]
    /\ chunks' = [chunks EXCEPT ![p] = {c \in @ : c.id[3] \notin DOMAIN result.chunk_texts}
                                           \cup PrepareTextChunks(p, result.chunk_texts)]
    /\ version' = [version EXCEPT ![p] = @ + 1]
    /\ crossed' = IF result.torn THEN crossed \cup {p} ELSE crossed \ {p}

(* replace_page_result: the chunks of the page are deleted and written anew *)
(* with the row, in one transaction that takes no lock.  Chunks it has not  *)
(* seen stay, and as no two chunks have one index, only a result without    *)
(* any can be stored beside them.                                           *)
ReplacePageResult(p, own, result) ==
    LET unseen == Unseen(p, own) IN
    /\ unseen = {} \/ result.chunk_texts = <<>>
    /\ \E lines \in LinesLeft(p, own, result.lines) :
         /\ pages' = [pages EXCEPT
                ![p].ocr_status = Column(p, own, "ocr_status", "completed"), ![p].lines = lines,
                ![p].text_source = Column(p, own, "text_source", result.source),
                ![p].text_quality = Column(p, own, "text_quality", result.quality),
                ![p].reused_from = Column(p, own, "reused_from", result.from)]
         /\ crossed' = IF result.torn \/ unseen # {} \/ lines # result.lines
                       THEN crossed \cup {p} ELSE crossed \ {p}
    /\ chunks' = [chunks EXCEPT ![p] = unseen \cup PrepareTextChunks(p, result.chunk_texts)]
    /\ version' = [version EXCEPT ![p] = @ + 1]

StoreResult(p, result) ==
    /\ ReplacePageResult(p, storing[p], result)
    /\ task' = [task EXCEPT ![p] = Idle]
    /\ storing' = [storing EXCEPT ![p] = NotBegun]
    /\ UNCHANGED <<manuals, editing, unsynced, edits, reprocesses>>

MarkPageFailed(p) ==
    /\ pages' = [pages EXCEPT ![p].ocr_status = "failed"]
    /\ task' = [task EXCEPT ![p] = Idle]
    /\ storing' = [storing EXCEPT ![p] = NotBegun]
    /\ UNCHANGED <<chunks, manuals, version, editing, crossed, unsynced, edits, reprocesses>>

Move(p, at) == task' = [task EXCEPT ![p].at = at]

----------------------------------------------------------------------------
(* The task of a page.                                                      *)

ClaimPage(p) ==
    /\ task[p].at = "idle" /\ manuals[p] = "indexing"
    /\ pages[p].ocr_status = "pending"
    /\ pages' = [pages EXCEPT ![p].ocr_status = "processing"]
    /\ Move(p, IF p \in Pdf THEN "pdf" ELSE "looking")
    /\ UNCHANGED <<ocr, chunks, manuals, version, writing, crossed, unsynced, edits, reprocesses>>

(* The database fails or refuses the chunks, or the image is not on disk.   *)
PageFails(p) ==
    /\ task[p].at \in {"layer", "looking", "found", "copying"}
    /\ MarkPageFailed(p)
    /\ UNCHANGED ocr

(* The PDF is not on disk.                                                  *)
SourceMissing(p) ==
    /\ task[p].at = "pdf"
    /\ MarkPageFailed(p)
    /\ UNCHANGED ocr

(* The OCR service is down, late, or answers with an error or nonsense.     *)
OcrFails(p) ==
    /\ task[p].at = "ocr"
    /\ MarkPageFailed(p)
    /\ UNCHANGED ocr

PdfTextIsUsable(words) ==
    LET text == Normalized(words)
        garbled == {i \in DOMAIN text : text[i] \in Garbled}
        useful == {i \in DOMAIN text : text[i] \notin Garbled \cup {Space, NewLine}}
        alnum == {i \in useful : text[i] \notin Marks}
    IN /\ Len(text) >= PdfMinChars /\ Len(WordsOf(text)) >= PdfMinWords
       /\ 100 * Cardinality(garbled) <= PdfMaxGarbled * Len(text)
       /\ 100 * Cardinality(alnum) >= PdfMinAlnum * IF useful = {} THEN 1 ELSE Cardinality(useful)

(* The text layer decides; a PDF that cannot be read has none.  A page that *)
(* has its image needs no render.                                           *)
ExtractPdfPageText(p) ==
    /\ task[p].at = "pdf"
    /\ \E words \in {TextLayer[p], <<>>} :
         LET usable == PdfTextIsUsable(words)
         IN task' = [task EXCEPT
                ![p].lines = IF usable THEN [by |-> p, how |-> "pdf_text", words |-> words]
                             ELSE NoText,
                ![p].at = CASE ~pages[p].image -> "rendering"
                            [] pages[p].image /\ usable -> "layer"
                            [] OTHER -> "looking"]
    /\ UNCHANGED <<ocr, pages, chunks, manuals, version, writing, crossed, unsynced, edits, reprocesses>>

HasLayer(p) == task[p].lines # NoText

(* The render is committed with its fingerprint before the text is known.   *)
PersistPdfPageImage(p) ==
    /\ task[p].at = "rendering"
    /\ pages' = [pages EXCEPT ![p].image = TRUE, ![p].source_fingerprint = TRUE]
    /\ Move(p, IF HasLayer(p) THEN "layer" ELSE "looking")
    /\ UNCHANGED <<ocr, chunks, manuals, version, writing, crossed, unsynced, edits, reprocesses>>

(* No scale makes the page fit, pdfium fails, or the image is not stored.   *)
RenderFails(p) ==
    /\ task[p].at = "rendering" /\ ~HasLayer(p)
    /\ MarkPageFailed(p)
    /\ UNCHANGED ocr

(* Only the reader of the manual misses a render that fails.                *)
RenderForViewerFails(p) ==
    /\ task[p].at = "rendering" /\ HasLayer(p)
    /\ Move(p, "layer")
    /\ UNCHANGED <<ocr, pages, chunks, manuals, version, writing, crossed, unsynced, edits, reprocesses>>

StorePdfText(p) ==
    /\ task[p].at = "layer"
    /\ StoreResult(p, Result(task[p].lines, "pdf_text", FALSE))
    /\ UNCHANGED ocr

ReadableManual_Active(q, user) == Owner[q] = user \/ manuals[q] = "active"

(* An owner reads their own manuals and the shared ones that are active.    *)
ReadableManual(q, user) ==
    Owner[q] = user \/ (q \in Shared /\ manuals[q] = "active")

Reusable(p) ==
    {q \in Pages \ {p} :
        /\ Image[q] = Image[p] /\ pages[q].source_fingerprint
        /\ Alive(q) /\ ReadableManual(q, Owner[p])
        /\ pages[q].reused_from = NoPage
        /\ pages[q].ocr_status = "completed"
        /\ pages[q].text_quality \in {"ok", "empty"}}

(* First query: the row of the page that will be copied.  The code takes the*)
(* one updated last, which is any of them here.                             *)
FindReusablePage(p) ==
    /\ task[p].at = "looking"
    /\ \/ /\ Reusable(p) = {} /\ Move(p, "ocr")
       \/ \E q \in Reusable(p) :
            task' = [task EXCEPT ![p] = [Idle EXCEPT !.at = "found", !.from = q,
                                            !.seen = version[q], !.lines = pages[q].lines,
                                            !.quality = pages[q].text_quality,
                                            !.source = pages[q].text_source]]
    /\ UNCHANGED <<ocr, pages, chunks, manuals, version, writing, crossed, unsynced, edits, reprocesses>>

(* Second query, with a snapshot of its own: the texts of its chunks.       *)
ReadReusableChunks(p) ==
    /\ task[p].at = "found"
    /\ task' = [task EXCEPT ![p].at = "copying",
                            ![p].chunk_texts = ChunksInOrder(task[p].from),
                            ![p].torn = \/ version[task[p].from] # task[p].seen
                                        \/ task[p].from \in crossed]
    /\ UNCHANGED <<ocr, pages, chunks, manuals, version, writing, crossed, unsynced, edits, reprocesses>>

StoreCopy(p) ==
    /\ task[p].at = "copying"
    /\ StoreResult(p, task[p])
    /\ UNCHANGED ocr

(* One page at a time is read and corrected; OCR of two pages share nothing.*)
StartOcr(p) ==
    /\ task[p].at = "ocr"
    /\ \E raw \in OcrReadings[Image[p]], configured \in BOOLEAN : RunOcr(raw, configured)
    /\ Move(p, "reading")
    /\ UNCHANGED <<pages, chunks, manuals, version, writing, crossed, unsynced, edits, reprocesses>>

StoreOcr(p) ==
    /\ task[p].at = "reading" /\ ocr.stage = "done"
    /\ StoreResult(p, Result([by |-> p, how |-> "ocr", words |-> TextsOf(ocr.lines)], "ocr",
                             LowConfidence(ocr.lines)))
    /\ ocr' = NoPageRead

(* The database fails, or refuses chunks whose indexes an edit has taken.   *)
ResultFails(p) ==
    /\ task[p].at = "reading" /\ ocr.stage = "done"
    /\ MarkPageFailed(p)
    /\ ocr' = NoPageRead

----------------------------------------------------------------------------
(* The manual and its owner.                                                *)

ResolvedStatus(p) ==
    CASE chunks[p] = {} -> "failed"
      [] chunks[p] # {} /\ pages[p].ocr_status \in {"pending", "processing"} -> "indexing"
      [] chunks[p] # {} /\ (pages[p].ocr_status = "failed" \/ pages[p].text_quality = "low_confidence")
            -> "pending_review"
      [] OTHER -> "active"

(* The finalizer takes the lock of the manual.                              *)
FinalizeManual(p) ==
    /\ manuals[p] = "indexing" /\ editing[p].at = "idle"
    /\ pages[p].ocr_status \in {"completed", "failed"}
    /\ manuals' = [manuals EXCEPT ![p] = ResolvedStatus(p)]
    /\ UNCHANGED <<ocr, pages, chunks, version, task, writing, crossed, unsynced, edits, reprocesses>>

(* Only the owner's, only private, only when nothing processes it.  The     *)
(* lock of the manual is held until the edit is stored, but a reprocess     *)
(* request and a deletion take no lock.                                     *)
CheckEdit(p) ==
    /\ edits < MaxEdits /\ editing[p].at = "idle"
    /\ Alive(p) /\ manuals[p] # "indexing" /\ p \notin Shared
    /\ editing' = [editing EXCEPT ![p] = Checked]
    /\ edits' = edits + 1
    /\ UNCHANGED <<ocr, pages, chunks, manuals, version, task, storing, crossed, unsynced, reprocesses>>

EditPageText(p) ==
    /\ editing[p].at # "idle"
    /\ \E words \in HandWritten :
           ReplacePageResult(p, editing[p],
               Result([by |-> p, how |-> "user_edit", words |-> words], "user_edit", FALSE))
    /\ editing' = [editing EXCEPT ![p] = NotBegun]
    /\ unsynced' = unsynced \cup {p}
    /\ UNCHANGED <<ocr, manuals, task, storing, edits, reprocesses>>

(* The database fails, or refuses chunks whose indexes the task has taken.  *)
EditFails(p) ==
    /\ editing[p].at # "idle"
    /\ editing' = [editing EXCEPT ![p] = NotBegun]
    /\ UNCHANGED <<ocr, pages, chunks, manuals, version, task, storing, crossed, unsynced, edits, reprocesses>>

(* The row is loaded and the chunks deleted before the result is committed, *)
(* each with what is committed by then.  Only an edit and the task of the   *)
(* page can come between each other's statements: without an edit under way *)
(* the task takes them in one step.                                         *)
Storable(p) ==
    \/ task[p].at \in {"layer", "copying"}
    \/ task[p].at = "reading" /\ ocr.stage = "done"

LoadPage(p) ==
    /\ LET loaded == [at |-> "loaded", row |-> pages[p]] IN
       \/ /\ editing[p].at = "checked"
          /\ editing' = [editing EXCEPT ![p] = loaded]
          /\ UNCHANGED storing
       \/ /\ Storable(p) /\ storing[p].at = "idle" /\ editing[p].at # "idle"
          /\ storing' = [storing EXCEPT ![p] = loaded]
          /\ UNCHANGED editing
    /\ UNCHANGED <<ocr, pages, chunks, manuals, version, task, crossed, unsynced, edits, reprocesses>>

Deleted(p, own) == [at |-> "deleted", row |-> own.row, seen |-> version[p]]

DeleteChunks(p) ==
    /\ \/ /\ editing[p].at = "loaded"
          /\ editing' = [editing EXCEPT ![p] = Deleted(p, @)]
          /\ UNCHANGED storing
       \/ /\ storing[p].at = "loaded"
          /\ storing' = [storing EXCEPT ![p] = Deleted(p, @)]
          /\ UNCHANGED editing
    /\ UNCHANGED <<ocr, pages, chunks, manuals, version, task, crossed, unsynced, edits, reprocesses>>

EditStep(p) == CheckEdit(p) \/ EditPageText(p) \/ EditFails(p) \/ LoadPage(p) \/ DeleteChunks(p)

SyncPageRag(p) ==
    /\ p \in unsynced
    /\ unsynced' = unsynced \ {p}
    /\ manuals' = IF Alive(p) THEN [manuals EXCEPT ![p] = ResolvedStatus(p)] ELSE manuals
    /\ UNCHANGED <<ocr, pages, chunks, version, task, writing, crossed, edits, reprocesses>>

(* The text and the chunks of the last pass stay until there are new ones.  *)
BeginReprocessing(p) ==
    /\ reprocesses < MaxReprocess
    /\ manuals[p] \in {"active", "pending_review", "failed"}
    /\ manuals' = [manuals EXCEPT ![p] = "indexing"]
    /\ pages' = [pages EXCEPT ![p].ocr_status = "pending", ![p].reused_from = NoPage]
    /\ reprocesses' = reprocesses + 1
    /\ UNCHANGED <<ocr, chunks, version, task, writing, crossed, unsynced, edits>>

DeleteManual(p) ==
    /\ Alive(p)
    /\ manuals' = [manuals EXCEPT ![p] = "hidden"]
    /\ UNCHANGED <<ocr, pages, chunks, version, task, writing, crossed, unsynced, edits, reprocesses>>

TaskStep(p) ==
    \/ ClaimPage(p) \/ PageFails(p) \/ SourceMissing(p) \/ OcrFails(p) \/ RenderFails(p)
    \/ ExtractPdfPageText(p) \/ PersistPdfPageImage(p) \/ RenderForViewerFails(p) \/ StorePdfText(p)
    \/ FindReusablePage(p) \/ ReadReusableChunks(p) \/ StoreCopy(p)
    \/ StartOcr(p) \/ StoreOcr(p) \/ ResultFails(p)

----------------------------------------------------------------------------
PageTextTypeOK ==
    /\ \A p \in Pages :
         /\ pages[p].ocr_status \in {"pending", "processing", "completed", "failed"}
         /\ pages[p].text_source \in {"none", "ocr", "pdf_text", "user_edit"}
         /\ pages[p].text_quality \in {"none", "ok", "empty", "low_confidence"}
         /\ pages[p].reused_from \in (Pages \ {p}) \cup {NoPage}
         /\ \A c \in chunks[p] : c.id[1] = p /\ c.id[2] \in 1 .. version[p] /\ c.id[3] \in 1 .. Cardinality(chunks[p])
         /\ version[p] \in Nat
         /\ manuals[p] \in {"indexing", "active", "pending_review", "failed", "hidden"}
    /\ crossed \subseteq Pages /\ unsynced \subseteq Pages
    /\ edits \in 0 .. MaxEdits /\ reprocesses \in 0 .. MaxReprocess

(* The lines shown for a page and the chunks that answer for it are one     *)
(* text, through copies, edits, reprocessing and failures.  Two things mix  *)
(* two texts: a copy whose source was rewritten between the two queries, or *)
(* was mixed itself, and an edit and a page task that replace a page at once*)
(* (a reprocess request came after the edit's checks), when what the second *)
(* read of the page makes it leave the lines or the chunks of the first.    *)
WholeCopies ==
    \A p \in Pages \ crossed :
        pages[p].lines # NoText => ChunksInOrder(p) = ChunkTexts(pages[p].lines)

(* Every word of a page is in its chunks, in order, whole when it fits one, *)
(* whatever lines it comes from and whoever reads, copies or writes it, but *)
(* for the two mixtures of WholeCopies.                                     *)
ChunksCoverPage ==
    \A p \in Pages \ crossed :
        pages[p].lines # NoText =>
            LET texts == ChunksInOrder(p)
            IN CoversInOrder([i \in DOMAIN texts |-> texts[i].text], Normalized(pages[p].lines.words))

(* A text leaves its owner only from a shared manual, where nobody writes   *)
(* by hand: whatever another user's page holds was read by the program on   *)
(* a page everybody may see.                                                *)
OthersTextIsShared ==
    \A p \in Pages :
        LET text == pages[p].lines
        IN text.by # NoPage /\ Owner[text.by] # Owner[p] =>
               text.by \in Shared /\ text.how # "user_edit"
=============================================================================
