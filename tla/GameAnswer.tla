----------------------------- MODULE GameAnswer -----------------------------
(* The context of an answer: RAG ranks the chunks of the manuals the user   *)
(* may consult by meaning and by words and fuses both rankings; the API     *)
(* reads the chosen chunks again in Postgres, drops repeated texts and      *)
(* gives the rest to the LLM.  In between, pages are edited, reprocessed    *)
(* and deleted, and the index follows them late or not at all.              *)
EXTENDS PageText, LexicalRanking

CONSTANTS
    Nobody,
    Questions,      \* what a user may ask: the words to look for
    TopK,           \* how many chunks an answer takes
    MaxQuestions

ASSUME QuestionsAssumption ==
    Nobody \notin Users /\ TopK \in Nat \ {0} /\ MaxQuestions \in Nat

ASSUME AskedAssumption == Questions \subseteq Seq(Seq(Fragments))

VARIABLES
    chroma,     \* the chunks RAG holds of each manual
    purges,     \* messages that tell RAG to delete chunks, by their ids
    question    \* the question under way

vars == <<ocr, pageVars, chroma, purges, question>>

NoQuestion(asked) ==
    [at |-> "idle", user |-> Nobody, words |-> <<>>, allowed |-> {}, hybrid |-> FALSE, dense |-> <<>>,
     lexical |-> <<>>, hits |-> <<>>, context |-> <<>>, asked |-> asked]

Init ==
    /\ PageTextInit
    /\ chroma = [p \in Pages |-> {}]
    /\ purges = {}
    /\ question = NoQuestion(0)

(* Texts that say the same have one hash, wherever they were read.          *)
Hit(p, c) == [page |-> p, id |-> c.id, by |-> c.text.by, content_hash |-> c.text.text]
HitsOf(rows, ps) == UNION {{Hit(p, c) : c \in rows[p]} : p \in ps}

----------------------------------------------------------------------------
(* The index follows the manuals.                                           *)

Finalize(p) ==
    /\ FinalizeManual(p)
    /\ chroma' = IF ResolvedStatus(p) = "failed" THEN chroma ELSE [chroma EXCEPT ![p] = chunks[p]]
    /\ UNCHANGED <<purges, question>>

(* A page left without text is only purged, if RAG answers.                 *)
SyncPage(p) ==
    /\ SyncPageRag(p)
    /\ \E held \in IF ~Alive(p) THEN {chroma[p]}
                   ELSE IF chunks[p] = {} THEN {{}, chroma[p]} ELSE {chunks[p]} :
           chroma' = [chroma EXCEPT ![p] = held]
    /\ UNCHANGED <<purges, question>>

(* A deletion and a reprocess request leave a message for the index.        *)
Withdraw(p) ==
    /\ DeleteManual(p) \/ BeginReprocessing(p)
    /\ purges' = IF chunks[p] = {} THEN purges ELSE purges \cup {{c.id : c \in chunks[p]}}
    /\ UNCHANGED <<chroma, question>>

(* One call to RAG; one that fails is not repeated.                         *)
DeleteChunksFromRag(ids) ==
    /\ ids \in purges
    /\ purges' = purges \ {ids}
    /\ \/ chroma' = [p \in Pages |-> {c \in chroma[p] : c.id \notin ids}]
       \/ UNCHANGED chroma
    /\ UNCHANGED <<ocr, pageVars, question>>

----------------------------------------------------------------------------
(* The question.                                                            *)

RetrievableManual_AnyOwner(p, user) == manuals[p] = "active"

(* Shared and active, or one's own, active or pending review.               *)
RetrievableManual(p, user) ==
    \/ p \in Shared /\ manuals[p] = "active"
    \/ Owner[p] = user /\ manuals[p] \in {"active", "pending_review"}

Retrievable(user) == {p \in Pages : RetrievableManual(p, user)}

AskGame(user, words) ==
    /\ question.at = "idle" /\ question.asked < MaxQuestions
    /\ Retrievable(user) # {}
    /\ question' = [question EXCEPT !.at = "allowed", !.user = user,
                                    !.words = words, !.allowed = Retrievable(user), !.asked = @ + 1]
    /\ UNCHANGED <<ocr, pageVars, chroma, purges>>

(* Chroma gives the chunks of the game in any order.  How old the corpus    *)
(* may be is in LexicalCache.                                               *)
LexicalRankings(query) ==
    {RankAuthorizedLexicalChunks(corpus, query, question.allowed) :
        corpus \in SetToSeqs(HitsOf(chroma, Pages))}

(* How near a chunk is to the question is any order.  Without words to look *)
(* for, the ranking by meaning is the answer.                               *)
RetrieveChunks ==
    /\ question.at = "allowed"
    /\ LET found == HitsOf(chroma, question.allowed)
           query == Tokenize(question.words)
           rankings == LexicalRankings(query)
       IN IF found = {}
          THEN question' = NoQuestion(question.asked)
          ELSE \E nearest \in SetToSeqs(found) :
            IF query = <<>>
            THEN question' = [question EXCEPT !.at = "ranked", !.hits = FirstOf(nearest, TopK)]
            ELSE \E lexical \in rankings :
                 LET dense == Deduplicate(FirstOf(nearest, FusionCandidates))
                 IN question' = [question EXCEPT !.at = "ranked", !.hybrid = TRUE,
                                     !.dense = Hashes(dense), !.lexical = Hashes(lexical),
                                     !.hits = FuseHybridChunks(dense, lexical, TopK)]
    /\ UNCHANGED <<ocr, pageVars, chroma, purges>>

(* Only chunks that are still in Postgres, of manuals the user still may    *)
(* consult and could when asking.                                           *)
LoadAuthorizedChunks(hits) ==
    HitsAt(hits, {i \in DOMAIN hits :
        /\ hits[i] \in HitsOf(chunks, {hits[i].page})
        /\ RetrievableManual(hits[i].page, question.user)
        /\ hits[i].page \in question.allowed})

GenerateGameAnswer ==
    /\ question.at = "ranked"
    /\ LET authorized == LoadAuthorizedChunks(question.hits)
       IN IF authorized = <<>>
          THEN question' = NoQuestion(question.asked)
          ELSE question' = [question EXCEPT !.at = "answering",
                                !.context = FirstOf(Deduplicate(authorized), TopK)]
    /\ UNCHANGED <<ocr, pageVars, chroma, purges>>

Answer ==
    /\ question.at = "answering"
    /\ question' = NoQuestion(question.asked)
    /\ UNCHANGED <<ocr, pageVars, chroma, purges>>

Next ==
    \/ /\ OcrNext
       /\ UNCHANGED <<pageVars, chroma, purges, question>>
    \/ \E p \in Pages : /\ TaskStep(p) \/ EditStep(p)
                        /\ UNCHANGED <<chroma, purges, question>>
    \/ \E p \in Pages : Finalize(p) \/ SyncPage(p) \/ Withdraw(p)
    \/ \E ids \in purges : DeleteChunksFromRag(ids)
    \/ \E u \in Users, words \in Questions : AskGame(u, words)
    \/ RetrieveChunks \/ GenerateGameAnswer \/ Answer

Spec == Init /\ [][Next]_vars

----------------------------------------------------------------------------
TypeOK ==
    /\ ocr.stage \in {"idle", "correcting", "done"}
    /\ ocr.at \in 0 .. Len(ocr.lines) + 1
    /\ PageTextTypeOK
    /\ \A p \in Pages : \A c \in chroma[p] : c.id[1] = p /\ c.id[2] <= version[p]
    /\ \A ids \in purges : \A id \in ids : id[2] \in 1 .. version[id[1]]
    /\ question.at \in {"idle", "allowed", "ranked", "answering"}
    /\ question.user \in Users \cup {Nobody}
    /\ question.allowed \subseteq Pages
    /\ question.asked \in 0 .. MaxQuestions

(* What a user wrote by hand, or is only on their own manuals, reaches an   *)
(* answer to somebody else only if they share a manual with that same       *)
(* image: through copies, through an index that is behind, and through      *)
(* manuals that change hands between the steps of the question.             *)
NobodyReadsPrivateText ==
    \A i \in DOMAIN question.context :
        LET by == question.context[i].by
        IN \/ Owner[by] = question.user
           \/ \E s \in Shared : Owner[s] = Owner[by] /\ Image[s] = Image[by]

(* A text that another one precedes by meaning and by words never takes its *)
(* place among the chosen, nor comes before it.                             *)
FusionRespectsRanks ==
    question.hybrid => RespectsRanks(question.dense, question.lexical, Hashes(question.hits))

(* A text with a word of the question that the user may consult is found by *)
(* its words, although a manual the user may not consult says it first, or  *)
(* says it too: the index counts each text once for everybody.              *)
SharedWordsAreFound ==
    [][question.at = "allowed" /\ question'.hybrid =>
         \A hit \in HitsOf(chroma, question.allowed) :
            LET tokens == ToSet(Tokenize(WordsOf(hit.content_hash)))
            IN tokens \cap ToSet(Tokenize(question.words)) # {}
                 /\ Len(question'.lexical) < FusionCandidates =>
                     hit.content_hash \in ToSet(question'.lexical)]_vars
=============================================================================
