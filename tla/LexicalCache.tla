---------------------------- MODULE LexicalCache ----------------------------
(***************************************************************************)
(* The cache of lexical (BM25) indexes of the RAG service, one per game.   *)
(* A question builds the index of its game if it is missing; an ingest or  *)
(* a deletion changes the corpus of a game in Chroma and then expels its   *)
(* index.  (rag/lexical_cache.py and its callers in rag/service.py.)       *)
(*                                                                         *)
(* Coroutines of one event loop: a step runs from an await to the next.    *)
(* Corpora are loaded and changed by threads, between awaits.  The content *)
(* of a corpus is its version: how many writes it has had.  A corpus is    *)
(* read in pages, so an index remembers the versions of its first and last *)
(* page.  <Operator>_<Slip> is a slip the code could contain.              *)
(***************************************************************************)
EXTENDS Naturals

CONSTANTS
    Games,
    Readers,        \* concurrent questions
    Writers,        \* concurrent ingests and deletions
    Free,           \* a lock nobody holds
    Absent,         \* no entry in a dictionary, no game
    MaxWrites       \* bound: ingests and deletions in a behaviour

ASSUME LocksAssumption == Free \notin Readers /\ Absent \notin Readers
                          /\ Free # Absent
ASSUME AbsentAssumption ==
    Absent \notin Games /\ Absent \notin [first : Nat, last : Nat]
ASSUME WritesAssumption == MaxWrites \in Nat

VARIABLES
    corpus,         \* version of the corpus of each game in Chroma
    indexes,        \* _indexes
    locks,          \* _locks: the holder of each
    generations,    \* _generations, 0 if absent
    at,             \* where each question is
    game,           \* its game
    generation,     \* the generation it has seen
    index,          \* the index it builds or answers with
    step,           \* where each writer is
    target,         \* the game whose corpus it writes
    known,          \* whether it knows that game when it invalidates
    settled,        \* history: version each game had at its last invalidation
    floor,          \* history: settled when the question began
    writes          \* ingests and deletions so far

cacheVars  == <<indexes, locks, generations>>
readerVars == <<at, game, generation, index, floor>>
writerVars == <<step, target, known, settled, writes>>
vars == <<corpus, cacheVars, readerVars, writerVars>>

Index == [first : Nat, last : Nat]
NoIndex == [first |-> 0, last |-> 0]

Building == {"first", "last", "store"}
Dirty    == {"prune", "invalidate"}

GoTo(r, place) == at' = [at EXCEPT ![r] = place]
WriterGoesTo(w, place) == step' = [step EXCEPT ![w] = place]

(* The call of a question ends, and with it its local variables.           *)
End(r) ==
    /\ at' = [at EXCEPT ![r] = "idle"]
    /\ game' = [game EXCEPT ![r] = Absent]
    /\ generation' = [generation EXCEPT ![r] = 0]
    /\ index' = [index EXCEPT ![r] = NoIndex]
    /\ floor' = [floor EXCEPT ![r] = 0]

Init ==
    /\ corpus = [g \in Games |-> 0]
    /\ indexes = [g \in Games |-> Absent]
    /\ locks = [g \in Games |-> Absent]
    /\ generations = [g \in Games |-> 0]
    /\ at = [r \in Readers |-> "idle"]
    /\ game = [r \in Readers |-> Absent]
    /\ generation = [r \in Readers |-> 0]
    /\ index = [r \in Readers |-> NoIndex]
    /\ step = [w \in Writers |-> "idle"]
    /\ target = [w \in Writers |-> Absent]
    /\ known = [w \in Writers |-> TRUE]
    /\ settled = [g \in Games |-> 0]
    /\ floor = [r \in Readers |-> 0]
    /\ writes = 0

-----------------------------------------------------------------------------
(* LexicalIndexCache.get.                                                  *)

(* Up to the lock of the game, which is created if there is none. *)
Get(r, g) ==
    /\ at[r] = "idle"
    /\ game' = [game EXCEPT ![r] = g]
    /\ floor' = [floor EXCEPT ![r] = settled[g]]
    /\ IF indexes[g] # Absent
       THEN /\ index' = [index EXCEPT ![r] = indexes[g]]
            /\ GoTo(r, "answered")
            /\ UNCHANGED locks
       ELSE /\ locks' = IF locks[g] = Absent
                        THEN [locks EXCEPT ![g] = Free] ELSE locks
            /\ GoTo(r, "waiting")
            /\ UNCHANGED index
    /\ UNCHANGED <<corpus, indexes, generations, generation, writerVars>>

(* Inside the lock: another question may have built the index meanwhile.   *)
Enter(r) ==
    /\ at[r] = "waiting"
    /\ locks[game[r]] = Free
    /\ IF indexes[game[r]] # Absent
       THEN /\ index' = [index EXCEPT ![r] = indexes[game[r]]]
            /\ GoTo(r, "answered")
            /\ UNCHANGED <<locks, generation>>
       ELSE /\ locks' = [locks EXCEPT ![game[r]] = r]
            /\ generation' = [generation EXCEPT ![r] = generations[game[r]]]
            /\ GoTo(r, "first")
            /\ UNCHANGED index
    /\ UNCHANGED <<corpus, indexes, generations, game, floor, writerVars>>

(* get_game_corpus: the first page of the corpus, and the last.            *)
LoadFirst(r) ==
    /\ at[r] = "first"
    /\ index' = [index EXCEPT ![r].first = corpus[game[r]]]
    /\ GoTo(r, "last")
    /\ UNCHANGED <<corpus, cacheVars, game, generation, floor, writerVars>>

LoadLast(r) ==
    /\ at[r] = "last"
    /\ index' = [index EXCEPT ![r].last = corpus[game[r]]]
    /\ GoTo(r, "store")
    /\ UNCHANGED <<corpus, cacheVars, game, generation, floor, writerVars>>

(* The exception leaves the lock taken. *)
LoadFails_KeepsLock(r) ==
    /\ at[r] \in {"first", "last"}
    /\ End(r)
    /\ UNCHANGED <<corpus, cacheVars, writerVars>>

(* Chroma fails: the exception leaves the lock and ends the question.      *)
LoadFails(r) ==
    /\ at[r] \in {"first", "last"}
    /\ locks' = [locks EXCEPT ![game[r]] = Free]
    /\ End(r)
    /\ UNCHANGED <<corpus, indexes, generations, writerVars>>

(* Whatever was invalidated meanwhile. *)
Store_Unchecked(r) ==
    /\ at[r] = "store"
    /\ indexes' = [indexes EXCEPT ![game[r]] = index[r]]
    /\ locks' = [locks EXCEPT ![game[r]] = Free]
    /\ GoTo(r, "answered")
    /\ UNCHANGED <<corpus, generations, game, generation, index, floor,
                   writerVars>>

(* The index is kept only if the game was not invalidated while it was     *)
(* built; the question is answered with it anyway.                         *)
Store(r) ==
    /\ at[r] = "store"
    /\ indexes' = IF generations[game[r]] = generation[r]
                  THEN [indexes EXCEPT ![game[r]] = index[r]] ELSE indexes
    /\ locks' = [locks EXCEPT ![game[r]] = Free]
    /\ GoTo(r, "answered")
    /\ UNCHANGED <<corpus, generations, game, generation, index, floor,
                   writerVars>>

Answer(r) ==
    /\ at[r] = "answered"
    /\ End(r)
    /\ UNCHANGED <<corpus, cacheVars, writerVars>>

-----------------------------------------------------------------------------
(* Ingests and deletions.                                                  *)

Start(w, g, place, knows) ==
    /\ step[w] = "idle"
    /\ writes < MaxWrites
    /\ writes' = writes + 1
    /\ target' = [target EXCEPT ![w] = g]
    /\ known' = [known EXCEPT ![w] = knows]
    /\ WriterGoesTo(w, place)
    /\ UNCHANGED <<corpus, cacheVars, readerVars, settled>>

(* ingest_manual up to the call of upsert_sync: the request names the game.*)
Ingest(w, g) == Start(w, g, "upsert", TRUE)

(* get_game_id_of_manual: the game, unless Chroma fails, holds no chunk of *)
(* the manual, or holds one without its game.                              *)
GameOfManual(g) == {g, Absent}

(* The game Chroma did not name is taken for the one to invalidate. *)
Delete_NoGame(w, g) ==
    \E found \in GameOfManual(g) : Start(w, found, "delete", found # Absent)

(* delete_manual asks Chroma for the game of the manual first.             *)
Delete(w, g) ==
    \E found \in GameOfManual(g) : Start(w, g, "delete", found # Absent)

(* A write of Chroma, by upsert_manual or delete_manual: the upsert of an  *)
(* ingest is followed by the deletion of what is left of the old chunks.   *)
Write(w) ==
    /\ step[w] \in {"upsert", "prune", "delete"}
    /\ corpus' = [corpus EXCEPT ![target[w]] = @ + 1]
    /\ WriterGoesTo(w, IF step[w] = "upsert" THEN "prune" ELSE "invalidate")
    /\ UNCHANGED <<cacheVars, readerVars, target, known, settled, writes>>

(* Nothing to write, or an exception: the finally clause follows.          *)
SkipWrite(w) ==
    /\ step[w] \in {"upsert", "prune", "delete"}
    /\ WriterGoesTo(w, "invalidate")
    /\ UNCHANGED <<corpus, cacheVars, readerVars, target, known, settled,
                   writes>>

(* Games whose index is being built for the first time are missed. *)
KnownGames_Indexed == {g \in Games : indexes[g] # Absent}

(* The games invalidate_all reaches: the keys of the three dictionaries.   *)
KnownGames ==
    {g \in Games : generations[g] > 0 \/ indexes[g] # Absent
                                      \/ locks[g] # Absent}

(* The finally clause: invalidate, or invalidate_all if the game is not    *)
(* known.                                                                  *)
Invalidate(w) ==
    /\ step[w] = "invalidate"
    /\ LET expelled == IF known[w] THEN {target[w]} ELSE KnownGames
       IN  /\ generations' = [g \in Games |->
                  generations[g] + IF g \in expelled THEN 1 ELSE 0]
           /\ indexes' = [g \in Games |->
                  IF g \in expelled THEN Absent ELSE indexes[g]]
    /\ settled' = [settled EXCEPT ![target[w]] = corpus[target[w]]]
    /\ WriterGoesTo(w, "idle")
    /\ target' = [target EXCEPT ![w] = Absent]
    /\ known' = [known EXCEPT ![w] = TRUE]
    /\ UNCHANGED <<corpus, locks, readerVars, writes>>

-----------------------------------------------------------------------------
Next ==
    \/ \E r \in Readers :
         \/ \E g \in Games : Get(r, g)
         \/ Enter(r)
         \/ LoadFirst(r)
         \/ LoadLast(r)
         \/ LoadFails(r)
         \/ Store(r)
         \/ Answer(r)
    \/ \E w \in Writers :
         \/ \E g \in Games : Ingest(w, g) \/ Delete(w, g)
         \/ Write(w)
         \/ SkipWrite(w)
         \/ Invalidate(w)

Spec == Init /\ [][Next]_vars

-----------------------------------------------------------------------------
(* Properties.                                                             *)

(* Every variable stays in its domain. *)
TypeOK ==
    /\ corpus \in [Games -> Nat]
    /\ indexes \in [Games -> Index \cup {Absent}]
    /\ locks \in [Games -> Readers \cup {Free, Absent}]
    /\ generations \in [Games -> Nat]
    /\ at \in [Readers -> {"idle", "waiting", "answered"} \cup Building]
    /\ game \in [Readers -> Games \cup {Absent}]
    /\ \A r \in Readers : at[r] # "idle" <=> game[r] # Absent
    /\ generation \in [Readers -> Nat]
    /\ index \in [Readers -> Index]
    /\ step \in [Writers -> {"idle", "upsert", "delete"} \cup Dirty]
    /\ target \in [Writers -> Games \cup {Absent}]
    /\ \A w \in Writers : step[w] # "idle" <=> target[w] # Absent
    /\ known \in [Writers -> BOOLEAN]
    /\ settled \in [Games -> Nat]
    /\ floor \in [Readers -> Nat]
    /\ writes \in Nat

(* The lock of a game is held by the one question that builds its index    *)
(* and by no other, whatever fails: "lo construye una sola vez si falta".  *)
SingleFlight ==
    \A r \in Readers, g \in Games :
        locks[g] = r <=> game[r] = g /\ at[r] \in Building

Writing(g) == \E w \in Writers : target[w] = g /\ step[w] \in Dirty

Current(g) == [first |-> corpus[g], last |-> corpus[g]]

(* An index in the cache is the one of the corpus Chroma has, of one piece,*)
(* unless an ingest or a deletion that will expel it is under way: an      *)
(* invalidation is never hidden by an index that was being built.          *)
CacheIsFresh ==
    \A g \in Games :
        indexes[g] = Absent \/ indexes[g] = Current(g) \/ Writing(g)

(* A question sees, in every page, all the ingests and deletions that had  *)
(* ended when it began.                                                    *)
NoStaleAnswer ==
    \A r \in Readers :
        at[r] = "answered" =>
            floor[r] <= index[r].first /\ floor[r] <= index[r].last
=============================================================================
