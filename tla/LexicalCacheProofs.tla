------------------------- MODULE LexicalCacheProofs -------------------------
(***************************************************************************)
(* The lexical cache never keeps the index of a corpus that has changed,   *)
(* and no question is answered from before a write that had ended: proofs, *)
(* for any number of games, questions, ingests and deletions.              *)
(***************************************************************************)
EXTENDS LexicalCache, TLAPS

(* A question builds an index that get will keep: no expulsion of it has   *)
(* come since the question took the lock, or the generation would differ.  *)
Valid(r) ==
    at[r] \in Building /\ generation[r] = generations[game[r]]

(* A question never knows of a generation that has not been. *)
GenerationsGrow ==
    \A r \in Readers :
        at[r] \in Building => generation[r] <= generations[game[r]]

(* What a valid build has read is the corpus, or a writer has yet to       *)
(* invalidate it.                                                          *)
BuildIsFresh ==
    \A r \in Readers : Valid(r) =>
        \/ Writing(game[r])
        \/ /\ at[r] \in {"last", "store"} =>
                  index[r].first = corpus[game[r]]
           /\ at[r] = "store" => index[r].last = corpus[game[r]]

(* Versions are ordered: those a question has been promised, those that    *)
(* are settled, those in the cache or in a valid build, that of Chroma.    *)
SettledWasWritten == \A g \in Games : settled[g] <= corpus[g]

PromiseIsSettled ==
    \A r \in Readers : at[r] # "idle" => floor[r] <= settled[game[r]]

CacheIsSettled ==
    \A g \in Games : indexes[g] # Absent =>
        settled[g] <= indexes[g].first /\ settled[g] <= indexes[g].last

BuildIsSettled ==
    \A r \in Readers : Valid(r) =>
        /\ at[r] \in {"last", "store"} => settled[game[r]] <= index[r].first
        /\ at[r] = "store" => settled[game[r]] <= index[r].last

BuildIsPromised ==
    \A r \in Readers :
        /\ at[r] \in {"last", "store"} => floor[r] <= index[r].first
        /\ at[r] = "store" => floor[r] <= index[r].last

Freshness == GenerationsGrow /\ BuildIsFresh /\ CacheIsFresh

Order ==
    /\ SettledWasWritten
    /\ PromiseIsSettled
    /\ CacheIsSettled
    /\ BuildIsSettled
    /\ BuildIsPromised
    /\ NoStaleAnswer

-----------------------------------------------------------------------------
(* Type correctness.                                                       *)

LEMMA InitTypeOK == Init => TypeOK
  BY WritesAssumption DEF Init, TypeOK, Index, NoIndex, Building, Dirty

LEMMA NextTypeOK == TypeOK /\ [Next]_vars => TypeOK'
  <1> SUFFICES ASSUME TypeOK, [Next]_vars PROVE TypeOK'
    OBVIOUS
  <1> USE LocksAssumption, AbsentAssumption
      DEF TypeOK, Index, NoIndex, Building, Dirty,
          vars, cacheVars, readerVars, writerVars, GoTo, WriterGoesTo, End
  <1>1. ASSUME NEW r \in Readers, NEW g \in Games, Get(r, g) PROVE TypeOK'
    BY <1>1, SMTT(30) DEF Get
  <1>2. ASSUME NEW r \in Readers, Enter(r) PROVE TypeOK'
    <2>1. game[r] \in Games /\ at[r] = "waiting"
      BY <1>2 DEF Enter
    <2>2. index' \in [Readers -> Index]
      <3>1. CASE indexes[game[r]] # Absent
        <4>1. indexes[game[r]] \in Index
          BY <2>1, <3>1
        <4> QED
          BY <1>2, <3>1, <4>1 DEF Enter
      <3>2. CASE indexes[game[r]] = Absent
        BY <1>2, <3>2 DEF Enter
      <3> QED
        BY <3>1, <3>2
    <2>3. /\ locks' \in [Games -> Readers \cup {Free, Absent}]
          /\ generation' \in [Readers -> Nat]
      <3>1. CASE indexes[game[r]] # Absent
        BY <1>2, <3>1 DEF Enter
      <3>2. CASE indexes[game[r]] = Absent
        <4>1. /\ locks' = [locks EXCEPT ![game[r]] = r]
              /\ generation' = [generation EXCEPT
                                   ![r] = generations[game[r]]]
          BY <1>2, <3>2 DEF Enter
        <4>2. locks' \in [Games -> Readers \cup {Free, Absent}]
          BY <1>2, <2>1, <4>1
        <4>3. generations[game[r]] \in Nat
          BY <2>1
        <4> QED
          BY <1>2, <4>1, <4>2, <4>3
      <3> QED
        BY <3>1, <3>2
    <2>4. \/ at' = [at EXCEPT ![r] = "answered"]
          \/ at' = [at EXCEPT ![r] = "first"]
      BY <1>2 DEF Enter
    <2>5. /\ at' \in [Readers -> {"idle", "waiting", "answered"} \cup Building]
          /\ \A q \in Readers : at'[q] # "idle" <=> at[q] # "idle"
      BY <2>1, <2>4
    <2> QED
      BY <1>2, <2>2, <2>3, <2>5 DEF Enter
  <1>3. ASSUME NEW r \in Readers, LoadFirst(r) PROVE TypeOK'
    BY <1>3 DEF LoadFirst
  <1>4. ASSUME NEW r \in Readers, LoadLast(r) PROVE TypeOK'
    BY <1>4 DEF LoadLast
  <1>5. ASSUME NEW r \in Readers, LoadFails(r) PROVE TypeOK'
    BY <1>5 DEF LoadFails
  <1>6. ASSUME NEW r \in Readers, Store(r) PROVE TypeOK'
    BY <1>6 DEF Store
  <1>7. ASSUME NEW r \in Readers, Answer(r) PROVE TypeOK'
    BY <1>7 DEF Answer
  <1>8. ASSUME NEW w \in Writers, NEW g \in Games, Ingest(w, g) PROVE TypeOK'
    BY <1>8 DEF Ingest, Start
  <1>9. ASSUME NEW w \in Writers, NEW g \in Games, Delete(w, g) PROVE TypeOK'
    BY <1>9 DEF Delete, GameOfManual, Start
  <1>10. ASSUME NEW w \in Writers, Write(w) PROVE TypeOK'
    BY <1>10 DEF Write
  <1>11. ASSUME NEW w \in Writers, SkipWrite(w) PROVE TypeOK'
    BY <1>11 DEF SkipWrite
  <1>12. ASSUME NEW w \in Writers, Invalidate(w) PROVE TypeOK'
    BY <1>12 DEF Invalidate
  <1>13. CASE UNCHANGED vars
    BY <1>13
  <1> QED
    BY <1>1, <1>2, <1>3, <1>4, <1>5, <1>6, <1>7, <1>8,
       <1>9, <1>10, <1>11, <1>12, <1>13 DEF Next

(* Every variable of the cache and of its callers stays in its domain. *)
THEOREM TypeCorrect == Spec => []TypeOK
  BY InitTypeOK, NextTypeOK, PTL DEF Spec

-----------------------------------------------------------------------------
(* The lock of a game.                                                     *)

LEMMA InitSingleFlight == Init => SingleFlight
  BY LocksAssumption, AbsentAssumption, ZenonT(30) DEF Init, SingleFlight, Building

LEMMA NextSingleFlight ==
    TypeOK /\ SingleFlight /\ [Next]_vars => SingleFlight'
  <1> SUFFICES ASSUME TypeOK, SingleFlight, [Next]_vars PROVE SingleFlight'
    OBVIOUS
  <1> USE LocksAssumption, AbsentAssumption
      DEF TypeOK, SingleFlight, Building, Index, NoIndex,
          vars, cacheVars, readerVars, writerVars, GoTo, WriterGoesTo, End
  <1>1. ASSUME NEW r \in Readers, NEW g \in Games, Get(r, g)
        PROVE SingleFlight'
    BY <1>1 DEF Get
  <1>2. ASSUME NEW r \in Readers, Enter(r) PROVE SingleFlight'
    BY <1>2 DEF Enter
  <1>3. ASSUME NEW r \in Readers, LoadFirst(r) PROVE SingleFlight'
    BY <1>3 DEF LoadFirst
  <1>4. ASSUME NEW r \in Readers, LoadLast(r) PROVE SingleFlight'
    BY <1>4 DEF LoadLast
  <1>5. ASSUME NEW r \in Readers, LoadFails(r) PROVE SingleFlight'
    BY <1>5 DEF LoadFails
  <1>6. ASSUME NEW r \in Readers, Store(r) PROVE SingleFlight'
    BY <1>6 DEF Store
  <1>7. ASSUME NEW r \in Readers, Answer(r) PROVE SingleFlight'
    BY <1>7 DEF Answer
  <1>8. ASSUME NEW w \in Writers, NEW g \in Games, Ingest(w, g)
        PROVE SingleFlight'
    BY <1>8 DEF Ingest, Start
  <1>9. ASSUME NEW w \in Writers, NEW g \in Games, Delete(w, g)
        PROVE SingleFlight'
    BY <1>9 DEF Delete, GameOfManual, Start
  <1>10. ASSUME NEW w \in Writers, Write(w) PROVE SingleFlight'
    BY <1>10 DEF Write
  <1>11. ASSUME NEW w \in Writers, SkipWrite(w) PROVE SingleFlight'
    BY <1>11 DEF SkipWrite
  <1>12. ASSUME NEW w \in Writers, Invalidate(w) PROVE SingleFlight'
    BY <1>12 DEF Invalidate
  <1>13. CASE UNCHANGED vars
    BY <1>13
  <1> QED
    BY <1>1, <1>2, <1>3, <1>4, <1>5, <1>6, <1>7, <1>8,
       <1>9, <1>10, <1>11, <1>12, <1>13 DEF Next

(* get: "construye una sola vez": a game has one question that builds its  *)
(* index, the holder of its lock, and an exception does not keep the lock. *)
THEOREM BuiltOnce == Spec => []SingleFlight
  BY InitTypeOK, NextTypeOK, InitSingleFlight, NextSingleFlight, PTL DEF Spec

-----------------------------------------------------------------------------
(* What the cache keeps.                                                   *)

LEMMA InitFreshness == Init => Freshness
  BY AbsentAssumption
     DEF Init, Freshness, GenerationsGrow, BuildIsFresh, CacheIsFresh, Valid,
         Building

LEMMA NextFreshness ==
    TypeOK /\ SingleFlight /\ Freshness /\ [Next]_vars => Freshness'
  <1> SUFFICES ASSUME TypeOK, SingleFlight, Freshness, [Next]_vars
               PROVE Freshness'
    OBVIOUS
  <1> USE LocksAssumption, AbsentAssumption
      DEF TypeOK, SingleFlight, Freshness, GenerationsGrow, BuildIsFresh,
          CacheIsFresh, Valid, Current, Writing, Building, Dirty, Index,
          NoIndex,
          vars, cacheVars, readerVars, writerVars, GoTo, WriterGoesTo, End
  <1>1. ASSUME NEW r \in Readers, NEW g \in Games, Get(r, g) PROVE Freshness'
    BY <1>1 DEF Get
  <1>2. ASSUME NEW r \in Readers, Enter(r) PROVE Freshness'
    <2>1. game[r] \in Games
      BY <1>2 DEF Enter
    <2>2. GenerationsGrow'
      BY <1>2, <2>1 DEF Enter
    <2>3. BuildIsFresh'
      <3>1. TAKE q \in Readers
      <3>2. CASE q = r
        <4>1. at'[r] \in {"answered", "first"}
          BY <1>2 DEF Enter
        <4> QED
          BY <3>2, <4>1
      <3>3. CASE q # r
        <4>1. /\ at'[q] = at[q] /\ generation'[q] = generation[q]
              /\ index'[q] = index[q] /\ game'[q] = game[q]
          BY <1>2, <3>3 DEF Enter
        <4>2. /\ corpus' = corpus /\ generations' = generations
              /\ step' = step /\ target' = target
          BY <1>2 DEF Enter
        <4>3. (Valid(q))' <=> Valid(q)
          BY <4>1, <4>2
        <4>4. (Writing(game[q]))' <=> Writing(game[q])
          BY <4>1, <4>2
        <4>5. Valid(q) =>
                 \/ Writing(game[q])
                 \/ /\ at[q] \in {"last", "store"} =>
                           index[q].first = corpus[game[q]]
                    /\ at[q] = "store" => index[q].last = corpus[game[q]]
          BY <3>1
        <4>6. ASSUME (Valid(q))', ~(Writing(game[q]))'
              PROVE  /\ at'[q] \in {"last", "store"} =>
                            index'[q].first = corpus'[game'[q]]
                     /\ at'[q] = "store" =>
                            index'[q].last = corpus'[game'[q]]
          BY <4>1, <4>2, <4>3, <4>4, <4>5, <4>6
        <4> QED
          BY <4>6
      <3> QED
        BY <3>2, <3>3
    <2>4. CacheIsFresh'
      BY <1>2, <2>1 DEF Enter
    <2> QED
      BY <2>2, <2>3, <2>4
  <1>3. ASSUME NEW r \in Readers, LoadFirst(r) PROVE Freshness'
    BY <1>3 DEF LoadFirst
  <1>4. ASSUME NEW r \in Readers, LoadLast(r) PROVE Freshness'
    BY <1>4 DEF LoadLast
  <1>5. ASSUME NEW r \in Readers, LoadFails(r) PROVE Freshness'
    BY <1>5 DEF LoadFails
  <1>6. ASSUME NEW r \in Readers, Store(r) PROVE Freshness'
    <2>1. game[r] \in Games
      BY <1>6 DEF Store
    <2>2. GenerationsGrow'
      BY <1>6, <2>1 DEF Store
    <2>3. BuildIsFresh'
      BY <1>6, <2>1 DEF Store
    <2>4. CacheIsFresh'
      BY <1>6, <2>1 DEF Store
    <2> QED
      BY <2>2, <2>3, <2>4
  <1>7. ASSUME NEW r \in Readers, Answer(r) PROVE Freshness'
    BY <1>7 DEF Answer
  <1>8. ASSUME NEW w \in Writers, NEW g \in Games, Ingest(w, g)
        PROVE Freshness'
    BY <1>8 DEF Ingest, Start
  <1>9. ASSUME NEW w \in Writers, NEW g \in Games, Delete(w, g)
        PROVE Freshness'
    BY <1>9 DEF Delete, GameOfManual, Start
  <1>10. ASSUME NEW w \in Writers, Write(w) PROVE Freshness'
    BY <1>10 DEF Write
  <1>11. ASSUME NEW w \in Writers, SkipWrite(w) PROVE Freshness'
    BY <1>11 DEF SkipWrite
  <1>12. ASSUME NEW w \in Writers, Invalidate(w) PROVE Freshness'
    <2>1. /\ target[w] \in Games /\ step[w] \in Dirty
          /\ \A g \in Games : generations[g] \in Nat
      BY <1>12 DEF Invalidate
    <2>2. \A g \in Games :
             \/ generations'[g] = generations[g] + 1 /\ indexes'[g] = Absent
             \/ /\ generations'[g] = generations[g]
                /\ indexes'[g] = indexes[g]
                /\ \/ g # target[w]
                   \/ indexes[g] = Absent /\ locks[g] = Absent
      <3> DEFINE expelled == IF known[w] THEN {target[w]} ELSE KnownGames
      <3>1. TAKE g \in Games
      <3>2. CASE g \in expelled
        BY <1>12, <3>2 DEF Invalidate
      <3>3. CASE g \notin expelled
        <4>1. /\ generations'[g] = generations[g]
              /\ indexes'[g] = indexes[g]
          BY <1>12, <3>3 DEF Invalidate
        <4>2. CASE known[w]
          BY <1>12, <3>1, <3>3, <4>1, <4>2
        <4>3. CASE ~known[w]
          BY <3>3, <4>1, <4>3 DEF KnownGames
        <4> QED
          BY <4>2, <4>3
      <3> QED
        BY <3>2, <3>3
    <2>3. \A r \in Readers : at[r] \in Building =>
             game[r] \in Games /\ locks[game[r]] = r
      OBVIOUS
    <2>4. \A r \in Readers : (Valid(r))' =>
             Valid(r) /\ game[r] # target[w] /\ game[r] \in Games
      BY <1>12, <2>1, <2>2, <2>3 DEF Invalidate
    <2>5. \A g \in Games : indexes'[g] # Absent =>
             indexes'[g] = indexes[g] /\ g # target[w]
      BY <2>2
    <2>6. \A g \in Games : g # target[w] =>
             settled'[g] = settled[g] /\ ((Writing(g))' <=> Writing(g))
      BY <1>12, <2>1 DEF Invalidate
    <2>7. /\ settled'[target[w]] = corpus[target[w]]
          /\ settled[target[w]] \in Nat /\ corpus[target[w]] \in Nat
      BY <1>12, <2>1 DEF Invalidate
    <2>8. GenerationsGrow'
      BY <1>12, <2>1, <2>2, <2>3, <2>4, <2>5, <2>6, <2>7 DEF Invalidate
    <2>9. BuildIsFresh'
      BY <1>12, <2>1, <2>2, <2>3, <2>4, <2>5, <2>6, <2>7 DEF Invalidate
    <2>10. CacheIsFresh'
      BY <1>12, <2>1, <2>2, <2>3, <2>4, <2>5, <2>6, <2>7 DEF Invalidate
    <2> QED
      BY <2>8, <2>9, <2>10
  <1>13. CASE UNCHANGED vars
    BY <1>13
  <1> QED
    BY <1>1, <1>2, <1>3, <1>4, <1>5, <1>6, <1>7, <1>8,
       <1>9, <1>10, <1>11, <1>12, <1>13 DEF Next

(* invalidate and invalidate_all against get: the cache has no index but   *)
(* that of the corpus as Chroma has it, save while the ingest or deletion  *)
(* that will expel it is under way.                                        *)
THEOREM NothingStaleIsKept == Spec => []CacheIsFresh
  <1>1. TypeOK /\ SingleFlight /\ Freshness /\ [Next]_vars
        => (TypeOK /\ SingleFlight /\ Freshness)'
    BY NextTypeOK, NextSingleFlight, NextFreshness
  <1>2. Freshness => CacheIsFresh
    BY DEF Freshness
  <1> QED
    BY <1>1, <1>2, InitTypeOK, InitSingleFlight, InitFreshness, PTL DEF Spec

-----------------------------------------------------------------------------
(* What a question is answered from.                                       *)

LEMMA InitOrder == Init => Order
  BY AbsentAssumption
     DEF Init, Order, SettledWasWritten, PromiseIsSettled, CacheIsSettled,
         BuildIsSettled, BuildIsPromised, NoStaleAnswer, Valid, Building

LEMMA NextOrder ==
    TypeOK /\ SingleFlight /\ Freshness /\ Order /\ [Next]_vars => Order'
  <1> SUFFICES ASSUME TypeOK, SingleFlight, Freshness, Order, [Next]_vars
               PROVE Order'
    OBVIOUS
  <1> USE LocksAssumption, AbsentAssumption
      DEF TypeOK, SingleFlight, Order, SettledWasWritten, PromiseIsSettled,
          CacheIsSettled, BuildIsSettled, BuildIsPromised, NoStaleAnswer,
          Freshness, GenerationsGrow, Valid, Building, Dirty, Index, NoIndex,
          vars, cacheVars, readerVars, writerVars, GoTo, WriterGoesTo, End
  <1>1. ASSUME NEW r \in Readers, NEW g \in Games, Get(r, g) PROVE Order'
    BY <1>1 DEF Get
  <1>2. ASSUME NEW r \in Readers, Enter(r) PROVE Order'
    <2>1. game[r] \in Games
      BY <1>2 DEF Enter
    <2>2. indexes[game[r]] \in Index \cup {Absent}
      BY <2>1
    <2>3. /\ floor[r] <= settled[game[r]]
          /\ floor[r] \in Nat /\ settled[game[r]] \in Nat
      BY <1>2, <2>1 DEF Enter
    <2>4. indexes[game[r]] # Absent =>
             /\ floor[r] <= indexes[game[r]].first
             /\ floor[r] <= indexes[game[r]].last
      BY <2>1, <2>2, <2>3
    <2>5. SettledWasWritten'
      BY <1>2, <2>1, <2>2, <2>3, <2>4 DEF Enter
    <2>6. PromiseIsSettled'
      BY <1>2, <2>1, <2>2, <2>3, <2>4 DEF Enter
    <2>7. CacheIsSettled'
      BY <1>2, <2>1, <2>2, <2>3, <2>4 DEF Enter
    <2>8. BuildIsSettled'
      BY <1>2, <2>1, <2>2, <2>3, <2>4 DEF Enter
    <2>9. BuildIsPromised'
      BY <1>2, <2>1, <2>2, <2>3, <2>4 DEF Enter
    <2>10. NoStaleAnswer'
      BY <1>2, <2>1, <2>2, <2>3, <2>4 DEF Enter
    <2> QED
      BY <2>5, <2>6, <2>7, <2>8, <2>9, <2>10
  <1>3. ASSUME NEW r \in Readers, LoadFirst(r) PROVE Order'
    BY <1>3 DEF LoadFirst
  <1>4. ASSUME NEW r \in Readers, LoadLast(r) PROVE Order'
    BY <1>4 DEF LoadLast
  <1>5. ASSUME NEW r \in Readers, LoadFails(r) PROVE Order'
    BY <1>5 DEF LoadFails
  <1>6. ASSUME NEW r \in Readers, Store(r) PROVE Order'
    BY <1>6 DEF Store
  <1>7. ASSUME NEW r \in Readers, Answer(r) PROVE Order'
    BY <1>7 DEF Answer
  <1>8. ASSUME NEW w \in Writers, NEW g \in Games, Ingest(w, g) PROVE Order'
    BY <1>8 DEF Ingest, Start
  <1>9. ASSUME NEW w \in Writers, NEW g \in Games, Delete(w, g) PROVE Order'
    BY <1>9 DEF Delete, GameOfManual, Start
  <1>10. ASSUME NEW w \in Writers, Write(w) PROVE Order'
    BY <1>10 DEF Write
  <1>11. ASSUME NEW w \in Writers, SkipWrite(w) PROVE Order'
    BY <1>11 DEF SkipWrite
  <1>12. ASSUME NEW w \in Writers, Invalidate(w) PROVE Order'
    <2>1. /\ target[w] \in Games /\ step[w] \in Dirty
          /\ \A g \in Games : generations[g] \in Nat
      BY <1>12 DEF Invalidate
    <2>2. \A g \in Games :
             \/ generations'[g] = generations[g] + 1 /\ indexes'[g] = Absent
             \/ /\ generations'[g] = generations[g]
                /\ indexes'[g] = indexes[g]
                /\ \/ g # target[w]
                   \/ indexes[g] = Absent /\ locks[g] = Absent
      <3> DEFINE expelled == IF known[w] THEN {target[w]} ELSE KnownGames
      <3>1. TAKE g \in Games
      <3>2. CASE g \in expelled
        BY <1>12, <3>2 DEF Invalidate
      <3>3. CASE g \notin expelled
        <4>1. /\ generations'[g] = generations[g]
              /\ indexes'[g] = indexes[g]
          BY <1>12, <3>3 DEF Invalidate
        <4>2. CASE known[w]
          BY <1>12, <3>1, <3>3, <4>1, <4>2
        <4>3. CASE ~known[w]
          BY <3>3, <4>1, <4>3 DEF KnownGames
        <4> QED
          BY <4>2, <4>3
      <3> QED
        BY <3>2, <3>3
    <2>3. \A r \in Readers : at[r] \in Building =>
             game[r] \in Games /\ locks[game[r]] = r
      OBVIOUS
    <2>4. \A r \in Readers : (Valid(r))' =>
             Valid(r) /\ game[r] # target[w] /\ game[r] \in Games
      BY <1>12, <2>1, <2>2, <2>3 DEF Invalidate
    <2>5. \A g \in Games : indexes'[g] # Absent =>
             indexes'[g] = indexes[g] /\ g # target[w]
      BY <2>2
    <2>6. \A g \in Games : g # target[w] =>
             settled'[g] = settled[g]
      BY <1>12, <2>1 DEF Invalidate
    <2>7. /\ settled'[target[w]] = corpus[target[w]]
          /\ settled[target[w]] \in Nat /\ corpus[target[w]] \in Nat
      BY <1>12, <2>1 DEF Invalidate
    <2>8. SettledWasWritten'
      BY <1>12, <2>1, <2>2, <2>3, <2>4, <2>5, <2>6, <2>7 DEF Invalidate
    <2>9. PromiseIsSettled'
      BY <1>12, <2>1, <2>2, <2>3, <2>4, <2>5, <2>6, <2>7 DEF Invalidate
    <2>10. CacheIsSettled'
      BY <1>12, <2>1, <2>2, <2>3, <2>4, <2>5, <2>6, <2>7 DEF Invalidate
    <2>11. BuildIsSettled'
      BY <1>12, <2>1, <2>2, <2>3, <2>4, <2>5, <2>6, <2>7 DEF Invalidate
    <2>12. BuildIsPromised'
      BY <1>12, <2>1, <2>2, <2>3, <2>4, <2>5, <2>6, <2>7 DEF Invalidate
    <2>13. NoStaleAnswer'
      BY <1>12, <2>1, <2>2, <2>3, <2>4, <2>5, <2>6, <2>7 DEF Invalidate
    <2> QED
      BY <2>8, <2>9, <2>10, <2>11, <2>12, <2>13
  <1>13. CASE UNCHANGED vars
    BY <1>13
  <1> QED
    BY <1>1, <1>2, <1>3, <1>4, <1>5, <1>6, <1>7, <1>8,
       <1>9, <1>10, <1>11, <1>12, <1>13 DEF Next

(* get, for the caller of the RAG service: a question that begins after an *)
(* ingest or a deletion has ended sees its effect in the whole corpus.     *)
THEOREM AnswersAreCurrent == Spec => []NoStaleAnswer
  <1> DEFINE LInv == TypeOK /\ SingleFlight /\ Freshness /\ Order
  <1>1. Init => LInv
    BY InitTypeOK, InitSingleFlight, InitFreshness, InitOrder
  <1>2. LInv /\ [Next]_vars => LInv'
    BY NextTypeOK, NextSingleFlight, NextFreshness, NextOrder
  <1>3. LInv => NoStaleAnswer
    BY DEF Order
  <1> QED
    BY <1>1, <1>2, <1>3, PTL DEF Spec
=============================================================================
