------------------------ MODULE GameCatalogueProofs ------------------------
(***************************************************************************)
(* The catalogue of games: proofs, for any games, queries, answers of BGG, *)
(* searches, users and requests.                                           *)
(***************************************************************************)
EXTENDS GameCatalogue, TLAPS, SequenceTheorems

(* A search in the block that holds a lock, and one that has the lock in   *)
(* its hands, held or waited for.                                          *)
Holding(s) == search[s].at \in {"locked", "asking", "caching"}
Using(s) == search[s].at \in {"waiting", "locked", "asking", "caching"}

(* Every search of the same words that uses a lock uses the one of the     *)
(* dictionary, made by a search of these words; who is in the block holds  *)
(* it.                                                                     *)
LocksAgree ==
    /\ \A s \in Searches :
         /\ search[s].lock # NoSearch <=> Using(s)
         /\ Using(s) => search[s].query \in Queries /\ search[s].lock = locks[search[s].query]
         /\ search[s].at = "missed" => search[s].query \in Queries
         /\ Holding(s) => holder[search[s].lock] = s
    /\ \A q \in Queries : locks[q] # NoSearch =>
         search[locks[q]].query = q /\ search[locks[q]].at \notin {"idle", "missed"}

(* A game was stored by a search that has left the block.                  *)
StoredBefore ==
    \A g \in Games : games[g].by # NoSearch => search[games[g].by].at \in {"again", "done"}

(* What a search that asks would find was not stored by one of its words.  *)
AskedForNothingStored ==
    \A s \in Searches : search[s].at \in {"asking", "caching"} =>
        \A g \in SearchLocal(search[s].query) :
            games[g].by # NoSearch => search[games[g].by].query # search[s].query

SearchInv == TypeOK /\ LocksAgree /\ StoredBefore /\ AskedForNothingStored

USE CatalogueAssumption DEF searchVars, userVars

-----------------------------------------------------------------------------
(* Types.                                                                  *)

LEMMA StatesOfSearches ==
    ASSUME TypeOK, NEW s \in Searches
    PROVE  /\ search[s] \in SearchStates /\ search[s].at \in SearchStages
           /\ search[s].query \in Queries \cup {"none"}
           /\ search[s].lock \in Searches \cup {NoSearch}
           /\ search[s].attempt \in 0 .. MaxAttempts + 1
           /\ search[s].found \in Seq([bgg_id : Games, name : Names])
  <1>1. search[s] \in SearchStates
    BY DEF TypeOK
  <1> QED
    BY <1>1 DEF SearchStates

(* A search goes from one place to another; its words are chosen when it   *)
(* begins and its lock when it misses.                                     *)
Goes(s, from, to, lock) ==
    /\ search[s].at \in from /\ search'[s].at \in to
    /\ search'[s].query = search[s].query /\ search'[s].lock = lock

OnlyOne(s) ==
    /\ search' \in [Searches -> SearchStates]
    /\ \A t \in Searches \ {s} : search'[t] = search[t]

LEMMA Replaced ==
    ASSUME TypeOK, NEW s \in Searches, NEW r \in SearchStates, search' = [search EXCEPT ![s] = r]
    PROVE  OnlyOne(s) /\ search'[s] = r
  BY DEF TypeOK, OnlyOne

LEMMA Begins ==
    ASSUME TypeOK, NEW s \in Searches, SearchGameCatalog(s)
    PROVE  /\ OnlyOne(s) /\ search[s].at = "idle" /\ search'[s].at \in {"missed", "done"}
           /\ search'[s].query \in Queries /\ search'[s].lock = search[s].lock
  <1>1. PICK q \in Queries :
          search' = [search EXCEPT ![s].query = q,
                        ![s].at = IF SearchLocal(q) = {} /\ q \in Long THEN "missed" ELSE "done"]
    BY DEF SearchGameCatalog
  <1>2. PICK a \in {"missed", "done"} : a = IF SearchLocal(q) = {} /\ q \in Long THEN "missed" ELSE "done"
    OBVIOUS
  <1> DEFINE n == [search[s] EXCEPT !.query = q, !.at = a]
  <1>3. n \in SearchStates /\ n.at = a /\ n.query = q /\ n.lock = search[s].lock
    BY StatesOfSearches DEF SearchStates, SearchStages
  <1>4. search' = [search EXCEPT ![s] = n]
    BY <1>1, <1>2 DEF TypeOK
  <1> HIDE DEF n
  <1> QED
    BY <1>3, <1>4, Replaced DEF SearchGameCatalog

LEMMA TakesALock ==
    ASSUME TypeOK, NEW s \in Searches, BggCacheLock(s)
    PROVE  /\ OnlyOne(s)
           /\ \E l \in Searches :
                /\ l = IF locks[search[s].query] = NoSearch THEN s ELSE locks[search[s].query]
                /\ Goes(s, {"missed"}, {"waiting"}, l)
                /\ locks' = [locks EXCEPT ![search[s].query] = l]
  <1> DEFINE l == IF locks[search[s].query] = NoSearch THEN s ELSE locks[search[s].query]
             n == [search[s] EXCEPT !.at = "waiting", !.lock = l]
  <1>0. search[s].at = "missed"
    BY DEF BggCacheLock
  <1>1. l \in Searches
    BY <1>0 DEF TypeOK
  <1>2. n \in SearchStates /\ n.at = "waiting" /\ n.query = search[s].query /\ n.lock = l
    BY <1>1, StatesOfSearches DEF SearchStates, SearchStages
  <1>3. search' = [search EXCEPT ![s] = n] /\ locks' = [locks EXCEPT ![search[s].query] = l]
    BY DEF BggCacheLock, TypeOK
  <1> HIDE DEF n
  <1> QED
    BY <1>0, <1>1, <1>2, <1>3, Replaced DEF Goes

LEMMA GoesOn ==
    ASSUME TypeOK, NEW s \in Searches, NEW a \in SearchStages, Go(s, a)
    PROVE  /\ OnlyOne(s) /\ search'[s].at = a
           /\ search'[s].query = search[s].query /\ search'[s].lock = search[s].lock
  <1> DEFINE n == [search[s] EXCEPT !.at = a]
  <1>1. n \in SearchStates /\ n.at = a /\ n.query = search[s].query /\ n.lock = search[s].lock
    BY StatesOfSearches DEF SearchStates
  <1>2. search' = [search EXCEPT ![s] = n]
    BY DEF Go, TypeOK
  <1> HIDE DEF n
  <1> QED
    BY <1>1, <1>2, Replaced

LEMMA Leaves ==
    ASSUME TypeOK, NEW s \in Searches, Leave(s)
    PROVE  /\ OnlyOne(s) /\ search'[s].at = "again"
           /\ search'[s].query = search[s].query /\ search'[s].lock = NoSearch
  <1> DEFINE n == [search[s] EXCEPT !.at = "again", !.lock = NoSearch]
  <1>1. n \in SearchStates /\ n.at = "again" /\ n.query = search[s].query /\ n.lock = NoSearch
    BY StatesOfSearches DEF SearchStates, SearchStages
  <1>2. search' = [search EXCEPT ![s] = n]
    BY DEF Leave, TypeOK
  <1> HIDE DEF n
  <1> QED
    BY <1>1, <1>2, Replaced

LEMMA Asks ==
    ASSUME TypeOK, NEW s \in Searches, search[s].at \in SearchStages,
           search' = [search EXCEPT ![s].at = "asking", ![s].attempt = 1]
    PROVE  /\ OnlyOne(s) /\ search'[s].at = "asking"
           /\ search'[s].query = search[s].query /\ search'[s].lock = search[s].lock
  <1> DEFINE n == [search[s] EXCEPT !.at = "asking", !.attempt = 1]
  <1>0. 1 \in 0 .. MaxAttempts + 1
    OBVIOUS
  <1>1. n \in SearchStates /\ n.at = "asking" /\ n.query = search[s].query
        /\ n.lock = search[s].lock
    BY <1>0, StatesOfSearches DEF SearchStates, SearchStages
  <1>2. search' = [search EXCEPT ![s] = n]
    BY DEF TypeOK
  <1> HIDE DEF n
  <1> QED
    BY <1>1, <1>2, Replaced

LEMMA AsksAgain ==
    ASSUME TypeOK, NEW s \in Searches, BggIsBusy(s)
    PROVE  /\ OnlyOne(s) /\ search'[s].at = "asking" /\ search[s].at = "asking"
           /\ search'[s].query = search[s].query /\ search'[s].lock = search[s].lock
  <1> DEFINE n == [search[s] EXCEPT !.attempt = @ + 1]
  <1>1. search[s].at = "asking" /\ search[s].attempt < MaxAttempts
    BY DEF BggIsBusy
  <1>a. search[s].attempt + 1 \in 0 .. MaxAttempts + 1
    BY <1>1, StatesOfSearches
  <1>2. n \in SearchStates /\ n.at = "asking" /\ n.query = search[s].query
        /\ n.lock = search[s].lock
    BY <1>1, <1>a, StatesOfSearches DEF SearchStates
  <1>3. search' = [search EXCEPT ![s] = n]
    BY DEF BggIsBusy, TypeOK
  <1> HIDE DEF n
  <1> QED
    BY <1>1, <1>2, <1>3, Replaced

LEMMA IsAnswered ==
    ASSUME TypeOK, NEW s \in Searches, BggAnswersSearch(s)
    PROVE  /\ OnlyOne(s) /\ search'[s].at = "caching" /\ search[s].at = "asking"
           /\ search'[s].query = search[s].query /\ search'[s].lock = search[s].lock
  <1>1. search[s].at = "asking" /\ search[s].query \in Queries
    BY DEF BggAnswersSearch, TypeOK
  <1>2. PICK answer \in BggAnswers[search[s].query] :
          search' = [search EXCEPT ![s].at = "caching",
                        ![s].found = SubSeq(answer, 1, IF Len(answer) < CacheLimit
                                                       THEN Len(answer) ELSE CacheLimit)]
    BY DEF BggAnswersSearch
  <1> DEFINE k == IF Len(answer) < CacheLimit THEN Len(answer) ELSE CacheLimit
             f == SubSeq(answer, 1, k)
             n == [search[s] EXCEPT !.at = "caching", !.found = f]
  <1>3. answer \in Seq([bgg_id : Games, name : Names])
    <2> DEFINE Known == [bgg_id : Games \ HandMade, name : Names]
               Listed == [bgg_id : Games, name : Names]
    <2>1. answer \in Seq(Known)
      BY <1>1
    <2>2. Known \subseteq Listed
      OBVIOUS
    <2> HIDE DEF Known, Listed
    <2>3. answer \in Seq(Listed)
      BY <2>1, <2>2
    <2> QED
      BY <2>3 DEF Listed
  <1>4. f \in Seq([bgg_id : Games, name : Names])
    <2>1. k \in Nat /\ k <= Len(answer)
      BY <1>3
    <2> DEFINE Listed == [bgg_id : Games, name : Names]
    <2>l. answer \in Seq(Listed)
      BY <1>3
    <2> HIDE DEF k, Listed
    <2>2. \A i \in 1 .. k : answer[i] \in Listed
      BY <2>1, <2>l
    <2>3. SubSeq(answer, 1, k) \in Seq(Listed)
      BY <2>1, <2>2, SubSeqProperties
    <2> QED
      BY <2>3 DEF Listed
  <1>5. search' = [search EXCEPT ![s].at = "caching", ![s].found = f]
    BY <1>2
  <1> HIDE DEF f
  <1>6. n \in SearchStates /\ n.at = "caching" /\ n.query = search[s].query
        /\ n.lock = search[s].lock
    BY <1>4, StatesOfSearches DEF SearchStates, SearchStages
  <1>7. search' = [search EXCEPT ![s] = n]
    BY <1>5 DEF TypeOK
  <1> HIDE DEF n
  <1> QED
    BY <1>1, <1>6, <1>7, Replaced

(* What a search does from each of its places: the places it may go to,    *)
(* and the lock it has then.                                               *)
LEMMA SearchMoves ==
    ASSUME TypeOK, NEW s \in Searches, SearchStep(s)
    PROVE  /\ OnlyOne(s) /\ search'[s].query = search[s].query
           /\ \/ BggCacheLock(s)
              \/ /\ Holding(s) /\ Leave(s) /\ search'[s].at = "again"
                 /\ search'[s].lock = NoSearch
              \/ /\ Acquire(s) /\ search'[s].at = "locked" /\ search'[s].lock = search[s].lock
              \/ /\ Holding(s) /\ search'[s].at \in {"asking", "caching"}
                 /\ search'[s].lock = search[s].lock /\ UNCHANGED <<locks, holder>>
              \/ /\ search[s].at = "again" /\ search'[s].at = "done"
                 /\ search'[s].lock = search[s].lock /\ UNCHANGED <<locks, holder>>
  <1> USE DEF Using, Holding
  <1>1. CASE BggCacheLock(s)
    BY <1>1, TakesALock DEF Goes
  <1>2. CASE Acquire(s)
    <2>1. Go(s, "locked")
      BY <1>2 DEF Acquire
    <2> QED
      BY <1>2, <2>1, GoesOn DEF SearchStages
  <1>3. CASE Recheck(s)
    <2>1. search[s].at = "locked"
      BY <1>3 DEF Recheck
    <2>2. CASE Leave(s)
      BY <2>1, <2>2, Leaves
    <2>3. CASE search' = [search EXCEPT ![s].at = "asking", ![s].attempt = 1]
               /\ UNCHANGED <<locks, holder>>
      BY <2>1, <2>3, Asks DEF SearchStages
    <2> QED
      BY <1>3, <2>2, <2>3 DEF Recheck
  <1>4. CASE BggAnswersSearch(s)
    BY <1>4, IsAnswered DEF BggAnswersSearch
  <1>5. CASE BggIsBusy(s)
    BY <1>5, AsksAgain DEF BggIsBusy
  <1>6. CASE BggUnavailable(s)
    BY <1>6, Leaves DEF BggUnavailable
  <1>7. CASE UpsertBggGames(s)
    BY <1>7, Leaves DEF UpsertBggGames
  <1>8. CASE SearchAgain(s)
    <2>1. Go(s, "done") /\ search[s].at = "again" /\ UNCHANGED <<locks, holder>>
      BY <1>8 DEF SearchAgain
    <2> QED
      BY <2>1, GoesOn DEF SearchStages
  <1> QED
    BY <1>1, <1>2, <1>3, <1>4, <1>5, <1>6, <1>7, <1>8 DEF SearchStep

(* What BGG's answer makes of the rows: those of the answer, or none.      *)
LEMMA RowsStored ==
    ASSUME TypeOK, NEW s \in Searches, UpsertBggGames(s)
    PROVE  /\ games' \in [Games -> Rows]
           /\ \A g \in Games : games'[g] = games[g] \/ games'[g].by = s
  <1>1. CASE UNCHANGED games
    BY <1>1 DEF TypeOK
  <1>2. CASE ~UNCHANGED games
    <2> DEFINE batch == Deduplicated(search[s].found)
               stored == {row.bgg_id : row \in batch}
               new(g) == [status |-> "active", by |-> s,
                          name |-> (CHOOSE row \in batch : row.bgg_id = g).name]
    <2>1. games' = [g \in Games |-> IF g \in stored THEN new(g) ELSE games[g]]
      BY <1>2 DEF UpsertBggGames
    <2>2. ASSUME NEW row \in batch PROVE row \in [bgg_id : Games, name : Names]
      <3> DEFINE Listed == [bgg_id : Games, name : Names]
      <3>1. search[s].found \in Seq(Listed)
        BY StatesOfSearches
      <3>2. PICK i \in DOMAIN search[s].found : row = search[s].found[i]
        BY DEF Deduplicated
      <3> HIDE DEF Listed
      <3>3. row \in Listed
        BY <3>1, <3>2
      <3> QED
        BY <3>3 DEF Listed
    <2> HIDE DEF batch
    <2>3. ASSUME NEW g \in Games, g \in stored PROVE new(g) \in Rows /\ new(g).by = s
      <3>1. \E row \in batch : row.bgg_id = g
        BY <2>3
      <3>2. (CHOOSE row \in batch : row.bgg_id = g) \in batch
        BY <3>1
      <3>3. (CHOOSE row \in batch : row.bgg_id = g).name \in Names
        BY <2>2, <3>2
      <3> QED
        BY <3>3 DEF Rows
    <2> HIDE DEF new, stored
    <2> QED
      BY <2>1, <2>3 DEF TypeOK
  <1> QED
    BY <1>1, <1>2

LEMMA Outcomes ==
    ASSUME TypeOK, NEW s \in Searches, SearchGameCatalog(s) \/ SearchStep(s)
    PROVE  TypeOK'
  <1>1. OnlyOne(s) /\ UNCHANGED <<userVars, hidden>>
    BY Begins, SearchMoves
    DEF SearchGameCatalog, SearchStep, BggCacheLock, Acquire, Recheck, BggAnswersSearch,
        BggIsBusy, BggUnavailable, UpsertBggGames, SearchAgain
  <1>2. search'[s].at \in {"idle", "done"} \/ search'[s].query \in Queries
    <2>1. CASE SearchGameCatalog(s)
      BY <2>1, Begins
    <2>2. CASE SearchStep(s)
      <3>1. search[s].at \notin {"idle", "done"}
        BY <2>2 DEF SearchStep, BggCacheLock, Acquire, Recheck, BggAnswersSearch,
                    BggIsBusy, BggUnavailable, UpsertBggGames, SearchAgain
      <3> QED
        BY <2>2, <3>1, SearchMoves DEF TypeOK
    <2> QED
      BY <2>1, <2>2
  <1>3. games' \in [Games -> Rows]
    <2>1. UNCHANGED games \/ UpsertBggGames(s)
      BY DEF SearchGameCatalog, SearchStep, BggCacheLock, Acquire, Recheck,
             BggAnswersSearch, BggIsBusy, BggUnavailable, SearchAgain
    <2> QED
      BY <2>1, RowsStored DEF TypeOK
  <1>4. /\ locks' \in [Queries -> Searches \cup {NoSearch}]
        /\ holder' \in [Searches -> Searches \cup {NoSearch}]
    <2>1. ASSUME Leave(s)
          PROVE  /\ locks' \in [Queries -> Searches \cup {NoSearch}]
                 /\ holder' \in [Searches -> Searches \cup {NoSearch}]
      BY <2>1 DEF Leave, TypeOK
    <2>2. CASE BggCacheLock(s)
      BY <2>2, TakesALock DEF TypeOK, BggCacheLock
    <2>3. CASE Acquire(s)
      BY <2>3 DEF Acquire, TypeOK
    <2>4. CASE UNCHANGED <<locks, holder>>
      BY <2>4 DEF TypeOK
    <2>5. SearchGameCatalog(s) => UNCHANGED <<locks, holder>>
      BY DEF SearchGameCatalog
    <2> QED
      BY <2>1, <2>2, <2>3, <2>4, <2>5, SearchMoves
  <1>5. \A t \in Searches : search'[t].at \in {"idle", "done"} \/ search'[t].query \in Queries
    BY <1>1, <1>2 DEF OnlyOne, TypeOK
  <1> QED
    BY <1>1, <1>3, <1>4, <1>5 DEF TypeOK, OnlyOne

UserStep(r) ==
    FollowGame(r) \/ UnfollowGame(r) \/ UpsertUserRating(r) \/ AutoFollowGame(r)
    \/ AutoFollowFails(r)

LEMMA RequestsOf ==
    ASSUME TypeOK, NEW r \in requests
    PROVE  /\ r \in Requests /\ r.user \in Users /\ r.game \in Games
           /\ [r EXCEPT !.what = "rated"] \in Requests
  <1>1. r \in Requests
    BY DEF TypeOK
  <1> QED
    BY <1>1 DEF Requests

LEMMA UserSteps ==
    ASSUME TypeOK, ExplicitChoiceWins, NEW r \in requests, UserStep(r)
    PROVE  TypeOK' /\ ExplicitChoiceWins'
  <1> DEFINE u == r.user
             g == r.game
             old == follows[u][g]
  <1>1. u \in Users /\ g \in Games /\ old \in FollowStates
    <2>1. u \in Users /\ g \in Games
      BY RequestsOf
    <2> QED
      BY <2>1 DEF TypeOK
  <1>2. /\ UNCHANGED <<searchVars, asked, hidden>> /\ requests' \subseteq Requests
        /\ ratings' \in [Users -> SUBSET Games]
    <2>1. UNCHANGED <<searchVars, asked, hidden>>
      BY DEF UserStep, FollowGame, UnfollowGame, UpsertUserRating, AutoFollowGame,
             AutoFollowFails
    <2>2. requests' \subseteq requests \cup {[r EXCEPT !.what = "rated"]}
      BY DEF UserStep, FollowGame, UnfollowGame, UpsertUserRating, AutoFollowGame,
             AutoFollowFails
    <2>3. [r EXCEPT !.what = "rated"] \in Requests
      BY RequestsOf
    <2>4. UNCHANGED ratings \/ ratings' = [ratings EXCEPT ![u] = @ \cup {g}]
      BY DEF UserStep, FollowGame, UnfollowGame, UpsertUserRating, AutoFollowGame,
             AutoFollowFails
    <2> HIDE DEF u, g
    <2>5. ratings' \in [Users -> SUBSET Games]
      BY <1>1, <2>4 DEF TypeOK
    <2> QED
      BY <2>1, <2>2, <2>3, <2>5 DEF TypeOK
  <1>3. /\ follows' \in [Users -> [Games -> FollowStates]]
        /\ chosen' \in [Users -> [Games -> FollowStates]]
        /\ ExplicitChoiceWins'
    <2>1. CASE UNCHANGED <<follows, chosen>>
      BY <2>1 DEF TypeOK, ExplicitChoiceWins
    <2>2. ASSUME NEW v \in FollowStates, follows' = [follows EXCEPT ![u][g] = v],
                 chosen' = [chosen EXCEPT ![u][g] = v]
          PROVE  /\ follows' \in [Users -> [Games -> FollowStates]]
                 /\ chosen' \in [Users -> [Games -> FollowStates]]
                 /\ ExplicitChoiceWins'
      <3> HIDE DEF u, g
      <3>1. /\ follows' \in [Users -> [Games -> FollowStates]]
            /\ chosen' \in [Users -> [Games -> FollowStates]]
            /\ follows'[u][g] = v /\ chosen'[u][g] = v
            /\ \A a \in Users, b \in Games : <<a, b>> # <<u, g>> =>
                 follows'[a][b] = follows[a][b] /\ chosen'[a][b] = chosen[a][b]
        BY <1>1, <2>2 DEF TypeOK
      <3> QED
        BY <3>1 DEF ExplicitChoiceWins
    <2>3. CASE AutoFollowGame(r)
      <3> DEFINE v == IF old = "none" THEN "following" ELSE old
      <3>1. v \in FollowStates /\ follows' = [follows EXCEPT ![u][g] = v] /\ UNCHANGED chosen
        BY <1>1, <2>3 DEF AutoFollowGame, TypeOK, FollowStates
      <3>2. old = "none" => chosen[u][g] = "none"
        BY <1>1 DEF ExplicitChoiceWins, TypeOK
      <3>3. /\ follows' \in [Users -> [Games -> FollowStates]]
            /\ chosen' \in [Users -> [Games -> FollowStates]]
        BY <1>1, <3>1 DEF TypeOK
      <3>4. ASSUME NEW a \in Users, NEW b \in Games, follows'[a][b] # chosen'[a][b]
            PROVE  chosen'[a][b] = "none" /\ follows'[a][b] = "following"
        <4>1. CASE a = u /\ b = g
          <5>1. follows'[a][b] = v /\ chosen'[a][b] = chosen[u][g]
            BY <1>1, <3>1, <4>1 DEF TypeOK
          <5> QED
            BY <1>1, <3>2, <3>4, <4>1, <5>1 DEF ExplicitChoiceWins
        <4>2. CASE ~(a = u /\ b = g)
          <5>1. follows'[a][b] = follows[a][b] /\ chosen'[a][b] = chosen[a][b]
            BY <1>1, <3>1, <4>2 DEF TypeOK
          <5> QED
            BY <3>4, <5>1 DEF ExplicitChoiceWins
        <4> QED
          BY <4>1, <4>2
      <3> QED
        BY <3>3, <3>4 DEF ExplicitChoiceWins
    <2> QED
      BY <2>1, <2>2, <2>3
      DEF UserStep, FollowGame, UnfollowGame, UpsertUserRating, AutoFollowFails, FollowStates
  <1> QED
    BY <1>2, <1>3 DEF TypeOK

LEMMA OtherSteps ==
    ASSUME TypeOK,
           \/ \E g \in Games : CreateManualGame(g) \/ HideGame(g)
           \/ \E u \in Users, g \in Games : ValidGameId(u, g) \/ DeleteUserRating(u, g)
    PROVE  TypeOK' /\ UNCHANGED <<follows, chosen, search, locks, holder>>
  <1>1. ASSUME NEW g \in Games, CreateManualGame(g)
        PROVE  TypeOK' /\ UNCHANGED <<follows, chosen, search, locks, holder>>
    <2>1. PICK name \in Storable :
            games' = [games EXCEPT ![g] = [status |-> "active", name |-> name, by |-> NoSearch]]
      BY <1>1 DEF CreateManualGame
    <2>2. [status |-> "active", name |-> name, by |-> NoSearch] \in Rows
      BY DEF Rows
    <2>3. games' \in [Games -> Rows]
      BY <2>1, <2>2 DEF TypeOK
    <2> QED
      BY <1>1, <2>3 DEF CreateManualGame, TypeOK
  <1>2. ASSUME NEW g \in Games, HideGame(g)
        PROVE  TypeOK' /\ UNCHANGED <<follows, chosen, search, locks, holder>>
    <2>0. games[g] \in Rows
      BY DEF TypeOK
    <2>1. [games[g] EXCEPT !.status = "hidden"] \in Rows
      BY <2>0 DEF Rows
    <2>2. games' \in [Games -> Rows] /\ hidden' \in 0 .. MaxHidden
      BY <1>2, <2>1 DEF HideGame, TypeOK
    <2> QED
      BY <1>2, <2>2 DEF HideGame, TypeOK
  <1>3. ASSUME NEW u \in Users, NEW g \in Games, ValidGameId(u, g)
        PROVE  TypeOK' /\ UNCHANGED <<follows, chosen, search, locks, holder>>
    <2>1. requests' \subseteq Requests /\ asked' \in 0 .. MaxRequests
      BY <1>3 DEF ValidGameId, TypeOK, Requests
    <2> QED
      BY <1>3, <2>1 DEF ValidGameId, TypeOK
  <1>4. ASSUME NEW u \in Users, NEW g \in Games, DeleteUserRating(u, g)
        PROVE  TypeOK' /\ UNCHANGED <<follows, chosen, search, locks, holder>>
    BY <1>4 DEF DeleteUserRating, TypeOK
  <1> QED
    BY <1>1, <1>2, <1>3, <1>4

LEMMA InitTypes == Init => TypeOK /\ ExplicitChoiceWins
  <1> SUFFICES ASSUME Init PROVE TypeOK /\ ExplicitChoiceWins
    OBVIOUS
  <1>1. Absent \in Rows
    BY DEF Absent, Rows
  <1>2. NewSearch \in SearchStates /\ NewSearch.at = "idle"
    <2>1. <<>> \in Seq([bgg_id : Games, name : Names]) /\ 0 \in 0 .. MaxAttempts + 1
      OBVIOUS
    <2> QED
      BY <2>1 DEF NewSearch, SearchStates, SearchStages
  <1> QED
    BY <1>1, <1>2 DEF Init, NothingUnderWay, TypeOK, FollowStates, ExplicitChoiceWins

LEMMA NextTypes == TypeOK /\ ExplicitChoiceWins /\ [Next]_vars => TypeOK' /\ ExplicitChoiceWins'
  <1> SUFFICES ASSUME TypeOK, ExplicitChoiceWins, [Next]_vars PROVE TypeOK' /\ ExplicitChoiceWins'
    OBVIOUS
  <1>1. ASSUME NEW s \in Searches, SearchGameCatalog(s) \/ SearchStep(s)
        PROVE  UNCHANGED <<follows, chosen>>
    BY <1>1 DEF SearchGameCatalog, SearchStep, BggCacheLock, Acquire, Recheck,
                BggAnswersSearch, BggIsBusy, BggUnavailable, UpsertBggGames, SearchAgain
  <1>2. ASSUME UNCHANGED <<follows, chosen>> PROVE ExplicitChoiceWins'
    BY <1>2 DEF ExplicitChoiceWins
  <1>3. CASE UNCHANGED vars
    BY <1>3 DEF vars, TypeOK, ExplicitChoiceWins
  <1> QED
    BY <1>1, <1>2, <1>3, Outcomes, UserSteps, OtherSteps DEF Next, UserStep

(* The catalogue keeps every variable in its domain.                       *)
THEOREM TypeCorrect == Spec => []TypeOK
  <1>1. Spec => [](TypeOK /\ ExplicitChoiceWins)
    BY InitTypes, NextTypes, PTL DEF Spec
  <1> QED
    BY <1>1, PTL

(* What a user last said about a game is what its row says, however many   *)
(* ratings and uploads of theirs are being finished meanwhile.             *)
THEOREM TheUserDecides == Spec => []ExplicitChoiceWins
  <1>1. Spec => [](TypeOK /\ ExplicitChoiceWins)
    BY InitTypes, NextTypes, PTL DEF Spec
  <1> QED
    BY <1>1, PTL

-----------------------------------------------------------------------------
(* Searches of the same words.                                             *)

LEMMA NextLocks ==
    ASSUME TypeOK, TypeOK', LocksAgree, NEW s \in Searches,
           SearchGameCatalog(s) \/ SearchStep(s)
    PROVE  LocksAgree'
  <1> USE DEF Using, Holding
  <1>l. \A t \in Searches : Using(t) => search[t].lock \in Searches
    BY StatesOfSearches DEF LocksAgree
  <1>1. CASE SearchGameCatalog(s)
    <2>1. UNCHANGED <<locks, holder>>
      BY <1>1 DEF SearchGameCatalog
    <2>2. \A q \in Queries : locks[q] \in Searches \cup {NoSearch}
      BY DEF TypeOK
    <2> QED
      BY <1>1, <2>1, <2>2, Begins DEF LocksAgree, OnlyOne
  <1>2. CASE BggCacheLock(s)
    <2> DEFINE q == search[s].query
    <2>1. PICK l \in Searches :
            /\ l = IF locks[q] = NoSearch THEN s ELSE locks[q]
            /\ Goes(s, {"missed"}, {"waiting"}, l)
            /\ locks' = [locks EXCEPT ![q] = l]
      BY <1>2, TakesALock
    <2>2. search[s].at = "missed" /\ search'[s].at = "waiting" /\ search'[s].query = q
          /\ search'[s].lock = l /\ UNCHANGED holder /\ q \in Queries
      BY <1>2, <2>1 DEF Goes, BggCacheLock, LocksAgree
    <2>3. \A t \in Searches \ {s} : search'[t] = search[t]
      BY <1>2, TakesALock DEF OnlyOne
    <2>4. locks'[q] = l /\ \A p \in Queries \ {q} : locks'[p] = locks[p]
      BY <2>1, <2>2 DEF TypeOK
    <2>5. ASSUME NEW t \in Searches
          PROVE  /\ search'[t].lock # NoSearch <=> Using(t)'
                 /\ Using(t)' => search'[t].query \in Queries /\ search'[t].lock = locks'[search'[t].query]
                 /\ search'[t].at = "missed" => search'[t].query \in Queries
                 /\ Holding(t)' => holder'[search'[t].lock] = t
      <3>1. CASE t = s
        BY <2>2, <2>4, <3>1
      <3>2. CASE t # s
        <4>1. search'[t] = search[t]
          BY <2>3, <3>2
        <4>2. Using(t) /\ search[t].query = q => search[t].lock = l
          BY <1>l, <2>1 DEF LocksAgree
        <4> QED
          BY <2>2, <2>4, <4>1, <4>2 DEF LocksAgree
      <3> QED
        BY <3>1, <3>2
    <2>6. ASSUME NEW p \in Queries, locks'[p] # NoSearch
          PROVE  search'[locks'[p]].query = p /\ search'[locks'[p]].at \notin {"idle", "missed"}
      <3>1. CASE p # q
        BY <2>2, <2>3, <2>4, <2>6, <3>1, SMTT(30) DEF LocksAgree, TypeOK
      <3>2. CASE p = q
        BY <2>1, <2>2, <2>3, <2>4, <3>2 DEF LocksAgree, TypeOK
      <3> QED
        BY <3>1, <3>2
    <2> QED
      BY <2>5, <2>6 DEF LocksAgree
  <1>3. CASE /\ Holding(s) /\ Leave(s) /\ search'[s].at = "again" /\ search'[s].lock = NoSearch
    <2> DEFINE q == search[s].query
               k == search[s].lock
    <2>1. /\ search'[s].query = q /\ \A t \in Searches \ {s} : search'[t] = search[t]
      BY <1>3, Leaves DEF OnlyOne
    <2>2. q \in Queries /\ k = locks[q] /\ k \in Searches
      BY <1>3, <1>l DEF LocksAgree
    <2>3. holder' = [holder EXCEPT ![k] = NoSearch]
      BY <1>3 DEF Leave
    <2>4. \A p \in Queries \ {q} : locks'[p] = locks[p]
      BY <1>3, <2>2 DEF Leave, TypeOK
    <2>5. \/ locks'[q] = k
          \/ locks'[q] = NoSearch /\ \A t \in Searches \ {s} : search[t].lock # k
      BY <1>3, <2>2 DEF Leave, TypeOK
    <2>6. ASSUME NEW t \in Searches
          PROVE  /\ search'[t].lock # NoSearch <=> Using(t)'
                 /\ Using(t)' => search'[t].query \in Queries /\ search'[t].lock = locks'[search'[t].query]
                 /\ search'[t].at = "missed" => search'[t].query \in Queries
                 /\ Holding(t)' => holder'[search'[t].lock] = t
      <3>1. CASE t = s
        BY <1>3, <3>1
      <3>2. CASE t # s
        <4>1. search'[t] = search[t]
          BY <2>1, <3>2
        <4>2. Using(t) /\ search[t].query = q => search[t].lock = k
          BY <2>2 DEF LocksAgree
        <4>3. ASSUME Holding(t) PROVE holder'[search[t].lock] = t
          <5>1. holder[search[t].lock] = t /\ search[t].lock \in Searches
            BY <1>l, <4>3 DEF LocksAgree
          <5>2. CASE search[t].lock # k
            BY <2>3, <5>1, <5>2 DEF TypeOK
          <5>3. CASE search[t].lock = k
            BY <1>3, <3>2, <4>3, <5>1, <5>3 DEF LocksAgree
          <5> QED
            BY <5>2, <5>3
        <4>4. ASSUME Using(t) PROVE search[t].query \in Queries /\ search[t].lock = locks'[search[t].query]
          <5>1. search[t].query \in Queries /\ search[t].lock = locks[search[t].query]
                /\ search[t].lock # NoSearch
            BY <4>4 DEF LocksAgree
          <5>2. CASE search[t].query = q
            BY <2>5, <3>2, <4>2, <4>4, <5>1, <5>2
          <5>3. CASE search[t].query # q
            BY <2>4, <5>1, <5>3
          <5> QED
            BY <5>1, <5>2, <5>3
        <4>5. (search[t].lock # NoSearch <=> Using(t)) /\ (search[t].at = "missed" => search[t].query \in Queries)
          BY DEF LocksAgree
        <4> QED
          BY <4>1, <4>3, <4>4, <4>5
      <3> QED
        BY <3>1, <3>2
    <2>7. ASSUME NEW p \in Queries, locks'[p] # NoSearch
          PROVE  search'[locks'[p]].query = p /\ search'[locks'[p]].at \notin {"idle", "missed"}
      <3>1. locks'[p] = locks[p] /\ locks[p] \in Searches
        BY <2>2, <2>4, <2>5, <2>7 DEF TypeOK
      <3> QED
        BY <1>3, <2>1, <2>7, <3>1 DEF LocksAgree
    <2> QED
      BY <2>6, <2>7 DEF LocksAgree
  <1>4. CASE /\ Acquire(s) /\ search'[s].at = "locked" /\ search'[s].lock = search[s].lock
    <2>1. /\ search'[s].query = search[s].query
          /\ \A t \in Searches \ {s} : search'[t] = search[t]
      BY <1>4, SearchMoves DEF OnlyOne, SearchStep
    <2>2. /\ search[s].at = "waiting" /\ search[s].lock \in Searches
          /\ holder[search[s].lock] = NoSearch
          /\ holder' = [holder EXCEPT ![search[s].lock] = s] /\ UNCHANGED locks
      BY <1>4, <1>l DEF Acquire
    <2>3. holder'[search[s].lock] = s
      BY <2>2 DEF TypeOK
    <2>4. ASSUME NEW t \in Searches \ {s}, Holding(t) PROVE holder'[search[t].lock] = t
      <3>1. holder[search[t].lock] = t /\ search[t].lock \in Searches
        BY <1>l, <2>4 DEF LocksAgree
      <3>2. search[t].lock # search[s].lock
        BY <2>2, <2>4, <3>1
      <3> QED
        BY <2>2, <3>1, <3>2 DEF TypeOK
    <2>5. ASSUME NEW t \in Searches
          PROVE  /\ search'[t].lock # NoSearch <=> Using(t)'
                 /\ Using(t)' => search'[t].query \in Queries /\ search'[t].lock = locks'[search'[t].query]
                 /\ search'[t].at = "missed" => search'[t].query \in Queries
                 /\ Holding(t)' => holder'[search'[t].lock] = t
      <3>1. CASE t = s
        BY <1>4, <2>1, <2>2, <2>3, <3>1 DEF LocksAgree
      <3>2. CASE t # s
        <4>1. search'[t] = search[t]
          BY <2>1, <3>2
        <4> QED
          BY <2>2, <2>4, <3>2, <4>1 DEF LocksAgree
      <3> QED
        BY <3>1, <3>2
    <2>6. ASSUME NEW p \in Queries, locks'[p] # NoSearch
          PROVE  search'[locks'[p]].query = p /\ search'[locks'[p]].at \notin {"idle", "missed"}
      <3>1. locks'[p] = locks[p] /\ locks[p] \in Searches
        BY <2>2, <2>6 DEF TypeOK
      <3> QED
        BY <1>4, <2>1, <2>6, <3>1 DEF LocksAgree
    <2> QED
      BY <2>5, <2>6 DEF LocksAgree
  <1>5. CASE \/ /\ Holding(s) /\ search'[s].at \in {"asking", "caching"}
                /\ search'[s].lock = search[s].lock /\ UNCHANGED <<locks, holder>>
             \/ /\ search[s].at = "again" /\ search'[s].at = "done"
                /\ search'[s].lock = search[s].lock /\ UNCHANGED <<locks, holder>>
    <2>1. /\ search'[s].query = search[s].query
          /\ \A t \in Searches \ {s} : search'[t] = search[t]
      <3>1. CASE SearchStep(s)
        BY <3>1, SearchMoves DEF OnlyOne
      <3>2. CASE SearchGameCatalog(s)
        BY <1>5, <3>2 DEF SearchGameCatalog
      <3> QED
        BY <3>1, <3>2
    <2>0. UNCHANGED <<locks, holder>>
      BY <1>5
    <2>5. ASSUME NEW t \in Searches
          PROVE  /\ search'[t].lock # NoSearch <=> Using(t)'
                 /\ Using(t)' => search'[t].query \in Queries /\ search'[t].lock = locks'[search'[t].query]
                 /\ search'[t].at = "missed" => search'[t].query \in Queries
                 /\ Holding(t)' => holder'[search'[t].lock] = t
      <3>1. CASE t = s
        BY <1>5, <2>0, <2>1, <3>1 DEF LocksAgree
      <3>2. CASE t # s
        <4>1. search'[t] = search[t]
          BY <2>1, <3>2
        <4> QED
          BY <2>0, <4>1 DEF LocksAgree
      <3> QED
        BY <3>1, <3>2
    <2>6. ASSUME NEW p \in Queries, locks'[p] # NoSearch
          PROVE  search'[locks'[p]].query = p /\ search'[locks'[p]].at \notin {"idle", "missed"}
      <3>1. locks'[p] = locks[p] /\ locks[p] \in Searches
        BY <2>0, <2>6 DEF TypeOK
      <3> QED
        BY <1>5, <2>1, <2>6, <3>1 DEF LocksAgree
    <2> QED
      BY <2>5, <2>6 DEF LocksAgree
  <1> QED
    BY <1>1, <1>2, <1>3, <1>4, <1>5, SearchMoves

(* Two searches of the same words do not ask at once.                      *)
LEMMA OneAsks ==
    ASSUME TypeOK, LocksAgree, NEW s \in Searches, NEW t \in Searches,
           Holding(s), Holding(t), search[s].query = search[t].query
    PROVE  s = t
  BY DEF LocksAgree, Using, Holding

LEMMA NextStored ==
    ASSUME TypeOK, LocksAgree, StoredBefore, AskedForNothingStored,
           NEW s \in Searches, SearchGameCatalog(s) \/ SearchStep(s)
    PROVE  StoredBefore' /\ AskedForNothingStored'
  <1>1. \A t \in Searches \ {s} : search'[t] = search[t]
    BY Begins, SearchMoves DEF OnlyOne
  <1>2. search[s].at = "idle" \/ search'[s].query = search[s].query
    BY Begins, SearchMoves
  <1>3. search[s].at \in {"again", "done"} => search'[s].at \in {"again", "done"}
    <2>1. SearchGameCatalog(s) => search[s].at = "idle"
      BY DEF SearchGameCatalog
    <2>2. BggCacheLock(s) \/ Acquire(s) => search[s].at \in {"missed", "waiting"}
      BY DEF BggCacheLock, Acquire
    <2> QED
      BY <2>1, <2>2, SearchMoves DEF Holding
  <1>4. search[s].at = "idle" => search'[s].at \notin {"asking", "caching"}
    BY Begins
    DEF SearchStep, BggCacheLock, Acquire, Recheck, BggAnswersSearch,
        BggIsBusy, BggUnavailable, UpsertBggGames, SearchAgain
  <1>n. NoSearch \notin Searches /\ \A g \in Games : games[g].by \in Searches \cup {NoSearch}
    BY DEF TypeOK, Rows
  <1>5. CASE UNCHANGED games
    <2>1. StoredBefore'
      BY <1>1, <1>3, <1>5, <1>n DEF StoredBefore
    <2>2. ASSUME NEW q \in Queries PROVE SearchLocal(q)' = SearchLocal(q)
      BY <1>5 DEF SearchLocal, Active
    <2>3. ASSUME NEW t \in Searches, search'[t].at \in {"asking", "caching"},
                 NEW g \in Games, Active(g), games[g].name \in Matches[search'[t].query],
                 games[g].by # NoSearch
          PROVE  search'[games[g].by].query # search'[t].query
      <3>1. search'[t].query = search[t].query
        BY <1>1, <1>2, <1>4, <2>3
      <3>2. search'[games[g].by].query = search[games[g].by].query
        BY <1>1, <1>2, <1>n, <2>3 DEF StoredBefore
      <3>3. CASE search[t].at \in {"asking", "caching"}
        BY <2>3, <3>1, <3>2, <3>3 DEF AskedForNothingStored, SearchLocal
      <3>4. CASE search[t].at \notin {"asking", "caching"}
        <4>1. t = s /\ Recheck(s)
          <5>1. t = s
            BY <1>1, <2>3, <3>4
          <5>2. SearchStep(s) /\ search'[s].at \in {"asking", "caching"}
            BY <2>3, <5>1, Begins
          <5>3. search'[s].at = "waiting" \/ ~BggCacheLock(s)
            BY TakesALock DEF Goes
          <5>4. search[s].at = "locked"
            BY <3>4, <5>1, <5>2, <5>3, SearchMoves DEF Holding
          <5> QED
            BY <5>1, <5>2, <5>4
            DEF SearchStep, BggCacheLock, Acquire, BggAnswersSearch, BggIsBusy,
                BggUnavailable, UpsertBggGames, SearchAgain
        <4>2. SearchLocal(search[s].query) = {}
          BY <2>3, <4>1, Leaves DEF Recheck
        <4> QED
          BY <2>3, <3>1, <4>1, <4>2 DEF SearchLocal
      <3> QED
        BY <3>3, <3>4
    <2> QED
      BY <1>5, <2>1, <2>3 DEF AskedForNothingStored, SearchLocal, Active
  <1>6. CASE ~UNCHANGED games
    <2>1. UpsertBggGames(s)
      BY <1>6 DEF SearchGameCatalog, SearchStep, BggCacheLock, Acquire, Recheck,
                  BggAnswersSearch, BggIsBusy, BggUnavailable, SearchAgain
    <2>2. /\ search[s].at = "caching" /\ search'[s].at = "again"
          /\ search'[s].query = search[s].query
      BY <2>1, Leaves DEF UpsertBggGames
    <2>3. \A g \in Games : games'[g] = games[g] \/ games'[g].by = s
      BY <2>1, RowsStored
    <2>4. StoredBefore'
      BY <1>1, <1>n, <2>2, <2>3 DEF StoredBefore
    <2>5. ASSUME NEW t \in Searches, search'[t].at \in {"asking", "caching"},
                 NEW g \in Games, games'[g].status = "active",
                 games'[g].name \in Matches[search'[t].query],
                 games'[g].by # NoSearch
          PROVE  search'[games'[g].by].query # search'[t].query
      <3>1. t # s /\ search'[t] = search[t]
        BY <1>1, <2>2, <2>5
      <3>2. search[s].query # search[t].query
        BY <2>2, <2>5, <3>1, OneAsks DEF Holding
      <3>3. CASE games'[g].by = s
        BY <2>2, <3>1, <3>2, <3>3
      <3>4. CASE games'[g] = games[g]
        <4>1. search'[games[g].by].query = search[games[g].by].query
          BY <1>1, <1>n, <2>2, <2>5, <3>4
        <4> QED
          BY <2>5, <3>1, <3>4, <4>1 DEF AskedForNothingStored, SearchLocal, Active
      <3> QED
        BY <2>3, <3>3, <3>4
    <2> QED
      BY <2>4, <2>5 DEF AskedForNothingStored, SearchLocal, Active
  <1> QED
    BY <1>5, <1>6

(* Games that are entered by hand or hidden are stored by no search.       *)
LEMMA GamesChange ==
    ASSUME TypeOK, StoredBefore, AskedForNothingStored, UNCHANGED search,
           NEW g \in Games, CreateManualGame(g) \/ HideGame(g)
    PROVE  StoredBefore' /\ AskedForNothingStored'
  <1>1. /\ \A h \in Games \ {g} : games'[h] = games[h]
        /\ \/ games'[g].by = NoSearch
           \/ games'[g].by = games[g].by /\ games'[g].status = "hidden"
    BY DEF CreateManualGame, HideGame, TypeOK, Rows
  <1> QED
    BY <1>1 DEF StoredBefore, AskedForNothingStored, SearchLocal, Active

LEMMA SearchInvariant == Spec => []SearchInv
  <1>1. Init => SearchInv
    <2> SUFFICES ASSUME Init PROVE SearchInv
      OBVIOUS
    <2>1. /\ \A s \in Searches : search[s].at = "idle" /\ search[s].lock = NoSearch
          /\ \A q \in Queries : locks[q] = NoSearch
          /\ \A g \in Games : games[g].by = NoSearch
      BY DEF Init, NothingUnderWay, NewSearch, Absent
    <2> QED
      BY <2>1, InitTypes
      DEF SearchInv, LocksAgree, StoredBefore, AskedForNothingStored, Using, Holding
  <1>2. SearchInv /\ ExplicitChoiceWins /\ [Next]_vars => SearchInv'
    <2> SUFFICES ASSUME SearchInv, ExplicitChoiceWins, [Next]_vars PROVE SearchInv'
      OBVIOUS
    <2>t. TypeOK /\ TypeOK'
      BY NextTypes DEF SearchInv
    <2>1. ASSUME NEW s \in Searches, SearchGameCatalog(s) \/ SearchStep(s) PROVE SearchInv'
      BY <2>t, <2>1, NextLocks, NextStored DEF SearchInv
    <2>2. ASSUME UNCHANGED <<search, locks, holder>> PROVE LocksAgree'
      BY <2>2 DEF SearchInv, LocksAgree, Using, Holding
    <2>3. ASSUME UNCHANGED <<games, search, locks, holder>> PROVE SearchInv'
      BY <2>t, <2>2, <2>3
      DEF SearchInv, StoredBefore, AskedForNothingStored, SearchLocal, Active
    <2>4. ASSUME NEW g \in Games, CreateManualGame(g) \/ HideGame(g) PROVE SearchInv'
      <3>1. UNCHANGED <<search, locks, holder>>
        BY <2>4 DEF CreateManualGame, HideGame
      <3> QED
        BY <2>t, <2>2, <2>4, <3>1, GamesChange DEF SearchInv
    <2>5. ASSUME \/ \E u \in Users, g \in Games : ValidGameId(u, g) \/ DeleteUserRating(u, g)
                 \/ \E r \in requests : UserStep(r)
                 \/ UNCHANGED vars
          PROVE  UNCHANGED <<games, search, locks, holder>>
      BY <2>5 DEF ValidGameId, DeleteUserRating, UserStep, FollowGame, UnfollowGame,
                  UpsertUserRating, AutoFollowGame, AutoFollowFails, vars
    <2> QED
      BY <2>1, <2>3, <2>4, <2>5 DEF Next, UserStep
  <1>3. Spec => [](TypeOK /\ ExplicitChoiceWins)
    BY InitTypes, NextTypes, PTL DEF Spec
  <1> QED
    BY <1>1, <1>2, <1>3, PTL DEF Spec

(* While one search asks BGG, no other search of the same words does, and  *)
(* none of them has already stored a game that they find.                  *)
THEOREM MissesCoalesce == Spec => []CoalescedMisses
  <1>1. SearchInv => CoalescedMisses
    BY OneAsks DEF SearchInv, CoalescedMisses, AskedForNothingStored, Holding
  <1> QED
    BY <1>1, SearchInvariant, PTL
=============================================================================
