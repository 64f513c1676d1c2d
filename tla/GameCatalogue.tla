--------------------------- MODULE GameCatalogue ---------------------------
(* The catalogue of games and who follows them.  A search that finds        *)
(* nothing asks BoardGameGeek (BGG) and stores what it answers; searches of *)
(* the same words wait for each other on a lock that lives only as long as  *)
(* somebody uses it.  Following a game is a choice of the user that the     *)
(* automatic follow after a rating or an upload must respect.               *)
EXTENDS Naturals, Sequences, FiniteSets, SequencesExt

CONSTANTS
    Games,          \* what BGG knows, by bgg_id, and games entered by hand
    HandMade,       \* the games entered by hand
    NoName, Names,
    Queries,        \* the words of a search
    Matches,        \* the names each query finds in the catalogue
    Long,           \* queries long enough to ask BGG
    BggAnswers,     \* what BGG may answer to each query, once parsed
    Storable,       \* names and years the table accepts
    CacheLimit, MaxAttempts,
    Searches, NoSearch,
    Users,
    MaxRequests, MaxHidden

ASSUME CatalogueAssumption ==
    /\ HandMade \subseteq Games /\ NoName \notin Names /\ NoSearch \notin Searches
    /\ Matches \in [Queries -> SUBSET Names] /\ Long \subseteq Queries
    /\ Storable \subseteq Names
    /\ BggAnswers \in [Queries -> SUBSET Seq([bgg_id : Games \ HandMade, name : Names])]
    /\ CacheLimit \in Nat \ {0} /\ MaxAttempts \in Nat
    /\ MaxRequests \in Nat /\ MaxHidden \in Nat

VARIABLES
    games,      \* the rows of games
    search,     \* each search under way
    locks,      \* _bgg_cache_locks: the lock of each query, named by who made it
    holder,     \* who holds each lock
    follows,    \* the rows of game_follows
    ratings,    \* the rows of ratings
    requests,   \* requests about a game that have passed their validation
    chosen,     \* the last explicit choice of each user about each game
    asked, hidden

searchVars == <<games, search, locks, holder>>
userVars == <<follows, ratings, requests, chosen, asked>>
vars == <<searchVars, userVars, hidden>>

Absent == [status |-> "absent", name |-> NoName, by |-> NoSearch]
NewSearch == [at |-> "idle", query |-> "none", lock |-> NoSearch, attempt |-> 0, found |-> <<>>]

NothingUnderWay ==
    /\ locks = [q \in Queries |-> NoSearch]
    /\ holder = [l \in Searches |-> NoSearch]
    /\ follows = [u \in Users |-> [g \in Games |-> "none"]]
    /\ ratings = [u \in Users |-> {}]
    /\ requests = {}
    /\ chosen = [u \in Users |-> [g \in Games |-> "none"]]
    /\ hidden = 0

Init ==
    /\ games = [g \in Games |-> Absent]
    /\ search = [s \in Searches |-> NewSearch]
    /\ NothingUnderWay
    /\ asked = 0

Active(g) == games[g].status = "active"

SearchLocal(q) == {g \in Games : Active(g) /\ games[g].name \in Matches[q]}

Go(s, at) == search' = [search EXCEPT ![s].at = at]

----------------------------------------------------------------------------
(* Searching.                                                               *)

SearchGameCatalog(s) ==
    /\ search[s].at = "idle"
    /\ \E q \in Queries :
         search' = [search EXCEPT ![s].query = q,
                        ![s].at = IF SearchLocal(q) = {} /\ q \in Long THEN "missed" ELSE "done"]
    /\ UNCHANGED <<games, locks, holder, userVars, hidden>>

BggCacheLock_New(s) ==
    /\ search[s].at = "missed"
    /\ search' = [search EXCEPT ![s].at = "waiting", ![s].lock = s]
    /\ UNCHANGED <<games, locks, holder, userVars, hidden>>

(* The lock of the query, or a new one when nobody is using it.             *)
BggCacheLock(s) ==
    /\ search[s].at = "missed"
    /\ LET q == search[s].query
           lock == IF locks[q] = NoSearch THEN s ELSE locks[q]
       IN /\ search' = [search EXCEPT ![s].at = "waiting", ![s].lock = lock]
          /\ locks' = [locks EXCEPT ![q] = lock]
    /\ UNCHANGED <<games, holder, userVars, hidden>>

Acquire(s) ==
    /\ search[s].at = "waiting" /\ holder[search[s].lock] = NoSearch
    /\ holder' = [holder EXCEPT ![search[s].lock] = s]
    /\ Go(s, "locked")
    /\ UNCHANGED <<games, locks, userVars, hidden>>

(* The end of the block that holds the lock, whatever happened in it.  The  *)
(* dictionary forgets a lock that nobody uses any more.                     *)
Leave(s) ==
    LET q == search[s].query IN
    /\ search' = [search EXCEPT ![s].at = "again", ![s].lock = NoSearch]
    /\ holder' = [holder EXCEPT ![search[s].lock] = NoSearch]
    /\ locks' = IF \E t \in Searches \ {s} : search[t].lock = search[s].lock
                THEN locks ELSE [locks EXCEPT ![q] = NoSearch]

(* Whoever waited looks again before asking.                                *)
Recheck(s) ==
    /\ search[s].at = "locked"
    /\ IF SearchLocal(search[s].query) # {}
       THEN Leave(s)
       ELSE /\ search' = [search EXCEPT ![s].at = "asking", ![s].attempt = 1]
            /\ UNCHANGED <<locks, holder>>
    /\ UNCHANGED <<games, userVars, hidden>>

(* BGG answers; or it is busy, and asked again a limited number of times; or*)
(* it fails, and the search goes on without it.                             *)
BggAnswersSearch(s) ==
    /\ search[s].at = "asking" /\ search[s].attempt <= MaxAttempts
    /\ \E answer \in BggAnswers[search[s].query] :
         search' = [search EXCEPT ![s].at = "caching",
                        ![s].found = SubSeq(answer, 1, IF Len(answer) < CacheLimit
                                                       THEN Len(answer) ELSE CacheLimit)]
    /\ UNCHANGED <<games, locks, holder, userVars, hidden>>

BggIsBusy(s) ==
    /\ search[s].at = "asking" /\ search[s].attempt < MaxAttempts
    /\ search' = [search EXCEPT ![s].attempt = @ + 1]
    /\ UNCHANGED <<games, locks, holder, userVars, hidden>>

BggUnavailable_KeepsLock(s) ==
    /\ search[s].at = "asking"
    /\ Go(s, "again")
    /\ UNCHANGED <<games, locks, holder, userVars, hidden>>

BggUnavailable(s) ==
    /\ search[s].at = "asking"
    /\ Leave(s)
    /\ UNCHANGED <<games, userVars, hidden>>

(* The last game of the answer with each bgg_id.                            *)
Deduplicated(found) ==
    {found[i] : i \in {j \in DOMAIN found :
                          \A k \in DOMAIN found : k > j => found[k].bgg_id # found[j].bgg_id}}

(* One statement for the whole answer: a name or a year that the table      *)
(* refuses loses all of it.  A hidden game that BGG knows is shown again.   *)
UpsertBggGames(s) ==
    LET batch == Deduplicated(search[s].found)
        stored == {row.bgg_id : row \in batch}
    IN /\ search[s].at = "caching"
       /\ IF \A row \in batch : row.name \in Storable
          THEN games' = [g \in Games |->
                  IF g \in stored
                  THEN [status |-> "active", by |-> s,
                        name |-> (CHOOSE row \in batch : row.bgg_id = g).name]
                  ELSE games[g]]
          ELSE UNCHANGED games
       /\ Leave(s)
       /\ UNCHANGED <<userVars, hidden>>

SearchAgain(s) ==
    /\ search[s].at = "again"
    /\ Go(s, "done")
    /\ UNCHANGED <<games, locks, holder, userVars, hidden>>

----------------------------------------------------------------------------
(* Users and their games.                                                   *)

CreateManualGame(g) ==
    /\ g \in HandMade /\ games[g].status = "absent"
    /\ \E name \in Storable :
           games' = [games EXCEPT ![g] = [status |-> "active", name |-> name, by |-> NoSearch]]
    /\ UNCHANGED <<search, locks, holder, userVars, hidden>>

(* Nothing in the program hides a game: an administrator does.              *)
HideGame(g) ==
    /\ hidden < MaxHidden /\ Active(g)
    /\ games' = [games EXCEPT ![g].status = "hidden"]
    /\ hidden' = hidden + 1
    /\ UNCHANGED <<search, locks, holder, userVars>>

(* Every request about a game first looks whether it is active, and writes  *)
(* later, when it may not be.                                               *)
ValidGameId(u, g) ==
    /\ asked < MaxRequests /\ Active(g)
    /\ \E what \in {"follow", "unfollow", "rate", "upload"} :
           requests' = requests \cup {[id |-> asked, user |-> u, game |-> g, what |-> what]}
    /\ asked' = asked + 1
    /\ UNCHANGED <<searchVars, follows, ratings, chosen, hidden>>

FollowGame(r) ==
    /\ r \in requests /\ r.what = "follow"
    /\ follows' = [follows EXCEPT ![r.user][r.game] = "following"]
    /\ chosen' = [chosen EXCEPT ![r.user][r.game] = "following"]
    /\ requests' = requests \ {r}
    /\ UNCHANGED <<searchVars, ratings, asked, hidden>>

UnfollowGame(r) ==
    /\ r \in requests /\ r.what = "unfollow"
    /\ follows' = [follows EXCEPT ![r.user][r.game] = "left"]
    /\ chosen' = [chosen EXCEPT ![r.user][r.game] = "left"]
    /\ requests' = requests \ {r}
    /\ UNCHANGED <<searchVars, ratings, asked, hidden>>

(* The rating is committed before the automatic follow is tried.            *)
UpsertUserRating(r) ==
    /\ r \in requests /\ r.what = "rate"
    /\ ratings' = [ratings EXCEPT ![r.user] = @ \cup {r.game}]
    /\ requests' = (requests \ {r}) \cup {[r EXCEPT !.what = "rated"]}
    /\ UNCHANGED <<searchVars, follows, chosen, asked, hidden>>

DeleteUserRating(u, g) ==
    /\ g \in ratings[u]
    /\ ratings' = [ratings EXCEPT ![u] = @ \ {g}]
    /\ UNCHANGED <<searchVars, follows, requests, chosen, asked, hidden>>

AutoFollowGame_Overwrites(r) ==
    /\ r \in requests /\ r.what \in {"rated", "upload"}
    /\ follows' = [follows EXCEPT ![r.user][r.game] = "following"]
    /\ requests' = requests \ {r}
    /\ UNCHANGED <<searchVars, ratings, chosen, asked, hidden>>

AutoFollowGame(r) ==
    /\ r \in requests /\ r.what \in {"rated", "upload"}
    /\ follows' = [follows EXCEPT ![r.user][r.game] = IF @ = "none" THEN "following" ELSE @]
    /\ requests' = requests \ {r}
    /\ UNCHANGED <<searchVars, ratings, chosen, asked, hidden>>

(* What was rated or uploaded stays, and the game is not followed.          *)
AutoFollowFails(r) ==
    /\ r \in requests /\ r.what \in {"rated", "upload"}
    /\ requests' = requests \ {r}
    /\ UNCHANGED <<searchVars, follows, ratings, chosen, asked, hidden>>

----------------------------------------------------------------------------
SearchStep(s) ==
    \/ BggCacheLock(s) \/ Acquire(s) \/ Recheck(s)
    \/ BggAnswersSearch(s) \/ BggIsBusy(s) \/ BggUnavailable(s)
    \/ UpsertBggGames(s) \/ SearchAgain(s)

Next ==
    \/ \E s \in Searches : SearchGameCatalog(s) \/ SearchStep(s)
    \/ \E g \in Games : CreateManualGame(g) \/ HideGame(g)
    \/ \E u \in Users, g \in Games : ValidGameId(u, g) \/ DeleteUserRating(u, g)
    \/ \E r \in requests : \/ FollowGame(r) \/ UnfollowGame(r) \/ UpsertUserRating(r)
                           \/ AutoFollowGame(r) \/ AutoFollowFails(r)

(* A request that has begun is carried on by the event loop; BGG and the    *)
(* database answer or time out.  Nobody is obliged to search.               *)
Fairness == \A s \in Searches : WF_vars(SearchStep(s))

Spec == Init /\ [][Next]_vars /\ Fairness

----------------------------------------------------------------------------
Rows == [status : {"absent", "active", "hidden"}, name : Names \cup {NoName},
         by : Searches \cup {NoSearch}]
SearchStages == {"idle", "missed", "waiting", "locked", "asking", "caching", "again", "done"}
SearchStates == [at : SearchStages, query : Queries \cup {"none"}, lock : Searches \cup {NoSearch},
                 attempt : 0 .. MaxAttempts + 1, found : Seq([bgg_id : Games, name : Names])]
Requests == [id : 0 .. MaxRequests, user : Users, game : Games,
             what : {"follow", "unfollow", "rate", "rated", "upload"}]
FollowStates == {"none", "following", "left"}

TypeOK ==
    /\ games \in [Games -> Rows]
    /\ search \in [Searches -> SearchStates]
    /\ \A s \in Searches : search[s].at \in {"idle", "done"} \/ search[s].query \in Queries
    /\ locks \in [Queries -> Searches \cup {NoSearch}]
    /\ holder \in [Searches -> Searches \cup {NoSearch}]
    /\ follows \in [Users -> [Games -> FollowStates]] /\ chosen \in [Users -> [Games -> FollowStates]]
    /\ ratings \in [Users -> SUBSET Games]
    /\ requests \subseteq Requests
    /\ asked \in 0 .. MaxRequests /\ hidden \in 0 .. MaxHidden

(* While one search asks BGG, no other search of the same words does, and   *)
(* none of them has already stored a game that they find: through locks that*)
(* are made and forgotten, failures of BGG, and games hidden or renamed by  *)
(* other searches.                                                          *)
CoalescedMisses ==
    \A s \in Searches :
        search[s].at \in {"asking", "caching"} =>
            /\ \A t \in Searches \ {s} :
                   search[t].query = search[s].query => search[t].at \notin {"asking", "caching"}
            /\ \A g \in SearchLocal(search[s].query) :
                   games[g].by # NoSearch => search[games[g].by].query # search[s].query

(* What a user last said about a game is what the game's row says, however  *)
(* many ratings and uploads of theirs are being finished meanwhile; and a   *)
(* row nobody asked for is a follow.                                        *)
ExplicitChoiceWins ==
    \A u \in Users, g \in Games :
        follows[u][g] # chosen[u][g] => chosen[u][g] = "none" /\ follows[u][g] = "following"

(* Every search ends, with what BGG said or without it.                     *)
SearchesEnd ==
    \A s \in Searches : search[s].at # "idle" ~> search[s].at = "done"
=============================================================================
