-------------------------- MODULE MCGameCatalogue --------------------------
(* TLC instance of GameCatalogue: a game that BGG lists under two names, one*)
(* of each language, another with a year the table refuses, and a game      *)
(* entered by hand.                                                         *)
EXTENDS GameCatalogue, TLC

CONSTANTS catan, go, casero, last

MCGames == {catan, go, casero}
MCNames == {"colonos", "settlers", "go"}
MCStorable == {"colonos", "settlers"}
MCQueries == {"colonos", "settlers"}
MCMatches == [q \in MCQueries |-> {q}]

Listed(game, name) == [bgg_id |-> game, name |-> name]
MCBggAnswers ==
    ("colonos" :> {<<>>, <<Listed(catan, "colonos")>>, <<Listed(catan, "colonos"), Listed(go, "go")>>})
    @@ ("settlers" :> {<<Listed(catan, "colonos"), Listed(catan, "settlers")>>})

(* Who searches and who follows meet only in the games that are active: the *)
(* behaviours explored start with no active game and only search, or with a *)
(* game, requests about it and others, and one last search.                 *)
Row(status) == [status |-> status, name |-> "settlers", by |-> NoSearch]

OnlySearches ==
    /\ games = [g \in Games |-> IF g = casero THEN Row("hidden") ELSE Absent]
    /\ search = [s \in Searches |-> NewSearch]
    /\ asked = MaxRequests

OneSearch ==
    /\ games = [g \in Games |-> IF g = catan THEN Row("active") ELSE Absent]
    /\ search = [s \in Searches |-> IF s = last THEN NewSearch ELSE [NewSearch EXCEPT !.at = "done"]]
    /\ asked = 0

MCInit ==
    /\ OnlySearches \/ OneSearch
    /\ NothingUnderWay

MCSpec == MCInit /\ [][Next]_vars /\ Fairness
=============================================================================
