----------------------------- MODULE MCStartup -----------------------------
(* Command lines of two engines and up to two more options, that resume     *)
(* from a saved file, or are wrong in one of the ways sanitize is there for. *)
EXTENDS Startup, TLC

Move(name) == [move |-> name, san |-> TRUE, over |-> FALSE]
Game(fen, moves) == [fen |-> fen, moves |-> moves]

\* Games of two moves: one to the end, and one with a move that cannot be read.
MCLibrary ==
    "three.epd" :> [extension |-> "epd", games |-> << >>, lines |-> <<"o1", "", "o2", "o3">>] @@
    "two.pgn" :> [extension |-> "pgn",
                  games |-> <<Game("startpos", <<Move("m1"), [Move("m2") EXCEPT !.over = TRUE]>>),
                                Game("p2", <<Move("m3"), [Move("m4") EXCEPT !.san = FALSE], Move("m5")>>)>>,
                  lines |-> <<"1. m1 m2 *", "", "1. m3 m4 m5 *">>] @@
    "empty.pgn" :> [extension |-> "pgn", games |-> << >>, lines |-> << >>] @@
    "book.txt" :> [extension |-> "txt", games |-> << >>, lines |-> <<"t1", "t2">>]

MCRand == <<<<4, 1, 0>>, <<2, 3, 1>>>>

Clock(moves, seconds) == [kind |-> "clock", moves |-> moves, minutes |-> 0, seconds |-> seconds, increment |-> 0]
Infinite == [Clock(0, 0) EXCEPT !.kind = "inf"]
Hourglass == [Clock(0, 1) EXCEPT !.kind = "hg"]

Engine(name, limit) == <<"-engine", <<<<"cmd", "e1">>, <<"name", name>>>> \o limit>>
Tc == <<<<"tc", Clock(0, 8)>>>>
Both == <<Engine("A", Tc), Engine("B", Tc)>>

\* What decides the rounds, the games and the openings.
Shape ==
    {<<"-games", <<n>>>> : n \in {0, 1, 3}} \cup {<<"-rounds", <<n>>>> : n \in {0, 1, 4}} \cup
    {<<"-repeat", << >>>>, <<"-repeat", <<1>>>>, <<"-srand", <<2>>>>,
     <<"-openings", <<<<"file", "three.epd">>, <<"order", "random">>>>>>,
     <<"-openings", <<<<"file", "three.epd">>, <<"start", 3>>>>>>,
     <<"-openings", <<<<"file", "two.pgn">>, <<"format", "pgn">>, <<"plies", 1>>>>>>,
     <<"-openings", <<<<"file", "two.pgn">>>>>>,
     <<"-openings", <<<<"file", "book.txt">>>>>>,
     <<"-openings", <<<<"file", "empty.pgn">>>>>>,
     <<"-variant", <<"fischerandom">>>>, <<"-report", <<<<"penta", FALSE>>>>>>,
     <<"-output", <<<<"format", "cutechess">>>>>>,
     <<"-sprt", <<<<"elo1", 5>>, <<"alpha", 5>>, <<"beta", 5>>>>>>,
     <<"-sprt", <<<<"elo1", 5>>, <<"alpha", 5>>, <<"beta", 5>>, <<"model", "bayesian">>>>>>}

\* The others, right and wrong.
Other ==
    {<<"-each", Tc>>, <<"-each", <<<<"st", 1>>>>>>, <<"-each", <<<<"name", "A">>>>>>,
     <<"-each", <<<<"tc", Infinite>>, <<"plies", 6>>>>>>, <<"-each", <<<<"tc", Infinite>>>>>>,
     <<"-each", <<<<"tc", Hourglass>>>>>>, <<"-each", <<<<"nodes", 5>>, <<"timemargin", 9>>>>>>,
     <<"-each", <<<<"option", <<"Hash", "16">>>>, <<"proto", "uci">>, <<"dir", "d">>>>>>,
     <<"-pgnout", <<<<"file", "games.pgn">>, <<"notation", "uci">>, <<"nodes", TRUE>>>>>>,
     <<"-epdout", <<<<"file", "games.epd">>>>>>, <<"-epdout", << >>>>,
     <<"-log", <<<<"file", "log">>, <<"level", "trace">>>>>>, <<"-log", <<<<"file", "">>>>>>,
     <<"-draw", <<<<"score", 8>>>>>>, <<"-draw", <<<<"score", -8>>>>>>,
     <<"-resign", <<<<"movecount", 3>>, <<"twosided", TRUE>>>>>>, <<"-draw", <<<<"movecount", 0>>>>>>,
     <<"-maxmoves", <<50>>>>, <<"-maxmoves", <<0>>>>,
     <<"-concurrency", <<4>>>>, <<"-concurrency", <<0>>>>, <<"-ratinginterval", <<0>>>>,
     <<"-scoreinterval", <<0>>>>, <<"-noswap", << >>>>, <<"-tournament", << >>>>,
     <<"-help", << >>>>, <<"-debug", << >>>>, <<"-config", <<<<"outname", "mine">>>>>>}

Quick == <<"-quick", <<<<"cmd", "e1">>, <<"cmd", "e1">>, <<"book", "three.epd">>>>>>

Load == <<"-config", <<<<"file", "config.json">>>>>>

\* A new tournament.
New ==
    {Both} \cup {Both \o <<o>> : o \in Other} \cup
    {Both \o <<o, p>> : o, p \in Shape} \cup
    {<<Quick>>, Both \o <<Quick>>, <<Engine("A", Tc)>>,
     <<Engine("A", << >>), Engine("B", Tc)>>, <<Engine("A", Tc), Engine("A", Tc)>>,
     <<Engine("", Tc), Engine("B", Tc)>>, <<Engine("A", <<<<"tc", Clock(2, 0)>>>>), Engine("B", Tc)>>,
     <<<<"-each", Tc>>>> \o Both}

\* One that starts from a file.
Resumed ==
    {<<Load>>, <<Load, <<"-rounds", <<4>>>>>>, <<Load, Engine("B", Tc)>>,
     <<Load, <<"-each", <<<<"name", "C">>>>>>>>,
     <<<<"-config", <<<<"file", "mine">>>>>>>>,
     <<<<"-config", <<<<"file", "config.json">>, <<"stats", FALSE>>>>>>>>,
     <<Engine("C", Tc), Engine("D", Tc), <<"-config", <<<<"file", "config.json">>, <<"discard", TRUE>>>>>>>>,
     <<Load, <<"-config", <<<<"discard", TRUE>>>>>>>>}

\* The third session only goes on.
MCCommandLines == <<New, Resumed, {<<Load>>}>>
=============================================================================
