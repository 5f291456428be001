--------------------------- MODULE Configuration ---------------------------
(***************************************************************************)
(* The settings of a tournament and of an engine (types/*.hpp) with their  *)
(* defaults, and what they are about outside the program.  Where a setting *)
(* has another name on the command line (track_nodes, event_name) it is    *)
(* named as there.                                                          *)
(***************************************************************************)
EXTENDS Integers

CONSTANTS HardwareThreads,  \* std::thread::hardware_concurrency()
          MaxInt,           \* std::numeric_limits<int>::max()
          SprtRounds,       \* what -sprt makes of -rounds 0 before it, 500000
          QuickRounds,      \* the rounds of -quick, 25000
          EngineFiles,      \* the commands of the engines that exist
          Library           \* the books on the disk: [extension, games, lines], as the
                            \* parser of PGN files and as a reader of lines finds them

ASSUME ConfigurationAssumption ==
    /\ HardwareThreads \in Nat \ {0} /\ MaxInt \in Nat \ {0}
    /\ SprtRounds \in Nat \ {0} /\ QuickRounds \in Nat \ {0}

-----------------------------------------------------------------------------

NoTime == [time |-> 0, increment |-> 0, fixed_time |-> 0, moves |-> 0, timemargin |-> 0]

NewEngine ==
    [name |-> "", cmd |-> "", dir |-> "", args |-> "", options |-> << >>,
     limit |-> [tc |-> NoTime, nodes |-> 0, plies |-> 0],
     variant |-> "standard", recover |-> FALSE]

\* config::Tournament; the seed is random_uint64().
NewTournament(seed) ==
    [opening |-> [file |-> "", format |-> "none", order |-> "sequential", plies |-> -1, start |-> 1],
     pgn |-> [file |-> "", notation |-> "san", min |-> FALSE, nodes |-> FALSE, seldepth |-> FALSE,
              nps |-> FALSE, hashfull |-> FALSE, tbhits |-> FALSE],
     epd |-> [file |-> ""],
     log |-> [file |-> "", level |-> "warn", compress |-> FALSE, realtime |-> TRUE],
     sprt |-> [enabled |-> FALSE, alpha |-> 0, beta |-> 0, elo0 |-> 0, elo1 |-> 0, model |-> "normalized"],
     draw |-> [enabled |-> FALSE, movenumber |-> 0, movecount |-> 1, score |-> 0],
     resign |-> [enabled |-> FALSE, movecount |-> 1, score |-> 0, twosided |-> FALSE],
     maxmoves |-> [enabled |-> FALSE, movecount |-> 1],
     config_name |-> "", event |-> "Fastchess Tournament", site |-> "?",
     variant |-> "standard", output |-> "fastchess", seed |-> seed,
     autosaveinterval |-> 20, ratinginterval |-> 10, scoreinterval |-> 1,
     games |-> 2, rounds |-> 2, concurrency |-> 1,
     report_penta |-> TRUE, noswap |-> FALSE, recover |-> FALSE, affinity |-> FALSE]

NoStats == [engines |-> {}, games |-> 0]
=============================================================================
