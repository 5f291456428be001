------------------------------ MODULE Options ------------------------------
(***************************************************************************)
(* The handlers of the command line (cli/cli.cpp): each takes the          *)
(* ArgumentData so far and the parameters of one option.  A parameter of   *)
(* the form key=value is a pair; a value is what its text stands for.      *)
(* Left out are the parameters the code has no guard against: a text that  *)
(* is no number, no parameter where one is read, negative counts, and      *)
(* -quick before two engines are known (it reads configs[1]).              *)
(***************************************************************************)
EXTENDS Configuration, Sequences

-----------------------------------------------------------------------------

\* ArgumentData; old_tournament_config draws a seed of its own.
NewArguments(seed, old_seed) ==
    [tournament_config |-> NewTournament(seed), old_tournament_config |-> NewTournament(old_seed),
     configs |-> << >>, old_configs |-> << >>, stats |-> NoStats]

-----------------------------------------------------------------------------
(* Helpers                                                                   *)

Keys(params) == {params[i][1] : i \in DOMAIN params}

\* str_utils::endsWith: the format a file name tells.
FormatOf(file, default) ==
    IF Library[file].extension \in {"epd", "pgn"} THEN Library[file].extension ELSE default

-----------------------------------------------------------------------------
(* Options that are read by parseDashOptions: what the function each passes  *)
(* to it does with one parameter p.                                          *)

\* parseTc: moves/minutes:seconds+increment to milliseconds.  All other limits
\* of the clock, st and timemargin among them, are those of a new one.
parseTc(tc) ==
    IF tc.kind = "inf"
      THEN NoTime
      ELSE [NoTime EXCEPT !.moves = tc.moves,
                          !.time = (60 * tc.minutes + tc.seconds) * 1000,
                          !.increment = tc.increment * 1000]

parseEngineKeyValues(engine, p) ==
    CASE p[1] \in {"cmd", "name", "dir", "args"} -> [engine EXCEPT ![p[1]] = p[2]]
      [] p[1] = "tc"                -> [engine EXCEPT !.limit.tc = parseTc(p[2])]
      [] p[1] = "st"                -> [engine EXCEPT !.limit.tc.fixed_time = p[2] * 1000]
      [] p[1] = "timemargin"        -> [engine EXCEPT !.limit.tc.timemargin = p[2]]
      [] p[1] = "nodes"             -> [engine EXCEPT !.limit.nodes = p[2]]
      [] p[1] \in {"plies", "depth"} -> [engine EXCEPT !.limit.plies = p[2]]
      [] p[1] = "option"            -> [engine EXCEPT !.options = Append(@, p[2])]
      [] p[1] = "proto"             -> engine

\* The engine that was added last.
parseEngine(data, p) == [data EXCEPT !.configs[Len(data.configs)] = parseEngineKeyValues(@, p)]

\* Only the engines read so far.
parseEach(data, p) == [data EXCEPT !.configs = [i \in DOMAIN @ |-> parseEngineKeyValues(@[i], p)]]

\* The plain form "-pgnout NAME [min]" is file=NAME min=true or min=false.
parsePgnOut(data, p) == [data EXCEPT !.tournament_config.pgn[p[1]] = p[2]]

\* The plain form "-epdout NAME" is file=NAME.
parseEpdOut(data, p) == [data EXCEPT !.tournament_config.epd[p[1]] = p[2]]

parseLog(data, p) == [data EXCEPT !.tournament_config.log[p[1]] = p[2]]

\* The file name decides the format until a format= follows.
FromFile(opening, file) == [opening EXCEPT !.file = file, !.format = FormatOf(file, opening.format)]

parseOpening(data, p) ==
    CASE p[1] = "file"   -> [data EXCEPT !.tournament_config.opening = FromFile(@, p[2])]
      [] p[1] = "policy" -> data
      [] OTHER           -> [data EXCEPT !.tournament_config.opening[p[1]] = p[2]]

\* With -rounds 0 before it an SPRT test plays until it is decided; the default is not 0.
parseSprt(data, p) ==
    [data EXCEPT !.tournament_config.sprt = [@ EXCEPT !.enabled = TRUE, ![p[1]] = p[2]],
                 !.tournament_config.rounds = IF @ = 0 THEN SprtRounds ELSE @]

parseDraw(data, p) == [data EXCEPT !.tournament_config.draw = [@ EXCEPT !.enabled = TRUE, ![p[1]] = p[2]]]

parseResign(data, p) == [data EXCEPT !.tournament_config.resign = [@ EXCEPT !.enabled = TRUE, ![p[1]] = p[2]]]

parseReport(data, p) == [data EXCEPT !.tournament_config.report_penta = p[2]]

parseOutput(data, p) == [data EXCEPT !.tournament_config.output = p[2]]

\* The engine cmd= stands for.
QuickEngine(cmd) ==
    [NewEngine EXCEPT !.cmd = cmd, !.name = cmd, !.recover = TRUE,
                      !.limit.tc.time = 10000, !.limit.tc.increment = 100]

\* The engines and the book of -quick.
parseQuick(data, p) ==
    IF p[1] = "cmd"
      THEN [data EXCEPT !.configs = Append(@, QuickEngine(p[2]))]
      ELSE [data EXCEPT !.tournament_config.opening = [FromFile(@, p[2]) EXCEPT !.order = "random"]]

\* -config file=: a saved file is [config, engines, stats], with every field of
\* them: the json macros of types/*.hpp and time/timecontrol.hpp list all.
loadJson(data, saved) ==
    [data EXCEPT !.old_configs = data.configs,
                 !.old_tournament_config = data.tournament_config,
                 !.tournament_config = saved.config,
                 !.configs = saved.engines,
                 !.stats = saved.stats]

\* Faulty variant of Discarded: the results that were loaded stay.
DiscardedKeepsStats(data) ==
    [data EXCEPT !.tournament_config = data.old_tournament_config,
                 !.configs = data.old_configs]

\* discard=true: back to what was there before the file.
Discarded(data) ==
    [data EXCEPT !.tournament_config = data.old_tournament_config,
                 !.configs = data.old_configs,
                 !.stats = NoStats]

\* stats= only counts at the end.
parseConfig(data, p, disk) ==
    CASE p[1] = "file"               -> loadJson(data, disk[p[2]])
      [] p[1] = "outname"            -> [data EXCEPT !.tournament_config.config_name = p[2]]
      [] p[1] = "discard" /\ p[2] -> Discarded(data)
      [] OTHER                       -> data

Applied(option, data, p, disk) ==
    CASE option = "-engine"   -> parseEngine(data, p)
      [] option = "-each"     -> parseEach(data, p)
      [] option = "-pgnout"   -> parsePgnOut(data, p)
      [] option = "-epdout"   -> parseEpdOut(data, p)
      [] option = "-log"      -> parseLog(data, p)
      [] option = "-openings" -> parseOpening(data, p)
      [] option = "-sprt"     -> parseSprt(data, p)
      [] option = "-draw"     -> parseDraw(data, p)
      [] option = "-resign"   -> parseResign(data, p)
      [] option = "-report"   -> parseReport(data, p)
      [] option = "-output"   -> parseOutput(data, p)
      [] option = "-quick"    -> parseQuick(data, p)
      [] option = "-config"   -> parseConfig(data, p, disk)

\* The parameters one after the other.
parseDashOptions(option, data, params, disk) ==
    LET after[i \in 0..Len(params)] ==
            IF i = 0 THEN data ELSE Applied(option, after[i - 1], params[i], disk)
    IN  after[Len(params)]

-----------------------------------------------------------------------------
(* What a handler does before or after its parameters, and the others.       *)

\* parseEngine: first an engine with the defaults.
WithNewEngine(data) == [data EXCEPT !.configs = Append(@, NewEngine)]

\* parseQuick, at its end: names that differ, and the settings it stands for.
Numbered(engine, number) == [engine EXCEPT !.name = engine.name \o number]

QuickSettings(data) ==
    LET named == IF data.configs[1].name # data.configs[2].name THEN data
                 ELSE [data EXCEPT !.configs = [@ EXCEPT ![1] = Numbered(data.configs[1], "1"),
                                                         ![2] = Numbered(data.configs[2], "2")]]
    IN  [named EXCEPT !.tournament_config =
            [@ EXCEPT !.games = 2, !.rounds = QuickRounds,
                      !.concurrency = IF HardwareThreads - 2 < 1 THEN 1 ELSE HardwareThreads - 2,
                      !.recover = TRUE, !.output = "cutechess",
                      !.draw = [enabled |-> TRUE, movenumber |-> 30, movecount |-> 8, score |-> 8]]]

\* parseConfig, at its end: drop_stats is what the last stats= says.
StatsDropped(params) ==
    \E i \in DOMAIN params :
        params[i] = <<"stats", FALSE>> /\ \A j \in DOMAIN params : params[j][1] = "stats" => j <= i

\* Options of one value: -concurrency, -event, -site, -games, -rounds,
\* -ratinginterval, -scoreinterval, -srand, -autosaveinterval.
parseValue(data, field, value) == [data EXCEPT !.tournament_config[field] = value]

\* Options without parameters: -noswap, -recover, -use-affinity.
parseSwitch(data, field) == [data EXCEPT !.tournament_config[field] = TRUE]

parseMaxMoves(data, value) ==
    [data EXCEPT !.tournament_config.maxmoves = [enabled |-> TRUE, movecount |-> value]]

\* -repeat alone is two games.
parseRepeat(data, params) ==
    [data EXCEPT !.tournament_config.games = IF Len(params) = 1 THEN params[1] ELSE 2]

\* "standard" does not undo an earlier -variant fischerandom.
parseVariant(data, value) ==
    [data EXCEPT !.tournament_config.variant = IF value = "fischerandom" THEN value ELSE @]

-----------------------------------------------------------------------------
(* What a handler throws on                                                  *)

EngineKeys == {"cmd", "name", "tc", "st", "timemargin", "nodes", "plies", "depth", "dir", "args",
               "option", "proto"}

BadEngineParameter(p) ==
    \/ p[1] \notin EngineKeys
    \/ p[1] = "tc" /\ p[2].kind = "hg"
    \/ p[1] = "timemargin" /\ p[2] < 0
    \/ p[1] = "proto" /\ p[2] # "uci"

BadOpeningParameter(p) ==
    \/ p[1] \notin {"file", "format", "order", "plies", "start", "policy"}
    \/ p[1] = "file" /\ p[2] \notin DOMAIN Library
    \/ p[1] = "format" /\ p[2] \notin {"epd", "pgn"}
    \/ p[1] = "order" /\ p[2] \notin {"sequential", "random"}
    \/ p[1] = "start" /\ p[2] < 1
    \/ p[1] = "policy" /\ p[2] # "round"

BadPgnParameter(p) ==
    \/ p[1] \notin DOMAIN NewTournament(0).pgn
    \/ p[1] = "notation" /\ p[2] \notin {"san", "lan", "uci"}

BadLogParameter(p) ==
    \/ p[1] \notin DOMAIN NewTournament(0).log
    \/ p[1] = "level" /\ p[2] \notin {"trace", "warn", "info", "err", "fatal"}

BadQuickParameter(p) ==
    \/ p[1] \notin {"cmd", "book"}
    \/ p[1] = "book" /\ Library[p[2]].extension \notin {"epd", "pgn"}

BadAdjudication(p, section) ==
    \/ p[1] \notin DOMAIN section \ {"enabled"}
    \/ p[1] = "score" /\ p[2] < 0

\* The options of one value, and the switches, with the field each is for.
ValueOptions ==
    {<<"-concurrency", "concurrency">>, <<"-event", "event">>, <<"-site", "site">>,
     <<"-games", "games">>, <<"-rounds", "rounds">>, <<"-srand", "seed">>,
     <<"-ratinginterval", "ratinginterval">>, <<"-scoreinterval", "scoreinterval">>,
     <<"-autosaveinterval", "autosaveinterval">>}

Switches == {<<"-noswap", "noswap">>, <<"-recover", "recover">>, <<"-use-affinity", "affinity">>}

\* Those that do nothing but apply their parameters.
DashOptions ==
    {"-each", "-pgnout", "-epdout", "-openings", "-sprt", "-draw", "-resign", "-log", "-report", "-output"}

KnownOptions ==
    {o[1] : o \in ValueOptions \cup Switches} \cup DashOptions \cup
    {"-engine", "-maxmoves", "-config", "-version", "-help", "-repeat", "-variant", "-tournament",
     "-quick", "-debug"}

\* The option is unknown, or its handler throws.
Throws(option, params, data, disk) ==
    LET some(Bad(_)) == \E i \in DOMAIN params : Bad(params[i])
        new == NewTournament(0)
    IN  \/ option \notin KnownOptions
        \/ option = "-debug"
        \/ option \in {"-engine", "-each"} /\ some(BadEngineParameter)
        \/ option = "-openings" /\ some(BadOpeningParameter)
        \/ /\ option = "-pgnout"
           /\ some(BadPgnParameter) \/ parseDashOptions(option, data, params, disk).tournament_config.pgn.file = ""
        \/ /\ option = "-epdout"
           /\ \/ ~(Keys(params) \subseteq {"file"})
              \/ params = << >>   \* the plain form, with no name
              \/ parseDashOptions(option, data, params, disk).tournament_config.epd.file = ""
        \/ /\ option = "-log"   \* a name that an earlier -log gave does not count
           /\ \/ some(BadLogParameter)
              \/ LET unnamed == [data EXCEPT !.tournament_config.log.file = ""] IN
                 parseDashOptions(option, unnamed, params, disk).tournament_config.log.file = ""
        \/ option = "-sprt" /\ ~(Keys(params) \subseteq DOMAIN new.sprt \ {"enabled"})
        \/ option = "-draw" /\ some(LAMBDA p : BadAdjudication(p, new.draw))
        \/ option = "-resign" /\ some(LAMBDA p : BadAdjudication(p, new.resign))
        \/ option = "-report" /\ ~(Keys(params) \subseteq {"penta"})
        \/ option = "-output" /\ some(LAMBDA p : p[1] # "format" \/ p[2] \notin {"cutechess", "fastchess"})
        \/ option = "-variant" /\ params[1] \notin {"fischerandom", "standard"}
        \/ option = "-quick" /\ some(BadQuickParameter)
        \/ option = "-config" /\ some(LAMBDA p : p[1] = "file" /\ p[2] \notin DOMAIN disk)
=============================================================================
