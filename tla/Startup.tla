------------------------------ MODULE Startup ------------------------------
(***************************************************************************)
(* From the command line to the games, over the sessions of a tournament:  *)
(* OptionsParser reads the options one by one, main() sanitizes what they  *)
(* left, BaseTournament takes over the saved results and opens the book,   *)
(* create() gives each round its opening, and the configuration is saved   *)
(* with the results.                                                       *)
(***************************************************************************)
EXTENDS Options, Sanitize, OpeningBook

CONSTANTS CommandLines,  \* for each session its possible command lines: sequences
                         \* of <<option, parameters>>
          Seeds,         \* what random_uint64() may return
          NoSession      \* no tournament is running

\* What the code has no guard against is left out (see Options): texts that are
\* no numbers, negative counts.  -quick comes with an engine, as the README has it.
WellFormed(option, params) ==
    /\ params \in Seq({params[i] : i \in DOMAIN params})
    /\ option \in {"-games", "-rounds", "-concurrency"} => params[1] \in Nat
    /\ option = "-repeat" => params = << >> \/ params[1] \in Nat
    /\ option = "-srand" => params[1] \in DOMAIN Rand
    /\ option = "-quick" => "cmd" \in Keys(params)
    /\ \A i \in DOMAIN params :
          /\ option = "-openings" /\ params[i][1] = "start" => params[i][2] \in Int
          /\ option = "-quick" /\ params[i][1] = "book" => params[i][2] \in DOMAIN Library
          /\ option = "-report" => params[i][2] \in BOOLEAN

ASSUME StartupAssumption ==
    /\ Seeds \subseteq DOMAIN Rand
    /\ Len(CommandLines) \in Nat /\ DOMAIN CommandLines = 1..Len(CommandLines)
    /\ \A n \in DOMAIN CommandLines : \A line \in CommandLines[n] :
          /\ line \in Seq({line[i] : i \in DOMAIN line})
          /\ \A i \in DOMAIN line : WellFormed(line[i][1], line[i][2])

VARIABLES phase,          \* "off", "parsing", "parsed", "created", "running"
          argv,           \* the options not read yet
          argument_data,  \* argument_data_
          session,        \* config, engines, book, openings of the rounds, results
          disk,           \* the saved files
          sessions        \* the number of sessions so far

vars == <<phase, argv, argument_data, session, disk, sessions>>

\* Between the sessions nothing is left of the arguments.
NoArguments == NewArguments(0, 0)

-----------------------------------------------------------------------------
(* OptionsParser                                                             *)

Begin ==
    /\ phase = "off"
    /\ sessions < Len(CommandLines)
    /\ \E line \in CommandLines[sessions + 1], seed, old_seed \in Seeds :
          /\ seed # old_seed
          /\ argv' = line
          /\ argument_data' = NewArguments(seed, old_seed)
    /\ phase' = "parsing"
    /\ sessions' = sessions + 1
    /\ UNCHANGED <<session, disk>>

Option == Head(argv)[1]
Params == Head(argv)[2]

\* options_.at(arg)(params, argument_data_).
Handled(data) ==
    LET read(d) == parseDashOptions(Option, d, Params, disk)
    IN  \/ Option \in DashOptions    /\ argument_data' = read(data)
        \/ Option = "-engine"        /\ argument_data' = read(WithNewEngine(data))
        \/ Option = "-quick"         /\ argument_data' = QuickSettings(read(data))
        \/ /\ Option = "-config"
           /\ argument_data' = IF StatsDropped(Params) THEN [read(data) EXCEPT !.stats = NoStats] ELSE read(data)
        \/ Option = "-maxmoves"      /\ argument_data' = parseMaxMoves(data, Params[1])
        \/ Option = "-repeat"        /\ argument_data' = parseRepeat(data, Params)
        \/ Option = "-variant"       /\ argument_data' = parseVariant(data, Params[1])
        \/ Option = "-tournament"    /\ argument_data' = data
        \/ \E o \in ValueOptions : Option = o[1] /\ argument_data' = parseValue(data, o[2], Params[1])
        \/ \E o \in Switches : Option = o[1] /\ argument_data' = parseSwitch(data, o[2])

Parse ==
    /\ phase = "parsing"
    /\ argv # << >>
    /\ ~Throws(Option, Params, argument_data, disk)
    /\ Handled(argument_data)
    /\ argv' = Tail(argv)
    /\ UNCHANGED <<phase, session, disk, sessions>>

\* An exception, -help or -version: the program ends.
StopParsing ==
    /\ phase = "parsing"
    /\ argv # << >>
    /\ Option \in {"-help", "-version"} \/ Throws(Option, Params, argument_data, disk)
    /\ phase' = "off"
    /\ argv' = << >>
    /\ argument_data' = NoArguments
    /\ UNCHANGED <<session, disk, sessions>>

\* The end of the constructor: the variant is that of all engines.
ApplyVariant ==
    /\ phase = "parsing"
    /\ argv = << >>
    /\ argument_data' =
          [argument_data EXCEPT !.configs =
              [i \in DOMAIN @ |-> [@[i] EXCEPT !.variant = argument_data.tournament_config.variant]]]
    /\ phase' = "parsed"
    /\ UNCHANGED <<argv, session, disk, sessions>>

-----------------------------------------------------------------------------
(* main() and the constructor of the tournament                              *)

Requested == argument_data.tournament_config

\* sanitize throws, the pool of no threads throws, no games a round divide by
\* zero in the book, or the book is empty: all before anything is saved.
Refused ==
    \/ RefusesTournament(Requested)
    \/ RefusesEngines(argument_data.configs)
    \/ SanitizedTournament(Requested).concurrency = 0
    \/ SanitizedTournament(Requested).games = 0
    \/ NoOpenings(Requested)

Refuse ==
    /\ phase = "parsed"
    /\ Refused
    /\ phase' = "off"
    /\ argument_data' = NoArguments
    /\ UNCHANGED <<argv, session, disk, sessions>>

\* Rounds that are complete according to the results of earlier sessions.
RoundsDone(config, results) == results.games \div config.games

\* BaseTournament: setResults, then the book from start - 1 plus those rounds.
Construct ==
    /\ phase = "parsed"
    /\ ~Refused
    /\ LET config == SanitizedTournament(Requested)
           done == RoundsDone(config, argument_data.stats)
       IN  session' = [config |-> config,
                       engines |-> argument_data.configs,
                       results |-> argument_data.stats,
                       done |-> done,
                       book |-> setup(config, config.opening.start - 1 + done),
                       openings |-> << >>]
    /\ phase' = "created"
    /\ argument_data' = NoArguments
    /\ UNCHANGED <<argv, disk, sessions>>

\* create(): every round from there on fetches one opening.
Create ==
    /\ phase = "created"
    /\ session' = [session EXCEPT !.openings =
                      [k \in session.done..(session.config.rounds - 1) |->
                          OpeningAt(session.book, k - session.done)]]
    /\ phase' = "running"
    /\ UNCHANGED <<argv, argument_data, disk, sessions>>

-----------------------------------------------------------------------------
(* The session                                                               *)

Names(engines) == {engines[i].name : i \in DOMAIN engines}

\* A finished game is on the score board under the names of its engines.
FinishGame ==
    /\ phase = "running"
    /\ session.results.games < session.config.rounds * session.config.games
    /\ session' = [session EXCEPT !.results =
                      [engines |-> @.engines \cup Names(session.engines), games |-> @.games + 1]]
    /\ UNCHANGED <<phase, argv, argument_data, disk, sessions>>

Filename == IF session.config.config_name = "" THEN "config.json" ELSE session.config.config_name

\* saveJson(), by the autosave and by the destructor.
saveJson ==
    disk' = [name \in DOMAIN disk \cup {Filename} |->
                IF name = Filename
                  THEN [config |-> session.config, engines |-> session.engines, stats |-> session.results]
                  ELSE disk[name]]

Autosave ==
    /\ phase = "running"
    /\ saveJson
    /\ UNCHANGED <<phase, argv, argument_data, session, sessions>>

\* The tournament is complete, or was stopped.
End ==
    /\ phase = "running"
    /\ saveJson
    /\ phase' = "off"
    /\ session' = NoSession
    /\ UNCHANGED <<argv, argument_data, sessions>>

\* The process is killed.
Kill ==
    /\ phase # "off"
    /\ phase' = "off"
    /\ argv' = << >>
    /\ argument_data' = NoArguments
    /\ session' = NoSession
    /\ UNCHANGED <<disk, sessions>>

-----------------------------------------------------------------------------

Init ==
    /\ phase = "off"
    /\ argv = << >>
    /\ argument_data = NoArguments
    /\ session = NoSession
    /\ disk = << >>
    /\ sessions = 0

Next ==
    \/ Begin
    \/ Parse
    \/ StopParsing
    \/ ApplyVariant
    \/ Refuse
    \/ Construct
    \/ Create
    \/ FinishGame
    \/ Autosave
    \/ End
    \/ Kill

Spec == Init /\ [][Next]_vars

-----------------------------------------------------------------------------

\* What the clock of a match and the go command are made for.
Limited(limit) ==
    /\ OnTheClock(limit) \/ limit.tc.fixed_time # 0 \/ limit.nodes # 0 \/ limit.plies # 0
    /\ limit.tc.fixed_time # 0 => ~OnTheClock(limit)
    /\ limit.tc.moves # 0 => OnTheClock(limit)

\* Whatever the options were, a tournament that starts is one the rest of the
\* program can play (sanitize.cpp:15-124): at most a pair of games a round,
\* intervals one can divide by, pairs only where they are counted, threads
\* for the games, two engines with different names and one kind of limit, and
\* all of the variant of the tournament (cli.cpp:628).
StartsSound ==
    session # NoSession =>
        LET config == session.config
            engines == session.engines
        IN  /\ config.games \in {1, 2}
            /\ config.ratinginterval # 0 /\ config.scoreinterval # 0
            /\ config.report_penta =>
                  /\ config.games = 2
                  /\ config.output # "cutechess"
                  /\ ~(config.sprt.enabled /\ config.sprt.model = "bayesian")
            /\ config.concurrency \in 1..HardwareThreads
            /\ Len(engines) = 2
            /\ engines[1].name # engines[2].name
            /\ \A i \in {1, 2} :
                  /\ engines[i].variant = config.variant
                  /\ Limited(engines[i].limit)

\* The opening of a round, whatever session the round is played in.
OpeningOfRound(config, k) ==
    IF HasBook(config.opening)
      THEN LET book == Indexed(config)
           IN  book[((config.opening.start - 1 + k) % Len(book)) + 1]
      ELSE StartPos

\* Each round takes one place of the book as it was read, and no place twice
\* before the book is through.
EachOpeningOnce(config) ==
    HasBook(config.opening) =>
        LET book == Read(config.opening)
            rounds == 0..(config.rounds - 1)
        IN  \E place \in [rounds -> DOMAIN book] : \A k \in rounds :
                /\ OpeningOfRound(config, k) = book[place[k]]
                /\ \A j \in rounds : j < k /\ k - j < Len(book) => place[j] # place[k]

\* A round has the same opening in every session that plays games of it: the
\* book a session shuffles, rotates and cuts (opening_book.cpp:21-62) and the
\* index create() counts from zero again (roundrobin.cpp:108-111) always meet
\* at the opening an uninterrupted tournament would have used, which plays every
\* opening of the file before it plays one again.
SameOpenings ==
    phase = "running" =>
        /\ \A k \in DOMAIN session.openings :
              session.openings[k] = OpeningOfRound(session.config, k)
        /\ EachOpeningOnce(session.config)

\* A saved tournament can be resumed, and goes on as it was: loading the file
\* (cli.cpp:391-408) and sanitizing what it has a second time refuses nothing
\* and changes nothing.
Resumable ==
    \A file \in DOMAIN disk :
        LET loaded == loadJson(NoArguments, disk[file])
        IN  /\ ~RefusesTournament(loaded.tournament_config)
            /\ SanitizedTournament(loaded.tournament_config) = disk[file].config
            /\ ~RefusesEngines(loaded.configs)
            /\ \A i \in DOMAIN loaded.configs :
                  loaded.configs[i].variant = loaded.tournament_config.variant

\* A session never counts games of other engines than its own: results and
\* engines are loaded, discarded and saved together (cli.cpp:413-430).
ResultsOfTheseEngines ==
    session # NoSession /\ session.results.games > 0 =>
        session.results.engines = Names(session.engines)
=============================================================================
