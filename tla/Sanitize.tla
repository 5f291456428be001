------------------------------ MODULE Sanitize ------------------------------
(***************************************************************************)
(* config::sanitize (config/sanitize.cpp): what is refused and what is put *)
(* right before a tournament starts.                                       *)
(***************************************************************************)
EXTENDS Configuration, Sequences

-----------------------------------------------------------------------------
(* The tournament                                                            *)

\* Faulty variant of WithGamesFixed: swapped although the games are right.
AlwaysSwapped(config) == [config EXCEPT !.games = config.rounds, !.rounds = config.games]

\* More than two games a round: games and rounds were mixed up.
WithGamesFixed(config) ==
    IF config.games > 2
      THEN [config EXCEPT !.games = config.rounds, !.rounds = config.games]
      ELSE config

\* Faulty variant of PentaPossible: the model of the test is not asked for.
PentaWithAnyModel(config) == config.output # "cutechess" /\ config.games = 2

\* Pentanomial statistics need pairs, the fast-chess output and a model for them.
PentaPossible(config) ==
    /\ config.output # "cutechess"
    /\ config.games = 2
    /\ ~(config.sprt.enabled /\ config.sprt.model = "bayesian")

\* alpha and beta are in percent.
SprtInvalid(sprt) ==
    \/ sprt.elo0 >= sprt.elo1
    \/ sprt.alpha <= 0 \/ sprt.alpha >= 100
    \/ sprt.beta <= 0 \/ sprt.beta >= 100
    \/ sprt.alpha + sprt.beta >= 100
    \/ sprt.model \notin {"normalized", "bayesian", "logistic"}

\* sanitize(config::Tournament&) throws.
RefusesTournament(config) ==
    \/ WithGamesFixed(config).games > 2
    \/ config.sprt.enabled /\ SprtInvalid(config.sprt)
    \/ config.variant = "fischerandom" /\ config.opening.file = ""

\* An interval of 0 is never reached.
Interval(n) == IF n = 0 THEN MaxInt ELSE n

\* What it makes of one it accepts.
SanitizedTournament(config) ==
    LET fixed == WithGamesFixed(config)
    IN  [fixed EXCEPT !.report_penta = @ /\ PentaPossible(fixed),
                      !.concurrency = IF @ < HardwareThreads THEN @ ELSE HardwareThreads,
                      !.ratinginterval = Interval(@),
                      !.scoreinterval = Interval(@)]

-----------------------------------------------------------------------------
(* The engines                                                               *)

OnTheClock(limit) == limit.tc.time + limit.tc.increment # 0

\* No limit, two clocks, or moves without a clock.
BadLimit(limit) ==
    \/ ~OnTheClock(limit) /\ limit.tc.fixed_time = 0 /\ limit.nodes = 0 /\ limit.plies = 0
    \/ OnTheClock(limit) /\ limit.tc.fixed_time # 0
    \/ ~OnTheClock(limit) /\ limit.tc.moves # 0

\* sanitize(std::vector<EngineConfiguration>&) throws; it changes nothing
\* but the extension of a Windows program.
RefusesEngines(configs) ==
    \/ Len(configs) # 2
    \/ \E i \in DOMAIN configs :
          \/ configs[i].cmd \notin EngineFiles
          \/ configs[i].name = ""
          \/ BadLimit(configs[i].limit)
          \/ \E j \in 1..(i - 1) : configs[i].name = configs[j].name
=============================================================================
