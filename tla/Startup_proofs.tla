--------------------------- MODULE Startup_proofs ---------------------------
(***************************************************************************)
(* For any command lines, books and sessions: what starts can be played,   *)
(* what was saved can be resumed and goes on as it was, a round keeps its  *)
(* opening over the sessions, and no session counts games of others.       *)
(***************************************************************************)
EXTENDS Startup, WellFoundedInduction, TLAPS

-----------------------------------------------------------------------------
(* The inductive invariant.                                                *)

Listed(s) == s \in Seq({s[i] : i \in DOMAIN s})

\* The settings that decide what is played.
Deciding == {"games", "rounds", "concurrency", "report_penta", "opening", "variant",
             "ratinginterval", "scoreinterval", "seed"}

OpeningOK(o) ==
    /\ {"file", "start"} \subseteq DOMAIN o
    /\ o.file \in DOMAIN Library \cup {""}
    /\ o.start \in Nat \ {0}

SettingsOK(t) ==
    /\ Deciding \subseteq DOMAIN t
    /\ t.games \in Nat /\ t.rounds \in Nat /\ t.concurrency \in Nat /\ t.report_penta \in BOOLEAN
    /\ OpeningOK(t.opening) /\ t.seed \in DOMAIN Rand

EngineOK(e) == {"name", "variant"} \subseteq DOMAIN e

EnginesOK(configs) == Listed(configs) /\ \A i \in DOMAIN configs : EngineOK(configs[i])

StatsOK(stats) == stats.games \in Nat /\ (stats.games = 0 => stats.engines = {})

\* While the options are read: results that were loaded are of the engines, or of engines that will be refused.
Belong(stats, configs) ==
    stats.games > 0 =>
        \/ Len(configs) > 2
        \/ Len(configs) = 2 /\ (configs[1].name = configs[2].name \/ stats.engines = Names(configs))

DataOK(d) ==
    /\ {"tournament_config", "old_tournament_config", "configs", "old_configs", "stats"} \subseteq DOMAIN d
    /\ SettingsOK(d.tournament_config) /\ SettingsOK(d.old_tournament_config)
    /\ EnginesOK(d.configs) /\ EnginesOK(d.old_configs)
    /\ StatsOK(d.stats) /\ Belong(d.stats, d.configs)

SameVariant(config, engines) == \A i \in DOMAIN engines : engines[i].variant = config.variant

\* What was accepted and put right: the settings, engines and results of a session, or of a file.
Accepted(config, engines, results) ==
    /\ SettingsOK(config) /\ EnginesOK(engines) /\ StatsOK(results)
    /\ ~RefusesTournament(config) /\ SanitizedTournament(config) = config
    /\ config.concurrency # 0 /\ config.games # 0
    /\ ~RefusesEngines(engines) /\ SameVariant(config, engines)
    /\ results.games > 0 => results.engines = Names(engines)

Going == phase \in {"created", "running"}

SessionOK ==
    /\ {"openings", "results"} \subseteq DOMAIN session
    /\ Accepted(session.config, session.engines, session.results)
    /\ ~NoOpenings(session.config)
    /\ session.done \in Nat
    /\ session.book = setup(session.config, session.config.opening.start - 1 + session.done)
    /\ phase = "running" =>
          session.openings = [k \in session.done..(session.config.rounds - 1) |->
                                 OpeningAt(session.book, k - session.done)]

FilesOK == \A name \in DOMAIN disk : Accepted(disk[name].config, disk[name].engines, disk[name].stats)

IInv ==
    /\ sessions \in Nat
    /\ phase = "parsing" => Listed(argv) /\ \A i \in DOMAIN argv : WellFormed(argv[i][1], argv[i][2])
    /\ phase \in {"parsing", "parsed"} => DataOK(argument_data)
    /\ phase = "parsed" => SameVariant(argument_data.tournament_config, argument_data.configs)
    /\ session # NoSession => Going
    /\ Going => SessionOK
    /\ FilesOK

-----------------------------------------------------------------------------
(* Loops.                                                                  *)

LEMMA LeastNatural ==
    ASSUME NEW T \in SUBSET Nat, T # {}
    PROVE  \E n \in T : \A m \in T : n <= m
  <1>1. IsWellFoundedOn(OpToRel(<, Nat), Nat)
    BY NatLessThanWellFounded
  <1>2. \E x \in T : \A y \in T : ~(<<y, x>> \in OpToRel(<, Nat))
    BY <1>1, WFMin
  <1>3. \E x \in T : \A y \in T : ~(y < x)
    BY <1>2 DEF OpToRel
  <1>4. QED  BY <1>3

LEMMA Inductive ==
    ASSUME NEW n \in Nat, NEW S, 0 \in S, \A i \in 0..(n - 1) : i \in S => i + 1 \in S
    PROVE  0..n \subseteq S
  <1> SUFFICES ASSUME (0..n) \ S # {} PROVE FALSE
    OBVIOUS
  <1>1. PICK k \in (0..n) \ S : \A m \in (0..n) \ S : k <= m
    <2>1. (0..n) \ S \in SUBSET Nat
      OBVIOUS
    <2>2. QED  BY <2>1, LeastNatural
  <1>2. k # 0 /\ k - 1 \in 0..(n - 1)
    BY <1>1
  <1>3. k - 1 \in S
    BY <1>1, <1>2
  <1>4. (k - 1) + 1 = k
    BY <1>1
  <1>5. QED  BY <1>1, <1>2, <1>3, <1>4

\* g is what the arguments are after each of the first n parameters of an option.
Reading(option, data, params, files, n, g) ==
    g = [i \in 0..n |-> IF i = 0 THEN data ELSE Applied(option, g[i - 1], params[i], files)]

LEMMA ReadingExists ==
    ASSUME NEW option, NEW data, NEW params, NEW files, NEW n \in Nat
    PROVE  \E g : Reading(option, data, params, files, n, g)
  <1> DEFINE S == {k \in 0..n : \E g : Reading(option, data, params, files, k, g)}
  <1>1. 0 \in S
    <2> DEFINE h == [i \in 0..0 |-> data]
    <2>1. h = [i \in 0..0 |-> IF i = 0 THEN data ELSE Applied(option, h[i - 1], params[i], files)]
      OBVIOUS
    <2> HIDE DEF h
    <2>2. Reading(option, data, params, files, 0, h)
      BY <2>1 DEF Reading
    <2>3. 0 \in 0..n
      OBVIOUS
    <2>4. QED  BY <2>2, <2>3
  <1>2. ASSUME NEW k \in 0..(n - 1), k \in S PROVE k + 1 \in S
    <2>1. PICK g : Reading(option, data, params, files, k, g)
      BY <1>2
    <2> DEFINE h == [i \in 0..(k + 1) |-> IF i <= k THEN g[i] ELSE Applied(option, g[k], params[k + 1], files)]
    <2>2. \A i \in 0..k : g[i] = IF i = 0 THEN data ELSE Applied(option, g[i - 1], params[i], files)
      BY <2>1 DEF Reading
    <2>3. ASSUME NEW i \in 0..(k + 1)
          PROVE  h[i] = IF i = 0 THEN data ELSE Applied(option, h[i - 1], params[i], files)
      <3>1. CASE i = k + 1
        <4>1. h[i] = Applied(option, g[k], params[k + 1], files) /\ h[i - 1] = g[k] /\ i # 0
          BY <3>1
        <4>2. QED  BY <3>1, <4>1
      <3>2. CASE i = 0
        BY <2>2, <3>2
      <3>3. CASE i \in 1..k
        <4>1. h[i] = g[i] /\ h[i - 1] = g[i - 1] /\ i # 0
          BY <3>3
        <4>2. QED  BY <2>2, <3>3, <4>1
      <3>4. QED  BY <3>1, <3>2, <3>3
    <2>4. h = [i \in 0..(k + 1) |-> h[i]]
      OBVIOUS
    <2> HIDE DEF h
    <2>5. h = [i \in 0..(k + 1) |-> IF i = 0 THEN data ELSE Applied(option, h[i - 1], params[i], files)]
      BY <2>3, <2>4
    <2>6. QED  BY <2>5 DEF Reading
  <1> HIDE DEF S
  <1>3. n \in S
    BY <1>1, <1>2, Inductive
  <1>4. QED  BY <1>3 DEF S

\* So the parameters are applied one after the other.
LEMMA InTurn ==
    ASSUME NEW option, NEW data, NEW params, NEW files, Len(params) \in Nat
    PROVE  \E g : /\ g[0] = data
                  /\ \A i \in 0..(Len(params) - 1) : g[i + 1] = Applied(option, g[i], params[i + 1], files)
                  /\ parseDashOptions(option, data, params, files) = g[Len(params)]
  <1> DEFINE g == CHOOSE h : Reading(option, data, params, files, Len(params), h)
  <1>1. Reading(option, data, params, files, Len(params), g)
    BY ReadingExists
  <1>2. parseDashOptions(option, data, params, files) = g[Len(params)]
    BY DEF parseDashOptions, Reading
  <1> HIDE DEF g
  <1>3. \A i \in 0..Len(params) : g[i] = IF i = 0 THEN data ELSE Applied(option, g[i - 1], params[i], files)
    BY <1>1 DEF Reading
  <1>4. g[0] = data
    BY <1>3
  <1>5. ASSUME NEW i \in 0..(Len(params) - 1)
        PROVE  g[i + 1] = Applied(option, g[i], params[i + 1], files)
    <2>1. i + 1 \in 0..Len(params) /\ i + 1 # 0 /\ (i + 1) - 1 = i
      OBVIOUS
    <2>2. QED  BY <1>3, <2>1
  <1>6. QED  BY <1>2, <1>4, <1>5

-----------------------------------------------------------------------------
(* One parameter of an option.                                             *)

\* What a handler that does not throw knows of a parameter.
Good(option, p, files) ==
    /\ option \in {"-engine", "-each"} => p[1] \in EngineKeys
    /\ option = "-openings" /\ p[1] = "file" => p[2] \in DOMAIN Library
    /\ option = "-openings" /\ p[1] = "start" => p[2] \in Nat \ {0}
    /\ option = "-report" => p[2] \in BOOLEAN
    /\ option = "-quick" => p[1] = "cmd" \/ (p[1] = "book" /\ p[2] \in DOMAIN Library)
    /\ option = "-config" /\ p[1] = "file" => p[2] \in DOMAIN files

AcceptedFiles(files) ==
    \A name \in DOMAIN files : Accepted(files[name].config, files[name].engines, files[name].stats)

\* The options that are read by parseDashOptions.
Dashed == DashOptions \cup {"-engine", "-quick", "-config"}

\* The setting of a tournament that decides nothing.
LEMMA OtherSetting ==
    ASSUME NEW t, SettingsOK(t), NEW f, f \notin {"games", "rounds", "concurrency", "report_penta", "opening", "seed"}, NEW v
    PROVE  SettingsOK([t EXCEPT ![f] = v])
  BY DEF SettingsOK, Deciding

LEMMA SettingsOnly ==
    ASSUME NEW d, DataOK(d), NEW t, SettingsOK(t), NEW now, now = [d EXCEPT !.tournament_config = t]
    PROVE  DataOK(now) /\ now.configs = d.configs /\ now.stats = d.stats
  BY DEF DataOK

LEMMA EnginesOnly ==
    ASSUME NEW d, DataOK(d), NEW c, EnginesOK(c), Belong(d.stats, c), NEW now, now = [d EXCEPT !.configs = c]
    PROVE  DataOK(now) /\ now.configs = c /\ now.stats = d.stats
  BY DEF DataOK

LEMMA OneMore ==
    ASSUME NEW c, Listed(c), NEW e, NEW a, a = Append(c, e)
    PROVE  /\ Listed(a) /\ Len(c) \in Nat /\ Len(a) = Len(c) + 1
           /\ \A i \in DOMAIN a : (i \in DOMAIN c /\ a[i] = c[i]) \/ a[i] = e
  <1> DEFINE S == {c[i] : i \in DOMAIN c} \cup {e}
  <1>1. c \in Seq(S)
    BY DEF Listed
  <1> HIDE DEF S
  <1>2. e \in S
    BY DEF S
  <1>3. a \in Seq(S) /\ Len(a) = Len(c) + 1 /\ Len(c) \in Nat
        /\ \A i \in 1..Len(a) : a[i] = IF i = Len(c) + 1 THEN e ELSE c[i]
    BY <1>1, <1>2
  <1>4. DOMAIN a = 1..Len(a) /\ DOMAIN c = 1..Len(c)
    BY <1>1, <1>3
  <1>5. a \in Seq({a[i] : i \in DOMAIN a})
    BY <1>3, <1>4
  <1>6. QED  BY <1>3, <1>4, <1>5 DEF Listed

LEMMA OneMoreEngine ==
    ASSUME NEW c, EnginesOK(c), NEW e, EngineOK(e)
    PROVE  EnginesOK(Append(c, e)) /\ Len(c) \in Nat /\ Len(Append(c, e)) = Len(c) + 1
  <1> DEFINE a == Append(c, e)
  <1>1. /\ Listed(a) /\ Len(c) \in Nat /\ Len(a) = Len(c) + 1
        /\ \A i \in DOMAIN a : (i \in DOMAIN c /\ a[i] = c[i]) \/ a[i] = e
    BY OneMore DEF EnginesOK
  <1> HIDE DEF a
  <1>2. EnginesOK(a)
    BY <1>1 DEF EnginesOK
  <1>3. QED  BY <1>1, <1>2 DEF a

\* The same engines, changed or not.
LEMMA EachChanged ==
    ASSUME NEW c, EnginesOK(c), NEW a, DOMAIN a = DOMAIN c, a = [i \in DOMAIN c |-> a[i]],
           \A i \in DOMAIN c : EngineOK(a[i])
    PROVE  EnginesOK(a) /\ Len(a) = Len(c)
  <1>1. Len(c) \in Nat /\ DOMAIN c = 1..Len(c)
    BY DEF EnginesOK, Listed
  <1>2. a \in Seq({a[i] : i \in DOMAIN a}) /\ Len(a) = Len(c)
    BY <1>1
  <1>3. QED  BY <1>2 DEF EnginesOK, Listed

LEMMA OneEngine ==
    ASSUME NEW e, EngineOK(e), NEW p, p[1] \in EngineKeys
    PROVE  /\ EngineOK(parseEngineKeyValues(e, p))
           /\ parseEngineKeyValues(e, p).name = IF p[1] = "name" THEN p[2] ELSE e.name
  BY DEF EngineOK, parseEngineKeyValues, EngineKeys

LEMMA SettingsStep ==
    ASSUME NEW d, DataOK(d), NEW option \in DashOptions \ {"-each"}, NEW p, NEW files, Good(option, p, files)
    PROVE  DataOK(Applied(option, d, p, files))
  <1> DEFINE t == d.tournament_config
             now == Applied(option, d, p, files)
  <1>1. SettingsOK(t) /\ "tournament_config" \in DOMAIN d
    BY DEF DataOK
  <1>2. ASSUME NEW u, now = [d EXCEPT !.tournament_config = u], SettingsOK(u)
        PROVE  DataOK(now)
    BY <1>2, SettingsOnly
  <1>3. CASE option = "-pgnout"
    <2>1. now = [d EXCEPT !.tournament_config = [t EXCEPT !.pgn = [t.pgn EXCEPT ![p[1]] = p[2]]]]
      BY <1>3 DEF Applied, parsePgnOut
    <2>2. QED  BY <1>1, <1>2, <2>1, OtherSetting
  <1>4. CASE option = "-epdout"
    <2>1. now = [d EXCEPT !.tournament_config = [t EXCEPT !.epd = [t.epd EXCEPT ![p[1]] = p[2]]]]
      BY <1>4 DEF Applied, parseEpdOut
    <2>2. QED  BY <1>1, <1>2, <2>1, OtherSetting
  <1>5. CASE option = "-log"
    <2>1. now = [d EXCEPT !.tournament_config = [t EXCEPT !.log = [t.log EXCEPT ![p[1]] = p[2]]]]
      BY <1>5 DEF Applied, parseLog
    <2>2. QED  BY <1>1, <1>2, <2>1, OtherSetting
  <1>6. CASE option = "-draw"
    <2>1. now = [d EXCEPT !.tournament_config =
                    [t EXCEPT !.draw = [t.draw EXCEPT !.enabled = TRUE, ![p[1]] = p[2]]]]
      BY <1>6 DEF Applied, parseDraw
    <2>2. QED  BY <1>1, <1>2, <2>1, OtherSetting
  <1>7. CASE option = "-resign"
    <2>1. now = [d EXCEPT !.tournament_config =
                    [t EXCEPT !.resign = [t.resign EXCEPT !.enabled = TRUE, ![p[1]] = p[2]]]]
      BY <1>7 DEF Applied, parseResign
    <2>2. QED  BY <1>1, <1>2, <2>1, OtherSetting
  <1>8. CASE option = "-output"
    <2>1. now = [d EXCEPT !.tournament_config = [t EXCEPT !.output = p[2]]]
      BY <1>8 DEF Applied, parseOutput
    <2>2. QED  BY <1>1, <1>2, <2>1, OtherSetting
  <1>9. CASE option = "-report"
    <2>1. now = [d EXCEPT !.tournament_config = [t EXCEPT !.report_penta = p[2]]]
      BY <1>9 DEF Applied, parseReport
    <2>2. SettingsOK([t EXCEPT !.report_penta = p[2]])
      BY <1>1, <1>9 DEF SettingsOK, Deciding, Good
    <2>3. QED  BY <1>2, <2>1, <2>2
  <1>10. CASE option = "-sprt"
    <2> DEFINE u == [t EXCEPT !.sprt = [t.sprt EXCEPT !.enabled = TRUE, ![p[1]] = p[2]]]
               v == [u EXCEPT !.rounds = IF t.rounds = 0 THEN SprtRounds ELSE t.rounds]
    <2>1. now = [[d EXCEPT !.tournament_config = u] EXCEPT !.tournament_config.rounds =
                     IF @ = 0 THEN SprtRounds ELSE @]
      BY <1>10 DEF Applied, parseSprt
    <2>2. SettingsOK(u)
      BY <1>1, OtherSetting
    <2>3. u.rounds = t.rounds
      BY <1>1 DEF SettingsOK
    <2>4. SettingsOK(v)
      BY <2>2, <2>3, ConfigurationAssumption DEF SettingsOK, Deciding
    <2>5. now = [d EXCEPT !.tournament_config = v]
      BY <1>1, <2>1, <2>3
    <2> HIDE DEF v
    <2>6. QED  BY <1>2, <2>4, <2>5
  <1>11. CASE option = "-openings"
    <2>1. CASE p[1] = "policy"
      BY <1>11, <2>1 DEF Applied, parseOpening
    <2>2. CASE p[1] = "file"
      <3> DEFINE v == [t EXCEPT !.opening = FromFile(t.opening, p[2])]
      <3>1. now = [d EXCEPT !.tournament_config = v]
        BY <1>11, <2>2 DEF Applied, parseOpening
      <3>2. OpeningOK(FromFile(t.opening, p[2]))
        BY <1>1, <1>11, <2>2 DEF SettingsOK, OpeningOK, Good, FromFile
      <3>3. SettingsOK(v)
        BY <1>1, <3>2 DEF SettingsOK, Deciding
      <3> HIDE DEF v
      <3>4. QED  BY <1>2, <3>1, <3>3
    <2>3. CASE p[1] \notin {"file", "policy"}
      <3> DEFINE o == [t.opening EXCEPT ![p[1]] = p[2]]
                 v == [t EXCEPT !.opening = o]
      <3>1. now = [d EXCEPT !.tournament_config = v]
        BY <1>11, <2>3 DEF Applied, parseOpening
      <3>2. OpeningOK(o)
        BY <1>1, <1>11, <2>3 DEF SettingsOK, OpeningOK, Good
      <3>3. SettingsOK(v)
        BY <1>1, <3>2 DEF SettingsOK, Deciding
      <3> HIDE DEF v
      <3>4. QED  BY <1>2, <3>1, <3>3
    <2>4. QED  BY <2>1, <2>2, <2>3
  <1> HIDE DEF now
  <1>12. QED
    BY <1>3, <1>4, <1>5, <1>6, <1>7, <1>8, <1>9, <1>10, <1>11 DEF DashOptions, now

LEMMA EngineStep ==
    ASSUME NEW d, DataOK(d), Len(d.configs) # 0, d.stats.games > 0 => Len(d.configs) > 2,
           NEW p, NEW files, Good("-engine", p, files)
    PROVE  LET now == Applied("-engine", d, p, files)
           IN  DataOK(now) /\ Len(now.configs) # 0 /\ (now.stats.games > 0 => Len(now.configs) > 2)
  <1> DEFINE c == d.configs
             a == [c EXCEPT ![Len(c)] = parseEngineKeyValues(c[Len(c)], p)]
             now == Applied("-engine", d, p, files)
  <1>1. now = [d EXCEPT !.configs = a]
    BY DEF Applied, parseEngine
  <1>2. EnginesOK(c)
    BY DEF DataOK
  <1>3. Len(c) \in DOMAIN c
    BY <1>2 DEF EnginesOK, Listed
  <1>4. EngineOK(parseEngineKeyValues(c[Len(c)], p))
    BY <1>2, <1>3, OneEngine DEF EnginesOK, Good
  <1>5. DOMAIN a = DOMAIN c /\ a = [i \in DOMAIN c |-> a[i]] /\ \A i \in DOMAIN c : EngineOK(a[i])
    BY <1>2, <1>3, <1>4 DEF EnginesOK
  <1> HIDE DEF a
  <1>6. EnginesOK(a) /\ Len(a) = Len(c)
    BY <1>2, <1>5, EachChanged
  <1>7. Belong(d.stats, a)
    BY <1>6 DEF Belong
  <1>8. DataOK(now) /\ now.configs = a /\ now.stats = d.stats
    BY <1>1, <1>6, <1>7, EnginesOnly
  <1>9. QED  BY <1>6, <1>8

LEMMA NamesOfTwo ==
    ASSUME NEW c, DOMAIN c = 1..2
    PROVE  Names(c) = {c[1].name, c[2].name}
  BY DEF Names

LEMMA EachStep ==
    ASSUME NEW d, DataOK(d), NEW p, NEW files, Good("-each", p, files)
    PROVE  DataOK(Applied("-each", d, p, files))
  <1> DEFINE c == d.configs
             a == [i \in DOMAIN c |-> parseEngineKeyValues(c[i], p)]
             now == Applied("-each", d, p, files)
  <1>1. now = [d EXCEPT !.configs = a]
    BY DEF Applied, parseEach
  <1>2. EnginesOK(c) /\ Belong(d.stats, c)
    BY DEF DataOK
  <1>3. \A i \in DOMAIN c : EngineOK(a[i]) /\ a[i].name = IF p[1] = "name" THEN p[2] ELSE c[i].name
    BY <1>2, OneEngine DEF EnginesOK, Good
  <1>4. DOMAIN a = DOMAIN c /\ a = [i \in DOMAIN c |-> a[i]]
    OBVIOUS
  <1> HIDE DEF a
  <1>5. EnginesOK(a) /\ Len(a) = Len(c)
    BY <1>2, <1>3, <1>4, EachChanged
  <1>6. DOMAIN c = 1..Len(c)
    BY <1>2 DEF EnginesOK, Listed
  <1>7. Belong(d.stats, a)
    <2>1. CASE Len(c) = 2
      <3>1. DOMAIN c = 1..2 /\ DOMAIN a = 1..2 /\ 1 \in DOMAIN c /\ 2 \in DOMAIN c
        BY <1>4, <1>6, <2>1
      <3>2. Names(c) = {c[1].name, c[2].name} /\ Names(a) = {a[1].name, a[2].name}
        BY <3>1, NamesOfTwo
      <3>3. a[1].name = IF p[1] = "name" THEN p[2] ELSE c[1].name
        BY <1>3, <3>1
      <3>4. a[2].name = IF p[1] = "name" THEN p[2] ELSE c[2].name
        BY <1>3, <3>1
      <3>5. QED  BY <1>2, <1>5, <2>1, <3>2, <3>3, <3>4 DEF Belong
    <2>2. CASE Len(c) # 2
      BY <1>2, <1>5, <2>2 DEF Belong
    <2>3. QED  BY <2>1, <2>2
  <1>8. QED  BY <1>1, <1>5, <1>7, EnginesOnly

LEMMA NewEngineOK == EngineOK(NewEngine) /\ \A cmd : EngineOK(QuickEngine(cmd))
  BY DEF EngineOK, NewEngine, QuickEngine

LEMMA QuickStep ==
    ASSUME NEW d, DataOK(d), NEW p, NEW files, Good("-quick", p, files)
    PROVE  LET now == Applied("-quick", d, p, files)
           IN  /\ DataOK(now) /\ now.stats = d.stats /\ Len(now.configs) \in Nat /\ Len(d.configs) \in Nat
               /\ Len(now.configs) = IF p[1] = "cmd" THEN Len(d.configs) + 1 ELSE Len(d.configs)
  <1> DEFINE c == d.configs
             t == d.tournament_config
             now == Applied("-quick", d, p, files)
  <1>1. EnginesOK(c) /\ Belong(d.stats, c) /\ SettingsOK(t) /\ StatsOK(d.stats)
    BY DEF DataOK
  <1>2. Len(c) \in Nat
    BY <1>1 DEF EnginesOK, Listed
  <1>3. CASE p[1] = "cmd"
    <2> DEFINE a == Append(c, QuickEngine(p[2]))
    <2>1. now = [d EXCEPT !.configs = a]
      BY <1>3 DEF Applied, parseQuick
    <2>2. EnginesOK(a) /\ Len(a) = Len(c) + 1
      BY <1>1, NewEngineOK, OneMoreEngine
    <2> HIDE DEF a
    <2>3. Belong(d.stats, a)
      BY <1>1, <1>2, <2>2 DEF Belong, StatsOK
    <2>4. DataOK(now) /\ now.configs = a /\ now.stats = d.stats
      BY <2>1, <2>2, <2>3, EnginesOnly
    <2>5. QED  BY <1>2, <1>3, <2>2, <2>4
  <1>4. CASE p[1] # "cmd"
    <2> DEFINE o == [FromFile(t.opening, p[2]) EXCEPT !.order = "random"]
               u == [t EXCEPT !.opening = o]
    <2>1. now = parseQuick(d, p)
      BY DEF Applied
    <2>2. now = [d EXCEPT !.tournament_config = u]
      BY <1>4, <2>1 DEF parseQuick
    <2>3. OpeningOK(o)
      BY <1>1, <1>4 DEF SettingsOK, OpeningOK, Good, FromFile
    <2>4. SettingsOK(u)
      BY <1>1, <2>3 DEF SettingsOK, Deciding
    <2> HIDE DEF u
    <2>5. DataOK(now) /\ now.configs = c /\ now.stats = d.stats
      BY <2>2, <2>4, SettingsOnly
    <2>6. QED  BY <1>2, <1>4, <2>5
  <1>5. QED  BY <1>3, <1>4

LEMMA NoResults == StatsOK(NoStats) /\ \A c : Belong(NoStats, c)
  BY DEF StatsOK, Belong, NoStats

LEMMA ConfigStep ==
    ASSUME NEW d, DataOK(d), NEW p, NEW files, Good("-config", p, files), AcceptedFiles(files)
    PROVE  DataOK(Applied("-config", d, p, files))
  <1> DEFINE now == Applied("-config", d, p, files)
  <1>1. now = parseConfig(d, p, files)
    BY DEF Applied
  <1>2. CASE p[1] = "file"
    <2> DEFINE f == files[p[2]]
    <2>1. now = loadJson(d, f)
      BY <1>1, <1>2 DEF parseConfig
    <2>2. Accepted(f.config, f.engines, f.stats)
      BY <1>2 DEF AcceptedFiles, Good
    <2> HIDE DEF f
    <2>3. Len(f.engines) = 2
      BY <2>2 DEF Accepted, RefusesEngines
    <2>4. Belong(f.stats, f.engines)
      BY <2>2, <2>3 DEF Accepted, Belong
    <2>5. QED  BY <2>1, <2>2, <2>4 DEF DataOK, loadJson, Accepted
  <1>3. CASE p[1] = "outname"
    <2>1. now = [d EXCEPT !.tournament_config = [d.tournament_config EXCEPT !.config_name = p[2]]]
      BY <1>1, <1>3 DEF parseConfig
    <2>2. SettingsOK([d.tournament_config EXCEPT !.config_name = p[2]])
      BY OtherSetting DEF DataOK
    <2>3. QED  BY <2>1, <2>2, SettingsOnly
  <1>4. CASE p[1] \notin {"file", "outname"} /\ (p[1] = "discard" /\ p[2])
    <2>1. now = Discarded(d)
      BY <1>1, <1>4 DEF parseConfig
    <2>2. QED  BY <2>1, NoResults DEF DataOK, Discarded
  <1>5. CASE p[1] \notin {"file", "outname"} /\ ~(p[1] = "discard" /\ p[2])
    <2>1. now = d
      BY <1>1, <1>5 DEF parseConfig
    <2>2. QED  BY <2>1
  <1>6. QED  BY <1>2, <1>3, <1>4, <1>5

-----------------------------------------------------------------------------
(* An option with all its parameters.                                      *)

\* What holds of the arguments after i parameters of an option that was given them as they were in old.
Kept(option, old, params, i, now) ==
    /\ DataOK(now)
    /\ option = "-engine" => Len(now.configs) # 0 /\ (now.stats.games > 0 => Len(now.configs) > 2)
    /\ option = "-quick" =>
          /\ now.stats = old.stats /\ Len(now.configs) \in Nat /\ Len(now.configs) >= Len(old.configs)
          /\ (\E j \in 1..i : params[j][1] = "cmd") => Len(now.configs) > Len(old.configs)

LEMMA KeptStep ==
    ASSUME NEW option \in Dashed, NEW old, Len(old.configs) \in Nat, NEW params, NEW i \in Nat, NEW d,
           NEW files, AcceptedFiles(files), Good(option, params[i + 1], files), Kept(option, old, params, i, d)
    PROVE  Kept(option, old, params, i + 1, Applied(option, d, params[i + 1], files))
  <1> DEFINE p == params[i + 1]
             now == Applied(option, d, p, files)
  <1>1. DataOK(d) /\ Good(option, p, files)
    BY DEF Kept
  <1> HIDE DEF p
  <1>2. CASE option = "-engine"
    <2>1. DataOK(now) /\ Len(now.configs) # 0 /\ (now.stats.games > 0 => Len(now.configs) > 2)
      BY <1>1, <1>2, EngineStep DEF Kept
    <2>2. QED  BY <1>2, <2>1 DEF Kept, p
  <1>3. CASE option = "-quick"
    <2>1. /\ DataOK(now) /\ now.stats = d.stats /\ Len(now.configs) \in Nat /\ Len(d.configs) \in Nat
          /\ Len(now.configs) = IF p[1] = "cmd" THEN Len(d.configs) + 1 ELSE Len(d.configs)
      BY <1>1, <1>3, QuickStep
    <2>2. \A j \in 1..(i + 1) : j \in 1..i \/ j = i + 1
      OBVIOUS
    <2> HIDE DEF now
    <2>3. Kept(option, old, params, i + 1, now)
      <3>1. now.stats = old.stats /\ Len(now.configs) >= Len(old.configs)
        BY <1>3, <2>1 DEF Kept
      <3>2. ASSUME NEW j \in 1..(i + 1), params[j][1] = "cmd"
            PROVE  Len(now.configs) > Len(old.configs)
        <4>1. CASE j = i + 1
          BY <1>3, <2>1, <3>2, <4>1 DEF Kept, p
        <4>2. CASE j \in 1..i
          BY <1>3, <2>1, <3>2, <4>2 DEF Kept
        <4>3. QED  BY <2>2, <4>1, <4>2
      <3>3. QED  BY <1>3, <2>1, <3>1, <3>2 DEF Kept
    <2>4. QED  BY <2>3 DEF now, p
  <1>4. CASE option \notin {"-engine", "-quick"}
    <2>1. option = "-each" => DataOK(now)
      BY <1>1, EachStep
    <2>2. option = "-config" => DataOK(now)
      BY <1>1, ConfigStep
    <2>3. option \in DashOptions \ {"-each"} => DataOK(now)
      BY <1>1, SettingsStep
    <2>4. DataOK(now)
      BY <1>4, <2>1, <2>2, <2>3 DEF Dashed
    <2>5. QED  BY <1>4, <2>4 DEF Kept, p
  <1>5. QED  BY <1>2, <1>3, <1>4

LEMMA ReadKeeps ==
    ASSUME NEW option \in Dashed, NEW old, Len(old.configs) \in Nat, NEW params, Len(params) \in Nat,
           NEW files, AcceptedFiles(files), \A i \in 1..Len(params) : Good(option, params[i], files),
           Kept(option, old, params, 0, old)
    PROVE  Kept(option, old, params, Len(params), parseDashOptions(option, old, params, files))
  <1>1. PICK g : /\ g[0] = old
                 /\ \A i \in 0..(Len(params) - 1) : g[i + 1] = Applied(option, g[i], params[i + 1], files)
                 /\ parseDashOptions(option, old, params, files) = g[Len(params)]
    BY InTurn
  <1> DEFINE S == {i \in 0..Len(params) : Kept(option, old, params, i, g[i])}
  <1>2. 0 \in S
    BY <1>1
  <1>3. ASSUME NEW i \in 0..(Len(params) - 1), i \in S PROVE i + 1 \in S
    <2>1. i + 1 \in 1..Len(params) /\ i \in Nat
      OBVIOUS
    <2>2. Good(option, params[i + 1], files)
      BY <2>1
    <2>3. Kept(option, old, params, i, g[i])
      BY <1>3
    <2>4. Kept(option, old, params, i + 1, Applied(option, g[i], params[i + 1], files))
      BY <2>1, <2>2, <2>3, KeptStep
    <2>5. QED  BY <1>1, <2>1, <2>4
  <1> HIDE DEF S
  <1>4. 0..Len(params) \subseteq S
    BY <1>2, <1>3, Inductive
  <1>5. Len(params) \in S
    BY <1>4
  <1>6. QED  BY <1>1, <1>5 DEF S

LEMMA NumberedOK ==
    ASSUME NEW e, EngineOK(e), NEW number
    PROVE  EngineOK(Numbered(e, number))
  BY DEF EngineOK, Numbered

LEMMA QuickKeeps ==
    ASSUME NEW d, DataOK(d), d.stats.games > 0 => Len(d.configs) > 2
    PROVE  DataOK(QuickSettings(d))
  <1> DEFINE c == d.configs
             a == [c EXCEPT ![1] = Numbered(c[1], "1"), ![2] = Numbered(c[2], "2")]
             named == IF c[1].name # c[2].name THEN d ELSE [d EXCEPT !.configs = a]
             t == named.tournament_config
             draw == [enabled |-> TRUE, movenumber |-> 30, movecount |-> 8, score |-> 8]
             threads == IF HardwareThreads - 2 < 1 THEN 1 ELSE HardwareThreads - 2
             u == [t EXCEPT !.games = 2, !.rounds = QuickRounds, !.concurrency = threads,
                            !.recover = TRUE, !.output = "cutechess", !.draw = draw]
  <1>1. EnginesOK(c)
    BY DEF DataOK
  <1>2. DOMAIN a = DOMAIN c /\ a = [i \in DOMAIN c |-> a[i]] /\ \A i \in DOMAIN c : EngineOK(a[i])
    BY <1>1, NumberedOK DEF EnginesOK
  <1> HIDE DEF a
  <1>3. EnginesOK(a) /\ Len(a) = Len(c)
    BY <1>1, <1>2, EachChanged
  <1>4. Belong(d.stats, a)
    BY <1>3 DEF Belong
  <1>5. DataOK(named)
    BY <1>3, <1>4, EnginesOnly
  <1>6. QuickSettings(d) = [named EXCEPT !.tournament_config = u]
    BY DEF QuickSettings, a
  <1> HIDE DEF named
  <1>7. SettingsOK(t)
    BY <1>5 DEF DataOK
  <1>8. threads \in Nat
    BY ConfigurationAssumption
  <1> HIDE DEF threads
  <1>9. SettingsOK(u)
    BY <1>7, <1>8, ConfigurationAssumption DEF SettingsOK, Deciding
  <1> HIDE DEF u
  <1>10. QED  BY <1>5, <1>6, <1>9, SettingsOnly

-----------------------------------------------------------------------------
(* The steps of the parser.                                                *)

LEMMA GoodParams ==
    ASSUME NEW option \in Dashed, NEW params, WellFormed(option, params), NEW data, NEW files,
           ~Throws(option, params, data, files)
    PROVE  Len(params) \in Nat /\ DOMAIN params = 1..Len(params) /\ \A i \in 1..Len(params) : Good(option, params[i], files)
  <1>1. Len(params) \in Nat /\ DOMAIN params = 1..Len(params)
    BY DEF WellFormed
  <1>2. ASSUME NEW i \in DOMAIN params PROVE Good(option, params[i], files)
    <2>1. option \in {"-engine", "-each"} => ~BadEngineParameter(params[i])
      BY DEF Throws
    <2>2. option = "-openings" => ~BadOpeningParameter(params[i])
      BY DEF Throws
    <2>3. option = "-quick" => ~BadQuickParameter(params[i])
      BY DEF Throws
    <2>4. option = "-config" /\ params[i][1] = "file" => params[i][2] \in DOMAIN files
      BY DEF Throws
    <2>5. /\ option = "-openings" /\ params[i][1] = "start" => params[i][2] \in Int
          /\ option = "-quick" /\ params[i][1] = "book" => params[i][2] \in DOMAIN Library
          /\ option = "-report" => params[i][2] \in BOOLEAN
      BY DEF WellFormed
    <2>6. QED
      BY <2>1, <2>2, <2>3, <2>4, <2>5 DEF Good, BadEngineParameter, BadOpeningParameter, BadQuickParameter
  <1>3. QED  BY <1>1, <1>2

LEMMA HandledKeeps ==
    ASSUME DataOK(argument_data), WellFormed(Option, Params), FilesOK,
           ~Throws(Option, Params, argument_data, disk), Handled(argument_data)
    PROVE  DataOK(argument_data')
  <1> DEFINE d == argument_data
             t == d.tournament_config
             read(e) == parseDashOptions(Option, e, Params, disk)
  <1>1. AcceptedFiles(disk)
    BY DEF FilesOK, AcceptedFiles
  <1>2. Len(d.configs) \in Nat /\ EnginesOK(d.configs) /\ SettingsOK(t) /\ Belong(d.stats, d.configs)
        /\ StatsOK(d.stats)
    BY DEF DataOK, EnginesOK, Listed
  <1> DEFINE n == Len(d.configs)
  <1>3. n \in Nat /\ (d.stats.games > 0 => n >= 2)
    BY <1>2 DEF Belong
  <1> HIDE DEF n
  <1>4. ASSUME NEW e, Len(e.configs) \in Nat, Option \in Dashed, Kept(Option, e, Params, 0, e)
        PROVE  Kept(Option, e, Params, Len(Params), read(e))
    BY <1>1, <1>4, GoodParams, ReadKeeps
  <1>5. CASE Option \in DashOptions /\ argument_data' = read(d)
    <2>1. Kept(Option, d, Params, 0, d)
      BY <1>5 DEF Kept, DashOptions
    <2>2. QED  BY <1>2, <1>4, <1>5, <2>1 DEF Kept, Dashed
  <1>6. CASE Option = "-engine" /\ argument_data' = read(WithNewEngine(d))
    <2> DEFINE e == WithNewEngine(d)
               c == Append(d.configs, NewEngine)
    <2>1. EnginesOK(c) /\ Len(c) = Len(d.configs) + 1
      BY <1>2, NewEngineOK, OneMoreEngine
    <2>2. Len(c) = n + 1
      BY <2>1 DEF n
    <2> HIDE DEF c
    <2>3. d.stats.games > 0 => Len(c) > 2
      BY <1>3, <2>2
    <2>4. Belong(d.stats, c)
      BY <2>3 DEF Belong
    <2>5. e = [d EXCEPT !.configs = c]
      BY DEF WithNewEngine, c
    <2> HIDE DEF e
    <2>6. DataOK(e) /\ e.configs = c /\ e.stats = d.stats
      BY <2>1, <2>4, <2>5, EnginesOnly
    <2>7. Kept(Option, e, Params, 0, e)
      BY <1>2, <1>6, <2>1, <2>3, <2>6 DEF Kept
    <2>8. Len(e.configs) \in Nat
      BY <1>2, <2>1, <2>6
    <2>9. argument_data' = read(e)
      BY <1>6 DEF e
    <2>10. QED  BY <1>4, <1>6, <2>7, <2>8, <2>9 DEF Kept, Dashed
  <1>7. CASE Option = "-quick" /\ argument_data' = QuickSettings(read(d))
    <2>1. Kept(Option, d, Params, 0, d)
      BY <1>2, <1>7 DEF Kept
    <2>2. Kept(Option, d, Params, Len(Params), read(d))
      BY <1>2, <1>4, <1>7, <2>1 DEF Dashed
    <2>3. \E j \in 1..Len(Params) : Params[j][1] = "cmd"
      BY <1>7 DEF WellFormed, Keys
    <2> DEFINE r == read(d)
    <2>4. DataOK(r) /\ r.stats = d.stats /\ Len(r.configs) \in Nat /\ Len(r.configs) > n
      BY <1>7, <2>2, <2>3 DEF Kept, n
    <2> HIDE DEF r
    <2>5. r.stats.games > 0 => Len(r.configs) > 2
      BY <1>3, <2>4
    <2>6. argument_data' = QuickSettings(r)
      BY <1>7 DEF r
    <2>7. QED  BY <2>4, <2>5, <2>6, QuickKeeps
  <1>8. CASE Option = "-config" /\ argument_data' = IF StatsDropped(Params) THEN [read(d) EXCEPT !.stats = NoStats]
                                                    ELSE read(d)
    <2>1. Kept(Option, d, Params, 0, d)
      BY <1>8 DEF Kept
    <2>2. DataOK(read(d))
      BY <1>2, <1>4, <1>8, <2>1 DEF Dashed, Kept
    <2>3. ASSUME NEW e, DataOK(e) PROVE DataOK([e EXCEPT !.stats = NoStats])
      BY <2>3, NoResults DEF DataOK
    <2>4. QED  BY <1>8, <2>2, <2>3
  <1>9. ASSUME NEW u, argument_data' = [d EXCEPT !.tournament_config = u], SettingsOK(u)
        PROVE  DataOK(argument_data')
    BY <1>9, SettingsOnly
  <1>10. CASE Option = "-maxmoves" /\ argument_data' = parseMaxMoves(d, Params[1])
    <2>1. argument_data' = [d EXCEPT !.tournament_config =
                               [t EXCEPT !.maxmoves = [enabled |-> TRUE, movecount |-> Params[1]]]]
      BY <1>10 DEF parseMaxMoves
    <2>2. QED  BY <1>2, <1>9, <2>1, OtherSetting
  <1>11. CASE Option = "-repeat" /\ argument_data' = parseRepeat(d, Params)
    <2> DEFINE value == IF Len(Params) = 1 THEN Params[1] ELSE 2
               u == [t EXCEPT !.games = value]
    <2>1. argument_data' = [d EXCEPT !.tournament_config = u]
      BY <1>11 DEF parseRepeat
    <2>2. value \in Nat
      BY <1>11 DEF WellFormed
    <2> HIDE DEF value
    <2>3. SettingsOK(u)
      BY <1>2, <2>2 DEF SettingsOK, Deciding
    <2> HIDE DEF u
    <2>4. QED  BY <1>9, <2>1, <2>3
  <1>12. CASE Option = "-variant" /\ argument_data' = parseVariant(d, Params[1])
    <2>1. argument_data' = [d EXCEPT !.tournament_config =
                               [t EXCEPT !.variant = IF Params[1] = "fischerandom" THEN Params[1] ELSE t.variant]]
      BY <1>12 DEF parseVariant
    <2>2. QED  BY <1>2, <1>9, <2>1, OtherSetting
  <1>13. CASE Option = "-tournament" /\ argument_data' = d
    BY <1>13
  <1>14. ASSUME NEW o \in ValueOptions, Option = o[1], argument_data' = parseValue(d, o[2], Params[1])
         PROVE  DataOK(argument_data')
    <2>1. argument_data' = [d EXCEPT !.tournament_config = [t EXCEPT ![o[2]] = Params[1]]]
      BY <1>14 DEF parseValue
    <2>2. /\ o[1] \in {"-games", "-rounds", "-concurrency"} => Params[1] \in Nat
          /\ o[1] = "-srand" => Params[1] \in DOMAIN Rand
      BY <1>14 DEF WellFormed
    <2>3. SettingsOK([t EXCEPT ![o[2]] = Params[1]])
      BY <1>2, <2>2 DEF SettingsOK, Deciding, ValueOptions
    <2>4. QED  BY <1>9, <2>1, <2>3
  <1>15. ASSUME NEW o \in Switches, Option = o[1], argument_data' = parseSwitch(d, o[2])
         PROVE  DataOK(argument_data')
    <2>1. argument_data' = [d EXCEPT !.tournament_config = [t EXCEPT ![o[2]] = TRUE]]
      BY <1>15 DEF parseSwitch
    <2>2. o[2] \in {"noswap", "recover", "affinity"}
      BY <1>15 DEF Switches
    <2>3. o[2] \notin {"games", "rounds", "concurrency", "report_penta", "opening", "seed"}
      BY <2>2
    <2>4. SettingsOK([t EXCEPT ![o[2]] = TRUE])
      BY <1>2, <2>3, OtherSetting
    <2>5. QED  BY <1>9, <2>1, <2>4
  <1>16. QED
    BY <1>5, <1>6, <1>7, <1>8, <1>10, <1>11, <1>12, <1>13, <1>14, <1>15 DEF Handled

LEMMA FreshOK ==
    ASSUME NEW seed \in DOMAIN Rand, NEW old_seed \in DOMAIN Rand
    PROVE  DataOK(NewArguments(seed, old_seed))
  <1>1. ASSUME NEW s \in DOMAIN Rand PROVE SettingsOK(NewTournament(s))
    <2> DEFINE t == NewTournament(s)
               o == t.opening
    <2>1. {"file", "start"} \subseteq DOMAIN o
      BY DEF NewTournament
    <2>2. o.file = ""
      BY DEF NewTournament
    <2>3. o.start = 1
      BY DEF NewTournament
    <2>4. t.games = 2 /\ t.rounds = 2 /\ t.concurrency = 1
      BY DEF NewTournament
    <2>5. t.report_penta \in BOOLEAN /\ t.seed \in DOMAIN Rand
      BY DEF NewTournament
    <2>6. Deciding \subseteq DOMAIN t
      BY DEF NewTournament, Deciding
    <2> HIDE DEF o
    <2>7. o.file \in DOMAIN Library \cup {""}
      BY <2>2
    <2>8. o.start \in Nat \ {0}
      BY <2>3
    <2>9. OpeningOK(o)
      BY <2>1, <2>7, <2>8 DEF OpeningOK
    <2> HIDE DEF t
    <2>10. t.games \in Nat /\ t.rounds \in Nat /\ t.concurrency \in Nat
      BY <2>4
    <2>11. OpeningOK(t.opening)
      BY <2>9 DEF o
    <2>12. QED  BY <2>5, <2>6, <2>10, <2>11 DEF SettingsOK, t
  <1>2. EnginesOK(<< >>)
    BY DEF EnginesOK, Listed
  <1>3. QED  BY <1>1, <1>2, NoResults DEF DataOK, NewArguments

\* The lists that argv is in the course of a session.
LineOK(line) == Listed(line) /\ \A i \in DOMAIN line : WellFormed(line[i][1], line[i][2])

LEMMA TailOK ==
    ASSUME NEW line, LineOK(line), line # << >>
    PROVE  LineOK(Tail(line)) /\ WellFormed(Head(line)[1], Head(line)[2])
  <1>1. line \in Seq({line[i] : i \in DOMAIN line})
    BY DEF LineOK, Listed
  <1> DEFINE S == {line[i] : i \in DOMAIN line}
             rest == Tail(line)
  <1>2. line \in Seq(S)
    BY <1>1
  <1> HIDE DEF S
  <1>3. /\ Len(line) \in Nat \ {0} /\ DOMAIN line = 1..Len(line) /\ Head(line) = line[1] /\ 1 \in DOMAIN line
        /\ rest \in Seq(S) /\ Len(rest) = Len(line) - 1 /\ \A i \in 1..Len(rest) : rest[i] = line[i + 1]
    BY <1>2
  <1>4. DOMAIN rest = 1..Len(rest)
    BY <1>3
  <1> HIDE DEF rest
  <1>5. rest \in Seq({rest[i] : i \in DOMAIN rest})
    BY <1>3, <1>4
  <1>6. \A i \in DOMAIN rest : i + 1 \in DOMAIN line /\ rest[i] = line[i + 1]
    BY <1>3, <1>4
  <1>7. QED  BY <1>3, <1>5, <1>6 DEF LineOK, Listed, rest

LEMMA BeginKeeps == IInv /\ Begin => IInv'
  <1> SUFFICES ASSUME IInv, Begin PROVE IInv'
    OBVIOUS
  <1>1. PICK line \in CommandLines[sessions + 1], seed \in Seeds, old_seed \in Seeds :
            argv' = line /\ argument_data' = NewArguments(seed, old_seed)
    BY DEF Begin
  <1>2. sessions + 1 \in DOMAIN CommandLines
    BY StartupAssumption DEF Begin, IInv
  <1>3. Listed(argv') /\ \A i \in DOMAIN argv' : WellFormed(argv'[i][1], argv'[i][2])
    BY <1>1, <1>2, StartupAssumption DEF Listed
  <1>4. DataOK(argument_data')
    BY <1>1, FreshOK, StartupAssumption
  <1>5. sessions' \in Nat /\ phase' = "parsing" /\ session' = NoSession /\ FilesOK'
    BY DEF Begin, IInv, FilesOK, Going
  <1>6. (phase = "parsing" => Listed(argv) /\ \A i \in DOMAIN argv : WellFormed(argv[i][1], argv[i][2]))'
    BY <1>3
  <1>7. DataOK(argument_data)'
    BY <1>4
  <1>8. QED  BY <1>5, <1>6, <1>7 DEF IInv, Going

LEMMA ParseKeeps == IInv /\ Parse => IInv'
  <1> SUFFICES ASSUME IInv, Parse PROVE IInv'
    OBVIOUS
  <1>1. LineOK(argv) /\ argv # << >> /\ argv' = Tail(argv) /\ DataOK(argument_data)
    BY DEF IInv, Parse, LineOK
  <1>2. LineOK(argv') /\ WellFormed(Option, Params)
    BY <1>1, TailOK DEF Option, Params
  <1>3. DataOK(argument_data')
    BY <1>1, <1>2, HandledKeeps DEF IInv, Parse
  <1>4. /\ sessions' = sessions /\ sessions \in Nat /\ phase' = "parsing" /\ phase = "parsing"
        /\ session' = session /\ disk' = disk /\ FilesOK'
    BY DEF IInv, Parse, FilesOK
  <1>5. session' = NoSession
    BY <1>4 DEF IInv, Going
  <1>6. LineOK(argv)' /\ DataOK(argument_data)'
    BY <1>2, <1>3
  <1>7. QED  BY <1>4, <1>5, <1>6 DEF IInv, Going, LineOK

LEMMA ApplyVariantKeeps == IInv /\ ApplyVariant => IInv'
  <1> SUFFICES ASSUME IInv, ApplyVariant PROVE IInv'
    OBVIOUS
  <1> DEFINE d == argument_data
             c == d.configs
             v == d.tournament_config.variant
             a == [i \in DOMAIN c |-> [c[i] EXCEPT !.variant = v]]
  <1>1. DataOK(d) /\ EnginesOK(c) /\ Belong(d.stats, c)
    BY DEF IInv, ApplyVariant, DataOK
  <1>2. argument_data' = [d EXCEPT !.configs = a]
    BY DEF ApplyVariant
  <1>3. \A i \in DOMAIN c : EngineOK(a[i]) /\ a[i].name = c[i].name /\ a[i].variant = v
    BY <1>1 DEF EnginesOK, EngineOK
  <1>4. DOMAIN a = DOMAIN c /\ a = [i \in DOMAIN c |-> a[i]]
    OBVIOUS
  <1> HIDE DEF a
  <1>5. EnginesOK(a) /\ Len(a) = Len(c)
    BY <1>1, <1>3, <1>4, EachChanged
  <1>6. Len(c) = 2 => DOMAIN c = 1..2
    BY <1>1 DEF EnginesOK, Listed
  <1>7. Len(c) = 2 => Names(a) = Names(c) /\ a[1].name = c[1].name /\ a[2].name = c[2].name
    <2> SUFFICES ASSUME Len(c) = 2 PROVE Names(a) = Names(c) /\ a[1].name = c[1].name /\ a[2].name = c[2].name
      OBVIOUS
    <2>1. a[1].name = c[1].name /\ a[2].name = c[2].name
      BY <1>3, <1>6
    <2>2. QED  BY <1>4, <1>6, <2>1, NamesOfTwo
  <1>8. Belong(d.stats, a)
    BY <1>1, <1>5, <1>7 DEF Belong
  <1>9. DataOK(argument_data') /\ argument_data'.configs = a
    BY <1>1, <1>2, <1>5, <1>8, EnginesOnly
  <1>10. argument_data'.tournament_config.variant = v
    BY <1>1, <1>2 DEF DataOK
  <1>11. SameVariant(argument_data'.tournament_config, argument_data'.configs)
    BY <1>3, <1>4, <1>9, <1>10 DEF SameVariant
  <1>12. DataOK(argument_data)' /\ SameVariant(argument_data.tournament_config, argument_data.configs)'
    BY <1>9, <1>11
  <1>13. sessions' \in Nat /\ phase' = "parsed" /\ session' = NoSession /\ FilesOK'
    BY DEF IInv, ApplyVariant, FilesOK, Going
  <1>14. QED  BY <1>12, <1>13 DEF IInv, Going

LEMMA StoppingKeeps == IInv /\ (StopParsing \/ Refuse \/ Kill) => IInv'
  <1> SUFFICES ASSUME IInv, StopParsing \/ Refuse \/ Kill PROVE IInv'
    OBVIOUS
  <1>1. phase' = "off" /\ sessions' \in Nat /\ FilesOK'
    BY DEF IInv, StopParsing, Refuse, Kill, FilesOK
  <1>2. session' = NoSession
    BY DEF IInv, StopParsing, Refuse, Kill, Going
  <1>3. QED  BY <1>1, <1>2 DEF IInv, Going

-----------------------------------------------------------------------------
(* The constructor of the tournament.                                      *)

LEMMA SanitizedIsSound ==
    ASSUME NEW t, SettingsOK(t), ~RefusesTournament(t), SanitizedTournament(t).concurrency # 0,
           SanitizedTournament(t).games # 0, ~NoOpenings(t),
           NEW config, config = SanitizedTournament(t)
    PROVE  /\ SettingsOK(config) /\ ~RefusesTournament(config) /\ SanitizedTournament(config) = config
           /\ config.games \in {1, 2} /\ config.variant = t.variant /\ ~NoOpenings(config)
  <1> DEFINE fixed == WithGamesFixed(t)
             penta == fixed.report_penta /\ PentaPossible(fixed)
             threads == IF fixed.concurrency < HardwareThreads THEN fixed.concurrency ELSE HardwareThreads
  <1>1. /\ SettingsOK(fixed) /\ fixed.games \in 0..2 /\ fixed.variant = t.variant
        /\ fixed.opening = t.opening /\ fixed.sprt = t.sprt
    <2>1. ASSUME t.games > 2
          PROVE  /\ SettingsOK(fixed) /\ fixed.variant = t.variant /\ fixed.opening = t.opening /\ fixed.sprt = t.sprt
      <3>1. fixed = [t EXCEPT !.games = t.rounds, !.rounds = t.games]
        BY <2>1 DEF WithGamesFixed
      <3> HIDE DEF fixed
      <3>2. QED  BY <3>1 DEF SettingsOK, Deciding
    <2>2. ~(t.games > 2) => fixed = t
      BY DEF WithGamesFixed
    <2>3. ~(fixed.games > 2)
      BY DEF RefusesTournament
    <2> HIDE DEF fixed
    <2>4. SettingsOK(fixed) /\ fixed.variant = t.variant /\ fixed.opening = t.opening /\ fixed.sprt = t.sprt
      BY <2>1, <2>2
    <2>5. fixed.games \in 0..2
      BY <2>3, <2>4 DEF SettingsOK
    <2>6. QED  BY <2>4, <2>5
  <1>2. config = [fixed EXCEPT !.report_penta = penta, !.concurrency = threads,
                               !.ratinginterval = Interval(fixed.ratinginterval),
                               !.scoreinterval = Interval(fixed.scoreinterval)]
    BY DEF SanitizedTournament
  <1>3. penta \in BOOLEAN /\ threads \in Nat /\ threads <= HardwareThreads
    BY <1>1, ConfigurationAssumption DEF SettingsOK
  <1> HIDE DEF fixed, penta, threads
  <1>4. /\ DOMAIN config = DOMAIN fixed
        /\ config.games = fixed.games /\ config.rounds = fixed.rounds /\ config.opening = fixed.opening
        /\ config.variant = fixed.variant /\ config.sprt = fixed.sprt /\ config.output = fixed.output
        /\ config.seed = fixed.seed
    BY <1>2
  <1>5. config.concurrency = threads /\ config.report_penta = penta
    BY <1>1, <1>2 DEF SettingsOK, Deciding
  <1>6. config.ratinginterval = Interval(fixed.ratinginterval) /\ config.scoreinterval = Interval(fixed.scoreinterval)
    BY <1>1, <1>2 DEF SettingsOK, Deciding
  <1>7. SettingsOK(config)
    BY <1>1, <1>3, <1>4, <1>5 DEF SettingsOK
  <1>8. config.games \in {1, 2}
    BY <1>1, <1>4
  <1>9. WithGamesFixed(config) = config
    BY <1>8 DEF WithGamesFixed
  <1>10. ~RefusesTournament(config)
    <2>1. ~(WithGamesFixed(config).games > 2)
      BY <1>8, <1>9
    <2>2. config.sprt = t.sprt /\ config.variant = t.variant /\ config.opening = t.opening
      BY <1>1, <1>4
    <2>3. QED  BY <2>1, <2>2 DEF RefusesTournament
  <1>11. ~NoOpenings(config)
    BY <1>1, <1>4 DEF NoOpenings
  <1>12. PentaPossible(config) <=> PentaPossible(fixed)
    BY <1>1, <1>4 DEF PentaPossible
  <1>13. SanitizedTournament(config) = config
    <2> DEFINE again == SanitizedTournament(config)
    <2>1. ASSUME NEW w, w = WithGamesFixed(config)
          PROVE  again = [w EXCEPT !.report_penta = w.report_penta /\ PentaPossible(w),
                                   !.concurrency = IF w.concurrency < HardwareThreads THEN w.concurrency
                                                   ELSE HardwareThreads,
                                   !.ratinginterval = Interval(w.ratinginterval),
                                   !.scoreinterval = Interval(w.scoreinterval)]
      BY <2>1 DEF SanitizedTournament
    <2>2. again = [config EXCEPT !.report_penta = config.report_penta /\ PentaPossible(config),
                                 !.concurrency = IF config.concurrency < HardwareThreads THEN config.concurrency
                                                 ELSE HardwareThreads,
                                 !.ratinginterval = Interval(config.ratinginterval),
                                 !.scoreinterval = Interval(config.scoreinterval)]
      BY <1>9, <2>1
    <2>3. config.report_penta = (config.report_penta /\ PentaPossible(config))
      BY <1>3, <1>5, <1>12 DEF penta
    <2>4. config.concurrency = IF config.concurrency < HardwareThreads THEN config.concurrency ELSE HardwareThreads
      BY <1>3, <1>5, ConfigurationAssumption
    <2>5. \A n : Interval(Interval(n)) = Interval(n)
      BY ConfigurationAssumption DEF Interval
    <2>6. Interval(config.ratinginterval) = config.ratinginterval /\ Interval(config.scoreinterval) = config.scoreinterval
      BY <1>6, <2>5
    <2>7. config = [f \in DOMAIN config |-> config[f]]
      BY <1>2
    <2> HIDE DEF again
    <2>8. again = [config EXCEPT !.report_penta = config.report_penta, !.concurrency = config.concurrency,
                                 !.ratinginterval = config.ratinginterval, !.scoreinterval = config.scoreinterval]
      BY <2>2, <2>3, <2>4, <2>6
    <2>9. QED  BY <2>7, <2>8 DEF again
  <1>14. QED  BY <1>4, <1>1, <1>7, <1>8, <1>10, <1>11, <1>13

\* Results that are loaded and accepted are those of the engines.
LEMMA OwnResults ==
    ASSUME NEW c, EnginesOK(c), ~RefusesEngines(c), NEW stats, Belong(stats, c), stats.games > 0
    PROVE  stats.engines = Names(c)
  <1>1. Len(c) = 2
    BY DEF RefusesEngines
  <1>2. Len(c) = 2 /\ DOMAIN c = 1..2
    BY <1>1 DEF EnginesOK, Listed
  <1>3. 2 \in DOMAIN c /\ 1 \in 1..(2 - 1)
    BY <1>2
  <1>4. c[2].name # c[1].name
    BY <1>3 DEF RefusesEngines
  <1>5. QED  BY <1>2, <1>4 DEF Belong

LEMMA ConstructKeeps == IInv /\ Construct => IInv'
  <1> SUFFICES ASSUME IInv, Construct PROVE IInv'
    OBVIOUS
  <1> DEFINE t == Requested
             config == SanitizedTournament(t)
             c == argument_data.configs
             stats == argument_data.stats
             done == RoundsDone(config, stats)
             now == [config |-> config, engines |-> c, results |-> stats, done |-> done,
                     book |-> setup(config, config.opening.start - 1 + done), openings |-> << >>]
  <1>1. DataOK(argument_data) /\ SameVariant(t, c)
    BY DEF IInv, Construct, Requested
  <1>2. SettingsOK(t) /\ EnginesOK(c) /\ StatsOK(stats) /\ Belong(stats, c)
    BY <1>1 DEF DataOK, Requested
  <1>3. ~RefusesTournament(t) /\ ~RefusesEngines(c) /\ config.concurrency # 0 /\ config.games # 0 /\ ~NoOpenings(t)
    BY DEF Construct, Refused
  <1>4. session' = now /\ phase' = "created" /\ disk' = disk /\ sessions' = sessions
    BY DEF Construct
  <1> HIDE DEF t
  <1>5. /\ SettingsOK(config) /\ ~RefusesTournament(config) /\ SanitizedTournament(config) = config
        /\ config.games \in {1, 2} /\ config.variant = t.variant /\ ~NoOpenings(config)
    BY <1>2, <1>3, SanitizedIsSound
  <1> HIDE DEF config, c, stats
  <1>6. SameVariant(config, c)
    BY <1>1, <1>5 DEF SameVariant
  <1>7. Accepted(config, c, stats)
    BY <1>2, <1>3, <1>5, <1>6, OwnResults DEF Accepted
  <1>8. done \in Nat
    <2>1. stats.games \in Nat
      BY <1>2 DEF StatsOK
    <2>2. CASE config.games = 1
      BY <2>1, <2>2 DEF RoundsDone
    <2>3. CASE config.games = 2
      BY <2>1, <2>3 DEF RoundsDone
    <2>4. QED  BY <1>5, <2>2, <2>3
  <1> HIDE DEF done
  <1>9. /\ now.config = config /\ now.engines = c /\ now.results = stats /\ now.done = done
        /\ now.book = setup(config, config.opening.start - 1 + done)
        /\ {"openings", "results"} \subseteq DOMAIN now
    OBVIOUS
  <1> HIDE DEF now
  <1>10. SessionOK'
    BY <1>4, <1>5, <1>7, <1>8, <1>9 DEF SessionOK
  <1>11. FilesOK'
    BY <1>4 DEF IInv, FilesOK
  <1>12. QED  BY <1>4, <1>10, <1>11 DEF IInv, Going

LEMMA CreateKeeps == IInv /\ Create => IInv'
  <1> SUFFICES ASSUME IInv, Create PROVE IInv'
    OBVIOUS
  <1> DEFINE all == [k \in session.done..(session.config.rounds - 1) |-> OpeningAt(session.book, k - session.done)]
  <1>1. SessionOK /\ FilesOK /\ sessions \in Nat
    BY DEF IInv, Create, Going
  <1>2. session' = [session EXCEPT !.openings = all] /\ phase' = "running" /\ disk' = disk /\ sessions' = sessions
    BY DEF Create
  <1> HIDE DEF all
  <1>3. /\ session'.config = session.config /\ session'.engines = session.engines
        /\ session'.results = session.results /\ session'.done = session.done /\ session'.book = session.book
        /\ session'.openings = all /\ DOMAIN session' = DOMAIN session
    BY <1>1, <1>2 DEF SessionOK
  <1>4. SessionOK'
    BY <1>1, <1>2, <1>3 DEF SessionOK, all
  <1>5. FilesOK'
    BY <1>1, <1>2 DEF FilesOK
  <1>6. QED  BY <1>1, <1>2, <1>4, <1>5 DEF IInv, Going

LEMMA FinishGameKeeps == IInv /\ FinishGame => IInv'
  <1> SUFFICES ASSUME IInv, FinishGame PROVE IInv'
    OBVIOUS
  <1> DEFINE old == session.results
             own == Names(session.engines)
             results == [engines |-> old.engines \cup own, games |-> old.games + 1]
  <1>1. SessionOK /\ FilesOK /\ sessions \in Nat
    BY DEF IInv, FinishGame, Going
  <1>2. session' = [session EXCEPT !.results = results] /\ phase' = "running" /\ disk' = disk /\ sessions' = sessions
        /\ phase = "running"
    BY DEF FinishGame
  <1>3. old.games \in Nat /\ (old.games = 0 => old.engines = {}) /\ (old.games > 0 => old.engines = own)
    BY <1>1 DEF SessionOK, Accepted, StatsOK
  <1>4. results.engines = own /\ results.games \in Nat /\ results.games > 0
    BY <1>3
  <1> HIDE DEF results
  <1>5. /\ session'.config = session.config /\ session'.engines = session.engines
        /\ session'.results = results /\ session'.done = session.done /\ session'.book = session.book
        /\ session'.openings = session.openings /\ DOMAIN session' = DOMAIN session
    BY <1>1, <1>2 DEF SessionOK
  <1>6. StatsOK(results)
    BY <1>4 DEF StatsOK
  <1>7. Accepted(session.config, session.engines, results)
    BY <1>1, <1>4, <1>6 DEF SessionOK, Accepted
  <1>8. SessionOK'
    BY <1>1, <1>2, <1>5, <1>7 DEF SessionOK
  <1>9. FilesOK'
    BY <1>1, <1>2 DEF FilesOK
  <1>10. QED  BY <1>1, <1>2, <1>8, <1>9 DEF IInv, Going

LEMMA SavedFiles ==
    ASSUME FilesOK, SessionOK, saveJson
    PROVE  FilesOK'
  <1> DEFINE new == [config |-> session.config, engines |-> session.engines, stats |-> session.results]
  <1>1. disk' = [name \in DOMAIN disk \cup {Filename} |-> IF name = Filename THEN new ELSE disk[name]]
    BY DEF saveJson
  <1>2. Accepted(new.config, new.engines, new.stats)
    BY DEF SessionOK
  <1> HIDE DEF new
  <1>3. ASSUME NEW name \in DOMAIN disk'
        PROVE  Accepted(disk'[name].config, disk'[name].engines, disk'[name].stats)
    BY <1>1, <1>2 DEF FilesOK
  <1>4. QED  BY <1>3 DEF FilesOK

LEMMA AutosaveKeeps == IInv /\ Autosave => IInv'
  <1> SUFFICES ASSUME IInv, Autosave PROVE IInv'
    OBVIOUS
  <1>1. SessionOK /\ FilesOK /\ sessions \in Nat
    BY DEF IInv, Autosave, Going
  <1>2. phase' = "running" /\ phase = "running" /\ session' = session /\ sessions' = sessions
    BY DEF Autosave
  <1>3. FilesOK'
    BY <1>1, SavedFiles DEF Autosave
  <1>4. SessionOK'
    BY <1>1, <1>2 DEF SessionOK
  <1>5. QED  BY <1>1, <1>2, <1>3, <1>4 DEF IInv, Going

LEMMA EndKeeps == IInv /\ End => IInv'
  <1> SUFFICES ASSUME IInv, End PROVE IInv'
    OBVIOUS
  <1>1. SessionOK /\ FilesOK /\ sessions \in Nat
    BY DEF IInv, End, Going
  <1>2. phase' = "off" /\ session' = NoSession /\ sessions' = sessions
    BY DEF End
  <1>3. FilesOK'
    BY <1>1, SavedFiles DEF End
  <1>4. QED  BY <1>1, <1>2, <1>3 DEF IInv, Going

LEMMA StutterKeeps == IInv /\ UNCHANGED vars => IInv'
  <1> SUFFICES ASSUME IInv, UNCHANGED vars PROVE IInv'
    OBVIOUS
  <1>1. /\ phase' = phase /\ argv' = argv /\ argument_data' = argument_data /\ session' = session
        /\ disk' = disk /\ sessions' = sessions
    BY DEF vars
  <1>2. (Going => SessionOK) => (Going => SessionOK)'
    BY <1>1 DEF Going, SessionOK
  <1>3. FilesOK'
    BY <1>1 DEF IInv, FilesOK
  <1>4. QED  BY <1>1, <1>2, <1>3 DEF IInv, Going

LEMMA InitIInv == Init => IInv
  BY DEF Init, IInv, Going, FilesOK

LEMMA NextKeeps == IInv /\ [Next]_vars => IInv'
  BY BeginKeeps, ParseKeeps, ApplyVariantKeeps, StoppingKeeps, ConstructKeeps, CreateKeeps, FinishGameKeeps,
     AutosaveKeeps, EndKeeps, StutterKeeps DEF Next

\* What the options leave of the arguments, and what of a tournament that runs
\* or was saved (cli.cpp:588-623, sanitize.cpp, tournament.cpp:20-57).
THEOREM Invariant == Spec => []IInv
  BY InitIInv, NextKeeps, PTL DEF Spec

-----------------------------------------------------------------------------
(* The theorems.                                                           *)

\* Loading the file that a tournament saved and sanitizing it again refuses
\* nothing and changes nothing (cli.cpp:391-408, sanitize.cpp).
THEOREM ResumableAlways == Spec => []Resumable
  <1>1. IInv => Resumable
    <2> SUFFICES ASSUME IInv, NEW file \in DOMAIN disk,
                        NEW loaded, loaded = loadJson(NoArguments, disk[file])
                 PROVE  /\ ~RefusesTournament(loaded.tournament_config)
                        /\ SanitizedTournament(loaded.tournament_config) = disk[file].config
                        /\ ~RefusesEngines(loaded.configs)
                        /\ \A i \in DOMAIN loaded.configs :
                              loaded.configs[i].variant = loaded.tournament_config.variant
      BY DEF Resumable
    <2>1. Accepted(disk[file].config, disk[file].engines, disk[file].stats)
      BY DEF IInv, FilesOK
    <2>2. loaded.tournament_config = disk[file].config /\ loaded.configs = disk[file].engines
      BY DEF loadJson, NoArguments, NewArguments
    <2>3. QED  BY <2>1, <2>2 DEF Accepted, SameVariant
  <1>2. QED  BY <1>1, Invariant, PTL

\* No session counts games of other engines than its own (cli.cpp:413-430).
THEOREM ResultsAreOfTheseEngines == Spec => []ResultsOfTheseEngines
  <1>1. IInv => ResultsOfTheseEngines
    BY DEF IInv, SessionOK, Accepted, ResultsOfTheseEngines
  <1>2. QED  BY <1>1, Invariant, PTL

LEMMA AcceptedIsSound ==
    ASSUME NEW config, NEW engines, NEW results, Accepted(config, engines, results)
    PROVE  /\ config.games \in {1, 2} /\ config.ratinginterval # 0 /\ config.scoreinterval # 0
           /\ config.report_penta => PentaPossible(config)
           /\ config.concurrency \in 1..HardwareThreads
  <1> DEFINE fixed == WithGamesFixed(config)
  <1>1. SettingsOK(config) /\ ~(fixed.games > 2) /\ config.games # 0 /\ config.concurrency # 0
    BY DEF Accepted, RefusesTournament
  <1>2. config = SanitizedTournament(config)
    BY DEF Accepted
  <1>3. config.games > 2 => fixed = [config EXCEPT !.games = config.rounds, !.rounds = config.games]
    BY DEF WithGamesFixed
  <1>4. ~(config.games > 2) => fixed = config
    BY DEF WithGamesFixed
  <1>5. SettingsOK(fixed)
    <2> HIDE DEF fixed
    <2>1. QED  BY <1>1, <1>3, <1>4 DEF SettingsOK, Deciding
  <1>6. config = [fixed EXCEPT !.report_penta = fixed.report_penta /\ PentaPossible(fixed),
                               !.concurrency = IF fixed.concurrency < HardwareThreads THEN fixed.concurrency
                                               ELSE HardwareThreads,
                               !.ratinginterval = Interval(fixed.ratinginterval),
                               !.scoreinterval = Interval(fixed.scoreinterval)]
    BY <1>2 DEF SanitizedTournament
  <1> HIDE DEF fixed
  <1>7. config.games = fixed.games
    BY <1>5, <1>6 DEF SettingsOK, Deciding
  <1>8. config.games \in {1, 2}
    BY <1>1, <1>7 DEF SettingsOK
  <1>9. fixed = config
    BY <1>4, <1>8
  <1>10. config.ratinginterval = Interval(fixed.ratinginterval) /\ config.scoreinterval = Interval(fixed.scoreinterval)
    BY <1>5, <1>6 DEF SettingsOK, Deciding
  <1>11. config.ratinginterval # 0 /\ config.scoreinterval # 0
    BY <1>10, ConfigurationAssumption DEF Interval
  <1>12. config.report_penta <=> (fixed.report_penta /\ PentaPossible(fixed))
    BY <1>5, <1>6 DEF SettingsOK, Deciding
  <1>13. config.concurrency = IF fixed.concurrency < HardwareThreads THEN fixed.concurrency ELSE HardwareThreads
    BY <1>5, <1>6 DEF SettingsOK, Deciding
  <1>14. config.concurrency \in 1..HardwareThreads
    BY <1>1, <1>5, <1>13, ConfigurationAssumption DEF SettingsOK
  <1>15. QED  BY <1>8, <1>9, <1>11, <1>12, <1>14

LEMMA AcceptedEngines ==
    ASSUME NEW config, NEW engines, NEW results, Accepted(config, engines, results)
    PROVE  /\ Len(engines) = 2 /\ DOMAIN engines = 1..2 /\ engines[1].name # engines[2].name
           /\ \A i \in {1, 2} : engines[i].variant = config.variant /\ Limited(engines[i].limit)
  <1>1. Len(engines) = 2 /\ EnginesOK(engines) /\ SameVariant(config, engines) /\ ~RefusesEngines(engines)
    BY DEF Accepted, RefusesEngines
  <1>2. DOMAIN engines = 1..2
    BY <1>1 DEF EnginesOK, Listed
  <1>3. 2 \in DOMAIN engines /\ 1 \in 1..(2 - 1)
    BY <1>2
  <1>4. engines[2].name # engines[1].name
    BY <1>1, <1>3 DEF RefusesEngines
  <1>5. ASSUME NEW i \in {1, 2}
        PROVE  engines[i].variant = config.variant /\ Limited(engines[i].limit)
    <2>1. i \in DOMAIN engines
      BY <1>2
    <2>2. ~BadLimit(engines[i].limit)
      BY <1>1, <2>1 DEF RefusesEngines
    <2>3. Limited(engines[i].limit)
      BY <2>2 DEF BadLimit, Limited
    <2>4. QED  BY <1>1, <2>1, <2>3 DEF SameVariant
  <1>6. QED  BY <1>1, <1>2, <1>4, <1>5

\* Whatever was given on the command line, what starts can be played (sanitize.cpp:15-124).
THEOREM StartsSoundAlways == Spec => []StartsSound
  <1>1. IInv => StartsSound
    <2> SUFFICES ASSUME IInv, session # NoSession PROVE StartsSound
      BY DEF StartsSound
    <2>1. Accepted(session.config, session.engines, session.results)
      BY DEF IInv, SessionOK
    <2> DEFINE config == session.config
               engines == session.engines
    <2>2. /\ config.games \in {1, 2} /\ config.ratinginterval # 0 /\ config.scoreinterval # 0
          /\ config.report_penta => PentaPossible(config)
          /\ config.concurrency \in 1..HardwareThreads
      BY <2>1, AcceptedIsSound
    <2>3. /\ Len(engines) = 2 /\ engines[1].name # engines[2].name
          /\ \A i \in {1, 2} : engines[i].variant = config.variant /\ Limited(engines[i].limit)
      BY <2>1, AcceptedEngines
    <2>4. QED  BY <2>2, <2>3 DEF StartsSound, PentaPossible
  <1>2. QED  BY <1>1, Invariant, PTL

-----------------------------------------------------------------------------
(* The book.                                                               *)

\* g is what the loop over the lines has after each of the first n.
ReadingLines(lines, n, g) ==
    g = [i \in 0..n |-> IF i = 0 THEN << >>
                        ELSE IF lines[i] = "" THEN g[i - 1]
                        ELSE Append(g[i - 1], [fen |-> lines[i], moves |-> << >>])]

\* One line more.
LineRead(lines, i, book) ==
    IF lines[i] = "" THEN book ELSE Append(book, [fen |-> lines[i], moves |-> << >>])

LEMMA LinesAsSteps ==
    ASSUME NEW lines, NEW n \in Nat, NEW g
    PROVE  ReadingLines(lines, n, g) <=>
               g = [i \in 0..n |-> IF i = 0 THEN << >> ELSE LineRead(lines, i, g[i - 1])]
  <1>1. \A i \in 0..n : (IF i = 0 THEN << >>
                         ELSE IF lines[i] = "" THEN g[i - 1]
                         ELSE Append(g[i - 1], [fen |-> lines[i], moves |-> << >>]))
                      = (IF i = 0 THEN << >> ELSE LineRead(lines, i, g[i - 1]))
    BY DEF LineRead
  <1>2. [i \in 0..n |-> IF i = 0 THEN << >>
                        ELSE IF lines[i] = "" THEN g[i - 1]
                        ELSE Append(g[i - 1], [fen |-> lines[i], moves |-> << >>])]
      = [i \in 0..n |-> IF i = 0 THEN << >> ELSE LineRead(lines, i, g[i - 1])]
    BY <1>1
  <1>3. QED  BY <1>2 DEF ReadingLines

LEMMA ReadingLinesExists ==
    ASSUME NEW lines, NEW n \in Nat
    PROVE  \E g : ReadingLines(lines, n, g)
  <1> DEFINE S == {k \in 0..n : \E g : ReadingLines(lines, k, g)}
  <1>1. 0 \in S
    <2> DEFINE h == [i \in 0..0 |-> << >>]
    <2>1. h = [i \in 0..0 |-> IF i = 0 THEN << >> ELSE LineRead(lines, i, h[i - 1])]
      OBVIOUS
    <2> HIDE DEF h
    <2>2. ReadingLines(lines, 0, h)
      BY <2>1, LinesAsSteps
    <2>3. QED  BY <2>2
  <1>2. ASSUME NEW k \in 0..(n - 1), k \in S PROVE k + 1 \in S
    <2>1. PICK g : ReadingLines(lines, k, g)
      BY <1>2
    <2> DEFINE h == [i \in 0..(k + 1) |-> IF i <= k THEN g[i] ELSE LineRead(lines, k + 1, g[k])]
    <2>2. g = [i \in 0..k |-> IF i = 0 THEN << >> ELSE LineRead(lines, i, g[i - 1])]
      BY <2>1, LinesAsSteps
    <2>3. \A i \in 0..k : g[i] = IF i = 0 THEN << >> ELSE LineRead(lines, i, g[i - 1])
      BY <2>2
    <2>4. ASSUME NEW i \in 0..(k + 1)
          PROVE  h[i] = IF i = 0 THEN << >> ELSE LineRead(lines, i, h[i - 1])
      <3>1. CASE i = k + 1
        <4>1. h[i] = LineRead(lines, k + 1, g[k]) /\ h[i - 1] = g[k] /\ i # 0
          BY <3>1
        <4>2. QED  BY <3>1, <4>1
      <3>2. CASE i = 0
        BY <2>3, <3>2
      <3>3. CASE i \in 1..k
        <4>1. h[i] = g[i] /\ h[i - 1] = g[i - 1] /\ i # 0
          BY <3>3
        <4>2. QED  BY <2>3, <3>3, <4>1
      <3>4. QED  BY <3>1, <3>2, <3>3
    <2>5. h = [i \in 0..(k + 1) |-> h[i]]
      OBVIOUS
    <2> HIDE DEF h
    <2>6. h = [i \in 0..(k + 1) |-> IF i = 0 THEN << >> ELSE LineRead(lines, i, h[i - 1])]
      BY <2>4, <2>5
    <2>7. ReadingLines(lines, k + 1, h)
      BY <2>6, LinesAsSteps
    <2>8. k + 1 \in 0..n
      OBVIOUS
    <2>9. QED  BY <2>7, <2>8
  <1> HIDE DEF S
  <1>3. n \in S
    BY <1>1, <1>2, Inductive
  <1>4. QED  BY <1>3 DEF S

LEMMA LinesListed ==
    ASSUME NEW lines, Len(lines) \in Nat
    PROVE  Listed(OfLines(lines)) /\ Len(OfLines(lines)) <= Len(lines)
  <1> DEFINE g == CHOOSE h : ReadingLines(lines, Len(lines), h)
  <1>1. ReadingLines(lines, Len(lines), g)
    BY ReadingLinesExists
  <1>2. OfLines(lines) = g[Len(lines)]
    BY DEF OfLines, ReadingLines
  <1> HIDE DEF g
  <1>3. g = [i \in 0..Len(lines) |-> IF i = 0 THEN << >> ELSE LineRead(lines, i, g[i - 1])]
    BY <1>1, LinesAsSteps
  <1> DEFINE S == {i \in 0..Len(lines) : Listed(g[i]) /\ Len(g[i]) <= i}
  <1>4. 0 \in S
    <2>1. g[0] = << >>
      BY <1>3
    <2>2. Listed(<< >>) /\ Len(<< >>) = 0
      BY DEF Listed
    <2>3. QED  BY <2>1, <2>2
  <1>5. ASSUME NEW i \in 0..(Len(lines) - 1), i \in S PROVE i + 1 \in S
    <2>1. i + 1 \in 0..Len(lines) /\ i + 1 # 0 /\ (i + 1) - 1 = i
      OBVIOUS
    <2>2. g[i + 1] = LineRead(lines, i + 1, g[i])
      BY <1>3, <2>1
    <2>3. Listed(LineRead(lines, i + 1, g[i])) /\ Len(LineRead(lines, i + 1, g[i])) <= i + 1
      <3>1. Listed(g[i]) /\ Len(g[i]) <= i
        BY <1>5
      <3>2. PICK a, e : /\ a = Append(g[i], e)
                        /\ LineRead(lines, i + 1, g[i]) = IF lines[i + 1] = "" THEN g[i] ELSE a
        BY DEF LineRead
      <3>3. Listed(a) /\ Len(g[i]) \in Nat /\ Len(a) = Len(g[i]) + 1
        BY <3>1, <3>2, OneMore
      <3> DEFINE b == LineRead(lines, i + 1, g[i])
      <3>4. b = g[i] \/ b = a
        BY <3>2
      <3> HIDE DEF b
      <3>5. i \in Nat /\ Len(g[i]) <= i + 1 /\ Len(a) <= i + 1
        BY <3>1, <3>3
      <3>6. Listed(b) /\ Len(b) <= i + 1
        BY <3>1, <3>3, <3>4, <3>5
      <3>7. QED  BY <3>6 DEF b
    <2>4. QED  BY <2>1, <2>2, <2>3
  <1> HIDE DEF S
  <1>6. 0..Len(lines) \subseteq S
    BY <1>4, <1>5, Inductive
  <1>7. Len(lines) \in S
    BY <1>6
  <1>8. QED  BY <1>2, <1>7 DEF S

\* g is what the loop of shuffle() has after each of the first m places.
Shuffling(book, rand, m, g) ==
    g = [i \in 0..m |-> IF i = 0 THEN book
                        ELSE Exchanged(g[i - 1], i, i + (rand[i] % (Len(book) - i + 1)))]

LEMMA ShufflingExists ==
    ASSUME NEW book, NEW rand, NEW m \in Nat
    PROVE  \E g : Shuffling(book, rand, m, g)
  <1> DEFINE S == {k \in 0..m : \E g : Shuffling(book, rand, k, g)}
             next(i, b) == Exchanged(b, i, i + (rand[i] % (Len(book) - i + 1)))
  <1> HIDE DEF next
  <1>1. 0 \in S
    <2> DEFINE h == [i \in 0..0 |-> book]
    <2>1. h = [i \in 0..0 |-> IF i = 0 THEN book ELSE next(i, h[i - 1])]
      OBVIOUS
    <2> HIDE DEF h
    <2>2. Shuffling(book, rand, 0, h)
      BY <2>1 DEF Shuffling, next
    <2>3. QED  BY <2>2
  <1>2. ASSUME NEW k \in 0..(m - 1), k \in S PROVE k + 1 \in S
    <2>1. PICK g : Shuffling(book, rand, k, g)
      BY <1>2
    <2> DEFINE h == [i \in 0..(k + 1) |-> IF i <= k THEN g[i] ELSE next(k + 1, g[k])]
    <2>2. g = [i \in 0..k |-> IF i = 0 THEN book ELSE next(i, g[i - 1])]
      BY <2>1 DEF Shuffling, next
    <2>3. \A i \in 0..k : g[i] = IF i = 0 THEN book ELSE next(i, g[i - 1])
      BY <2>2
    <2>4. ASSUME NEW i \in 0..(k + 1)
          PROVE  h[i] = IF i = 0 THEN book ELSE next(i, h[i - 1])
      <3>1. CASE i = k + 1
        <4>1. h[i] = next(k + 1, g[k]) /\ h[i - 1] = g[k] /\ i # 0
          BY <3>1
        <4>2. QED  BY <3>1, <4>1
      <3>2. CASE i = 0
        BY <2>3, <3>2
      <3>3. CASE i \in 1..k
        <4>1. h[i] = g[i] /\ h[i - 1] = g[i - 1] /\ i # 0
          BY <3>3
        <4>2. QED  BY <2>3, <3>3, <4>1
      <3>4. QED  BY <3>1, <3>2, <3>3
    <2>5. h = [i \in 0..(k + 1) |-> h[i]]
      OBVIOUS
    <2> HIDE DEF h
    <2>6. h = [i \in 0..(k + 1) |-> IF i = 0 THEN book ELSE next(i, h[i - 1])]
      BY <2>4, <2>5
    <2>7. Shuffling(book, rand, k + 1, h)
      BY <2>6 DEF Shuffling, next
    <2>8. k + 1 \in 0..m
      OBVIOUS
    <2>9. QED  BY <2>7, <2>8
  <1> HIDE DEF S
  <1>3. m \in S
    BY <1>1, <1>2, Inductive
  <1>4. QED  BY <1>3 DEF S

\* A shuffled book has the places of the book.
LEMMA ShuffleListed ==
    ASSUME NEW book, Listed(book), NEW rand
    PROVE  Listed(shuffle(book, rand)) /\ Len(shuffle(book, rand)) = Len(book)
  <1> DEFINE n == Len(book)
             g == CHOOSE h : Shuffling(book, rand, n, h)
  <1>1. n \in Nat /\ DOMAIN book = 1..n /\ book = [i \in 1..n |-> book[i]] /\ (book # << >> => n # 0)
    BY DEF Listed
  <1>2. Shuffling(book, rand, n, g)
    BY <1>1, ShufflingExists
  <1>3. shuffle(book, rand) = IF book = << >> THEN book ELSE g[n - 1]
    BY DEF shuffle, Shuffling
  <1> HIDE DEF g, n
  <1>4. g = [i \in 0..n |-> IF i = 0 THEN book ELSE Exchanged(g[i - 1], i, i + (rand[i] % (Len(book) - i + 1)))]
    BY <1>2 DEF Shuffling
  <1> DEFINE S == {i \in 0..n : DOMAIN g[i] = 1..n /\ g[i] = [j \in 1..n |-> g[i][j]]}
  <1>5. 0 \in S
    BY <1>1, <1>4
  <1>6. ASSUME NEW i \in 0..(n - 1), i \in S PROVE i + 1 \in S
    <2>1. i + 1 \in 0..n /\ i + 1 # 0 /\ (i + 1) - 1 = i
      BY <1>1
    <2>2. PICK j : g[i + 1] = Exchanged(g[i], i + 1, j)
      BY <1>4, <2>1
    <2>3. DOMAIN g[i] = 1..n
      BY <1>6
    <2>4. g[i + 1] = [[g[i] EXCEPT ![i + 1] = g[i][j]] EXCEPT ![j] = g[i][i + 1]]
      BY <2>2 DEF Exchanged
    <2>5. DOMAIN g[i + 1] = 1..n /\ g[i + 1] = [k \in 1..n |-> g[i + 1][k]]
      BY <2>3, <2>4
    <2>6. QED  BY <2>1, <2>5
  <1> HIDE DEF S
  <1>7. 0..n \subseteq S
    BY <1>1, <1>5, <1>6, Inductive
  <1>8. CASE book = << >>
    BY <1>3, <1>8
  <1>9. CASE book # << >>
    <2>1. n - 1 \in S
      BY <1>1, <1>7, <1>9
    <2> DEFINE b == g[n - 1]
    <2>2. DOMAIN b = 1..n /\ b = [j \in 1..n |-> b[j]]
      BY <2>1 DEF S
    <2> HIDE DEF b
    <2>3. b \in Seq({b[j] : j \in DOMAIN b}) /\ Len(b) = n
      BY <1>1, <2>2
    <2>4. shuffle(book, rand) = b
      BY <1>3, <1>9 DEF b
    <2>5. QED  BY <2>3, <2>4 DEF Listed, n
  <1>10. QED  BY <1>8, <1>9

\* A place for each place.
OneToOne(p, n) == p \in [1..n -> 1..n] /\ \A j, k \in 1..n : p[j] = p[k] => j = k

LEMMA ExchangedPlaces ==
    ASSUME NEW n \in Nat, NEW p, OneToOne(p, n), NEW i \in 1..n, NEW j \in 1..n,
           NEW q, q = [k \in 1..n |-> IF k = j THEN p[i] ELSE IF k = i THEN p[j] ELSE p[k]]
    PROVE  OneToOne(q, n)
  BY DEF OneToOne

\* What is drawn for a place is that place or a later one.
LEMMA Drawn ==
    ASSUME NEW n \in Nat, NEW i \in 1..(n - 1), NEW r \in Nat
    PROVE  i + (r % (n - i + 1)) \in 1..n
  <1> DEFINE m == n - i + 1
  <1>1. m \in Nat \ {0}
    OBVIOUS
  <1> HIDE DEF m
  <1>2. (r % m) \in 0..(m - 1)
    BY <1>1
  <1> DEFINE x == r % m
  <1>3. x \in 0..(m - 1)
    BY <1>2
  <1> HIDE DEF x
  <1>4. i + x \in 1..n
    BY <1>3 DEF m
  <1>5. QED  BY <1>4 DEF x, m

\* A shuffled book has the openings of the book, each at a place of its own.
LEMMA Shuffled ==
    ASSUME NEW book, Listed(book), book # << >>, NEW rand, \A i \in 1..(Len(book) - 1) : rand[i] \in Nat
    PROVE  \E p : /\ OneToOne(p, Len(book))
                  /\ \A k \in 1..Len(book) : shuffle(book, rand)[k] = book[p[k]]
  <1> DEFINE n == Len(book)
             g == CHOOSE h : Shuffling(book, rand, n, h)
  <1>1. n \in Nat \ {0} /\ DOMAIN book = 1..n
    BY DEF Listed
  <1>2. Shuffling(book, rand, n, g)
    BY <1>1, ShufflingExists
  <1>3. shuffle(book, rand) = g[n - 1]
    BY DEF shuffle, Shuffling
  <1>4. \A i \in 1..(n - 1) : rand[i] \in Nat
    OBVIOUS
  <1> HIDE DEF g, n
  <1>5. g = [i \in 0..n |-> IF i = 0 THEN book ELSE Exchanged(g[i - 1], i, i + (rand[i] % (n - i + 1)))]
    BY <1>2 DEF Shuffling, n
  <1> DEFINE S == {i \in 0..(n - 1) : /\ DOMAIN g[i] = 1..n
                                      /\ \E p : OneToOne(p, n) /\ \A k \in 1..n : g[i][k] = book[p[k]]}
  <1>6. 0 \in S
    <2> DEFINE p == [k \in 1..n |-> k]
    <2>1. OneToOne(p, n)
      BY DEF OneToOne
    <2>2. g[0] = book
      BY <1>1, <1>5
    <2>3. \A k \in 1..n : book[k] = book[p[k]]
      OBVIOUS
    <2> HIDE DEF p
    <2>4. QED  BY <1>1, <2>1, <2>2, <2>3
  <1>7. ASSUME NEW i \in 0..((n - 1) - 1), i \in S PROVE i + 1 \in S
    <2> DEFINE a == i + 1
               j == a + (rand[a] % (n - a + 1))
               b == g[i]
               c == g[a]
    <2>1. a \in 1..(n - 1) /\ a \in 0..n /\ a # 0 /\ a - 1 = i /\ a \in 1..n
      BY <1>1
    <2>2. c = Exchanged(b, a, j)
      BY <1>5, <2>1
    <2>3. j \in 1..n
      BY <1>1, <1>4, <2>1, Drawn
    <2>4. DOMAIN b = 1..n
      BY <1>7
    <2>5. PICK p : OneToOne(p, n) /\ \A k \in 1..n : b[k] = book[p[k]]
      BY <1>7
    <2> HIDE DEF a, j, b, c
    <2>6. c = [[b EXCEPT ![a] = b[j]] EXCEPT ![j] = b[a]]
      BY <2>2 DEF Exchanged
    <2>7. DOMAIN c = 1..n /\ \A k \in 1..n : c[k] = IF k = j THEN b[a] ELSE IF k = a THEN b[j] ELSE b[k]
      BY <2>1, <2>3, <2>4, <2>6
    <2> DEFINE q == [k \in 1..n |-> IF k = j THEN p[a] ELSE IF k = a THEN p[j] ELSE p[k]]
    <2>8. OneToOne(q, n)
      BY <1>1, <2>1, <2>3, <2>5, ExchangedPlaces
    <2>9. \A k \in 1..n : c[k] = book[q[k]]
      BY <2>1, <2>3, <2>5, <2>7
    <2> HIDE DEF q
    <2>10. QED  BY <2>1, <2>7, <2>8, <2>9 DEF a, c
  <1> HIDE DEF S
  <1>8. n - 1 \in S
    <2>1. n - 1 \in Nat
      BY <1>1
    <2> DEFINE m == n - 1
    <2>2. m \in Nat /\ \A i \in 0..(m - 1) : i \in S => i + 1 \in S
      BY <1>7, <2>1
    <2> HIDE DEF m
    <2>3. 0..m \subseteq S
      BY <1>6, <2>2, Inductive
    <2>4. m \in S
      BY <2>2, <2>3
    <2>5. QED  BY <2>4 DEF m
  <1>9. \E p : OneToOne(p, n) /\ \A k \in 1..n : g[n - 1][k] = book[p[k]]
    BY <1>8 DEF S
  <1>10. QED  BY <1>3, <1>9 DEF n

\* What setup() reads.
LEMMA BookRead ==
    ASSUME NEW config, OpeningOK(config.opening), HasBook(config.opening), ~NoOpenings(config),
           config.seed \in DOMAIN Rand, NEW book, book = Read(config.opening)
    PROVE  /\ Listed(book) /\ Len(book) \in Nat \ {0} /\ DOMAIN book = 1..Len(book) /\ book # << >>
           /\ \A i \in 1..(Len(book) - 1) : Rand[config.seed][i] \in Nat
  <1> DEFINE o == config.opening
             file == Library[o.file]
             rand == Rand[config.seed]
  <1>1. o.file \in DOMAIN Library /\ book # << >>
    BY DEF OpeningOK, HasBook, NoOpenings
  <1>2. /\ Len(file["games"]) \in Nat /\ DOMAIN file["games"] = 1..Len(file["games"])
        /\ Len(file["lines"]) \in Nat
        /\ \A part \in {"games", "lines"} : \A i \in 1..(Len(file[part]) - 1) : rand[i] \in Nat
    BY <1>1, OpeningBookAssumption
  <1> HIDE DEF file, rand
  <1>3. Listed(getOpenings(file["games"], o.plies)) /\ Len(getOpenings(file["games"], o.plies)) = Len(file["games"])
    <2> DEFINE games == file["games"]
               a == getOpenings(games, o.plies)
    <2>1. DOMAIN a = 1..Len(games) /\ a = [i \in 1..Len(games) |-> a[i]] /\ Len(games) \in Nat
      BY <1>2 DEF getOpenings
    <2> HIDE DEF a
    <2>2. a \in Seq({a[i] : i \in DOMAIN a}) /\ Len(a) = Len(games)
      BY <2>1
    <2>3. QED  BY <2>2 DEF Listed, a
  <1>4. Listed(OfLines(file["lines"])) /\ Len(OfLines(file["lines"])) <= Len(file["lines"])
    BY <1>2, LinesListed
  <1>5. \E part \in {"games", "lines"} : Listed(book) /\ Len(book) <= Len(file[part]) /\ Len(file[part]) \in Nat
    <2>1. book = IF o.format = "pgn" THEN getOpenings(file["games"], o.plies) ELSE OfLines(file["lines"])
      BY DEF Read, file
    <2>2. CASE o.format = "pgn"
      BY <1>2, <1>3, <2>1, <2>2
    <2>3. CASE o.format # "pgn"
      BY <1>2, <1>4, <2>1, <2>3
    <2>4. QED  BY <2>2, <2>3
  <1>6. Len(book) \in Nat \ {0} /\ DOMAIN book = 1..Len(book)
    BY <1>1, <1>5 DEF Listed
  <1>7. \A i \in 1..(Len(book) - 1) : rand[i] \in Nat
    BY <1>2, <1>5, <1>6
  <1>8. QED  BY <1>1, <1>5, <1>6, <1>7 DEF rand

\* The book as a whole has the openings that were read, each at a place of its own.
LEMMA BookIndexed ==
    ASSUME NEW config, OpeningOK(config.opening), HasBook(config.opening), ~NoOpenings(config),
           config.seed \in DOMAIN Rand, NEW book, book = Read(config.opening)
    PROVE  /\ Listed(Indexed(config)) /\ Len(Indexed(config)) = Len(book)
           /\ \E p : OneToOne(p, Len(book)) /\ \A k \in 1..Len(book) : Indexed(config)[k] = book[p[k]]
  <1> DEFINE rand == Rand[config.seed]
             n == Len(book)
  <1>1. Listed(book) /\ n \in Nat \ {0} /\ book # << >>
    BY BookRead
  <1>2. \A i \in 1..(Len(book) - 1) : rand[i] \in Nat
    BY BookRead
  <1>3. Indexed(config) = IF config.opening.order = "random" THEN shuffle(book, rand) ELSE book
    BY DEF Indexed
  <1> HIDE DEF rand, n
  <1>4. Listed(book)
    BY <1>1
  <1>5. book # << >>
    BY <1>1
  <1>6. Listed(shuffle(book, rand)) /\ Len(shuffle(book, rand)) = Len(book)
    BY <1>4, ShuffleListed
  <1>7. \E p : OneToOne(p, Len(book)) /\ \A k \in 1..Len(book) : shuffle(book, rand)[k] = book[p[k]]
    BY <1>4, <1>5, <1>2, Shuffled
  <1>8. \E p : OneToOne(p, Len(book)) /\ \A k \in 1..Len(book) : book[k] = book[p[k]]
    <2> DEFINE p == [k \in 1..n |-> k]
    <2>1. OneToOne(p, n)
      BY DEF OneToOne
    <2>2. \A k \in 1..n : book[k] = book[p[k]]
      OBVIOUS
    <2> HIDE DEF p
    <2>3. QED  BY <2>1, <2>2 DEF n
  <1>9. CASE config.opening.order = "random"
    BY <1>3, <1>6, <1>7, <1>9
  <1>10. CASE config.opening.order # "random"
    BY <1>1, <1>3, <1>8, <1>10
  <1>11. QED  BY <1>9, <1>10

-----------------------------------------------------------------------------
(* The opening of a round.                                                 *)

LEMMA Small ==
    ASSUME NEW n \in Nat, NEW i \in Nat, i < n
    PROVE  i % n = i
  OBVIOUS

LEMMA Divided ==
    ASSUME NEW n \in Nat \ {0}, NEW i \in Nat
    PROVE  i = n * (i \div n) + (i % n) /\ (i \div n) \in Nat /\ (i % n) \in 0..(n - 1)
  OBVIOUS

LEMMA Distributes ==
    ASSUME NEW n \in Int, NEW q \in Int, NEW d \in Int
    PROVE  n * (q + d) = n * q + n * d
  OBVIOUS

LEMMA OneRemainder ==
    ASSUME NEW n \in Nat \ {0}, NEW q \in Int, NEW r \in 0..(n - 1), NEW s \in Int, NEW t \in 0..(n - 1),
           n * q + r = n * s + t
    PROVE  r = t
  <1>1. ASSUME NEW a \in Int, NEW b \in Int, a > b
        PROVE  n * a >= n * b + n
    <2>1. a - b >= 1
      BY <1>1
    <2>2. n * (a - b) >= n
      BY <2>1
    <2>3. QED  BY <2>2
  <1>2. q > s => FALSE
    BY <1>1
  <1>3. s > q => FALSE
    BY <1>1
  <1>4. QED  BY <1>2, <1>3

LEMMA RemainderOfSum ==
    ASSUME NEW n \in Nat \ {0}, NEW i \in Nat, NEW o \in Nat
    PROVE  ((i % n) + o) % n = (i + o) % n
  <1> DEFINE q == i \div n
             r == i % n
             a == r + o
             b == i + o
             d == a \div n
             x == a % n
             y == b % n
  <1>1. i = n * q + r /\ q \in Nat /\ r \in 0..(n - 1)
    BY Divided
  <1> HIDE DEF q, r
  <1>2. a \in Nat /\ b \in Nat
    BY <1>1
  <1>3. b = n * q + a
    BY <1>1
  <1> HIDE DEF a, b
  <1>4. a = n * d + x /\ d \in Nat /\ x \in 0..(n - 1)
    BY <1>2, Divided
  <1>5. b = n * (b \div n) + y /\ (b \div n) \in Int /\ y \in 0..(n - 1)
    BY <1>2, Divided
  <1> HIDE DEF d, x, y
  <1>6. n * (q + d) = n * q + n * d /\ q + d \in Int
    BY <1>1, <1>4, Distributes
  <1>7. n * q \in Int /\ n * d \in Int
    BY <1>1, <1>4
  <1>8. b = n * (q + d) + x
    BY <1>3, <1>4, <1>6, <1>7
  <1>9. x = y
    BY <1>4, <1>5, <1>6, <1>8, OneRemainder
  <1>10. QED  BY <1>9 DEF a, b, r, x, y

\* Numbers less than n apart have different remainders.
LEMMA CloseRemainders ==
    ASSUME NEW n \in Nat \ {0}, NEW i \in Nat, NEW j \in Nat, i < j, j - i < n
    PROVE  i % n # j % n
  <1> SUFFICES ASSUME i % n = j % n PROVE FALSE
    OBVIOUS
  <1> DEFINE q == i \div n
             s == j \div n
             r == i % n
  <1>1. i = n * q + r /\ j = n * s + r /\ q \in Nat /\ s \in Nat /\ r \in 0..(n - 1)
    BY Divided
  <1> HIDE DEF q, s, r
  <1>2. ASSUME NEW a \in Int, NEW b \in Int, a >= b
        PROVE  n * a >= n * b
    <2>1. n * (a - b) >= 0
      BY <1>2
    <2>2. QED  BY <2>1
  <1>3. CASE s <= q
    <2>1. n * q >= n * s
      BY <1>1, <1>2, <1>3
    <2>2. n * q \in Int /\ n * s \in Int
      BY <1>1
    <2> DEFINE x == n * q
               y == n * s
    <2>3. x \in Int /\ y \in Int /\ x >= y /\ i = x + r /\ j = y + r
      BY <1>1, <2>1, <2>2
    <2> HIDE DEF x, y
    <2>4. QED  BY <1>1, <2>3
  <1>4. CASE s >= q + 1
    <2>1. n * s >= n * (q + 1) /\ n * (q + 1) = n * q + n
      BY <1>1, <1>2, <1>4
    <2>2. n * q \in Int /\ n * s \in Int
      BY <1>1
    <2> DEFINE x == n * q
               y == n * s
    <2>3. x \in Int /\ y \in Int /\ y >= x + n /\ i = x + r /\ j = y + r
      BY <1>1, <2>1, <2>2
    <2> HIDE DEF x, y
    <2>4. QED  BY <1>1, <2>3
  <1>5. QED  BY <1>1, <1>3, <1>4

\* So a tournament goes through the whole book before an opening comes again.
LEMMA OnceThroughTheBook ==
    ASSUME NEW config, SettingsOK(config), ~NoOpenings(config)
    PROVE  EachOpeningOnce(config)
  <1> SUFFICES ASSUME HasBook(config.opening) PROVE EachOpeningOnce(config)
    BY DEF EachOpeningOnce
  <1> DEFINE book == Read(config.opening)
             n == Len(book)
             first == config.opening.start - 1
             rounds == 0..(config.rounds - 1)
             turn(k) == ((first + k) % n) + 1
  <1>1. config.rounds \in Nat /\ OpeningOK(config.opening) /\ config.seed \in DOMAIN Rand
    BY DEF SettingsOK
  <1>2. n \in Nat \ {0} /\ DOMAIN book = 1..n
    BY <1>1, BookRead
  <1>3. Len(Indexed(config)) = n
    BY <1>1, BookIndexed
  <1>4. \E p : OneToOne(p, n) /\ \A k \in 1..n : Indexed(config)[k] = book[p[k]]
    BY <1>1, BookIndexed
  <1>5. PICK p : OneToOne(p, n) /\ \A k \in 1..n : Indexed(config)[k] = book[p[k]]
    BY <1>4
  <1>6. first \in Nat
    <2>1. config.opening.start \in Nat \ {0}
      BY <1>1 DEF OpeningOK
    <2>2. QED  BY <2>1
  <1>7. \A k \in rounds : OpeningOfRound(config, k) = Indexed(config)[turn(k)]
    BY <1>3 DEF OpeningOfRound
  <1> DEFINE place == [k \in rounds |-> p[turn(k)]]
  <1> HIDE DEF book, n, first
  <1>8. ASSUME NEW k \in rounds PROVE turn(k) \in 1..n
    <2>1. first + k \in Nat
      BY <1>6
    <2> DEFINE x == (first + k) % n
    <2>2. x \in 0..(n - 1)
      BY <1>2, <2>1, Divided
    <2> HIDE DEF x
    <2>3. x + 1 \in 1..n
      BY <1>2, <2>2
    <2>4. QED  BY <2>3 DEF x
  <1>9. ASSUME NEW k \in rounds, NEW j \in rounds, j < k, k - j < n PROVE turn(j) # turn(k)
    <2>1. first + j \in Nat /\ first + k \in Nat /\ first + j < first + k /\ (first + k) - (first + j) < n
      BY <1>6, <1>9
    <2>2. (first + j) % n # (first + k) % n
      BY <1>2, <2>1, CloseRemainders
    <2> DEFINE x == (first + j) % n
               y == (first + k) % n
    <2>3. x \in 0..(n - 1) /\ y \in 0..(n - 1) /\ x # y
      BY <1>2, <2>1, <2>2, Divided
    <2> HIDE DEF x, y
    <2>4. x + 1 # y + 1
      BY <2>3
    <2>5. QED  BY <2>4 DEF x, y
  <1> HIDE DEF turn
  <1>10. place \in [rounds -> DOMAIN book]
    BY <1>2, <1>5, <1>8 DEF OneToOne
  <1>11. ASSUME NEW k \in rounds
         PROVE  /\ OpeningOfRound(config, k) = book[place[k]]
                /\ \A j \in rounds : j < k /\ k - j < Len(book) => place[j] # place[k]
    <2>1. place[k] = p[turn(k)] /\ \A j \in rounds : place[j] = p[turn(j)]
      OBVIOUS
    <2> HIDE DEF place
    <2>2. OpeningOfRound(config, k) = book[place[k]]
      BY <1>5, <1>7, <1>8, <2>1
    <2>3. ASSUME NEW j \in rounds, j < k, k - j < Len(book) PROVE place[j] # place[k]
      <3> DEFINE x == turn(j)
                 y == turn(k)
      <3>1. x \in 1..n /\ y \in 1..n
        BY <1>8
      <3>2. x # y
        BY <1>9, <2>3 DEF n
      <3>3. place[j] = p[x] /\ place[k] = p[y]
        BY <2>1
      <3> HIDE DEF x, y
      <3>4. QED  BY <1>5, <3>1, <3>2, <3>3 DEF OneToOne
    <2>4. QED  BY <2>2, <2>3
  <1> HIDE DEF place
  <1>12. QED  BY <1>10, <1>11 DEF EachOpeningOnce, book

\* The i-th opening of a session whose first one is at the offset.
LEMMA OpeningOfBook ==
    ASSUME NEW book, Listed(book), Len(book) \in Nat \ {0}, NEW offset \in Nat, NEW rounds \in Nat,
           NEW i \in 0..(rounds - 1)
    PROVE  OpeningAt(truncate(rotate(book, offset), rounds), i) = book[((i + offset) % Len(book)) + 1]
  <1> DEFINE n == Len(book)
             turned == rotate(book, offset)
             cut == truncate(turned, rounds)
  <1>1. n \in Nat \ {0} /\ DOMAIN book = 1..n
    BY DEF Listed
  <1>2. turned = [k \in 1..n |-> book[((k - 1 + offset) % n) + 1]]
    BY <1>1 DEF rotate
  <1> HIDE DEF n, turned
  <1>3. DOMAIN turned = 1..n /\ turned = [k \in 1..n |-> turned[k]] /\ i \in Nat
    BY <1>2
  <1>4. Len(turned) = n /\ DOMAIN turned = 1..n /\ turned \in Seq({turned[k] : k \in DOMAIN turned})
    BY <1>1, <1>3
  <1>5. CASE n > rounds
    <2>1. cut = SubSeq(turned, 1, rounds)
      BY <1>4, <1>5 DEF truncate
    <2> HIDE DEF cut
    <2>2. Len(cut) = rounds /\ \A k \in 1..rounds : cut[k] = turned[k]
      BY <1>1, <1>4, <1>5, <2>1
    <2>3. cut # << >> /\ rounds > 0
      BY <2>2
    <2>4. i % rounds = i
      BY <2>3, Small
    <2>5. OpeningAt(cut, i) = turned[i + 1]
      BY <2>2, <2>3, <2>4 DEF OpeningAt
    <2>6. i + 1 \in 1..n /\ (i + 1) - 1 + offset = i + offset
      BY <1>1, <1>5
    <2>7. QED  BY <1>2, <2>5, <2>6 DEF cut, turned, n
  <1>6. CASE ~(n > rounds)
    <2>1. cut = turned
      BY <1>4, <1>6 DEF truncate
    <2>2. turned # << >>
      BY <1>1, <1>4
    <2>3. OpeningAt(cut, i) = turned[(i % n) + 1]
      BY <1>4, <2>1, <2>2 DEF OpeningAt
    <2>4. (i % n) \in 0..(n - 1)
      BY <1>1, <1>3, Divided
    <2>5. (i % n) + 1 \in 1..n /\ ((i % n) + 1) - 1 + offset = (i % n) + offset
      BY <1>1, <2>4
    <2>6. turned[(i % n) + 1] = book[(((i % n) + offset) % n) + 1]
      BY <1>2, <2>5
    <2>7. ((i % n) + offset) % n = (i + offset) % n
      BY <1>1, <1>3, RemainderOfSum
    <2>8. QED  BY <2>3, <2>6, <2>7 DEF cut, turned, n
  <1>7. QED  BY <1>5, <1>6

\* A round has the same opening in every session, that of an uninterrupted
\* tournament, and that one goes through the whole book before it plays an
\* opening again (opening_book.cpp:21-62, roundrobin.cpp:108-111).
THEOREM SameOpeningsAlways == Spec => []SameOpenings
  <1>1. IInv => SameOpenings
    <2>0. ASSUME IInv, phase = "running" PROVE EachOpeningOnce(session.config)
      BY <2>0, OnceThroughTheBook DEF IInv, Going, SessionOK, Accepted
    <2> SUFFICES ASSUME IInv, phase = "running", NEW k \in DOMAIN session.openings
                 PROVE  session.openings[k] = OpeningOfRound(session.config, k)
      BY <2>0 DEF SameOpenings
    <2> DEFINE config == session.config
               done == session.done
               first == config.opening.start - 1
    <2>1. SessionOK
      BY DEF IInv, Going
    <2>2. /\ SettingsOK(config) /\ ~NoOpenings(config) /\ done \in Nat
          /\ session.book = setup(config, first + done)
          /\ session.openings = [i \in done..(config.rounds - 1) |-> OpeningAt(session.book, i - done)]
      BY <2>1 DEF SessionOK, Accepted
    <2> HIDE DEF config, done
    <2>3. k \in done..(config.rounds - 1) /\ session.openings[k] = OpeningAt(session.book, k - done)
      BY <2>2
    <2>4. config.rounds \in Nat /\ OpeningOK(config.opening) /\ first \in Nat
      <3>1. config.rounds \in Nat /\ OpeningOK(config.opening)
        BY <2>2 DEF SettingsOK
      <3>2. config.opening.start \in Nat \ {0}
        BY <3>1 DEF OpeningOK
      <3>3. first \in Nat
        BY <3>2
      <3>4. QED  BY <3>1, <3>3
    <2> HIDE DEF first
    <2>5. CASE ~HasBook(config.opening)
      <3>1. session.book = << >>
        BY <2>2, <2>5 DEF setup
      <3>2. QED  BY <2>3, <2>5, <3>1 DEF OpeningAt, OpeningOfRound, config
    <2>6. CASE HasBook(config.opening)
      <3> DEFINE book == Indexed(config)
                 i == k - done
                 offset == first + done
      <3>1. Listed(book) /\ Len(book) \in Nat \ {0}
        BY <2>2, <2>4, <2>6, BookRead, BookIndexed DEF SettingsOK
      <3>2. session.book = truncate(rotate(book, offset), config.rounds)
        BY <2>2, <2>6 DEF setup
      <3>3. i \in 0..(config.rounds - 1) /\ offset \in Nat /\ i + offset = first + k
        BY <2>2, <2>3, <2>4
      <3> HIDE DEF book, i, offset
      <3> DEFINE rounds == config.rounds
      <3>4. rounds \in Nat /\ i \in 0..(rounds - 1) /\ session.book = truncate(rotate(book, offset), rounds)
        BY <2>4, <3>2, <3>3
      <3> HIDE DEF rounds
      <3>5. OpeningAt(truncate(rotate(book, offset), rounds), i) = book[((i + offset) % Len(book)) + 1]
        BY <3>1, <3>3, <3>4, OpeningOfBook
      <3>6. OpeningAt(session.book, i) = book[((first + k) % Len(book)) + 1]
        BY <3>3, <3>4, <3>5
      <3>7. OpeningOfRound(session.config, k) = book[((first + k) % Len(book)) + 1]
        BY <2>6 DEF OpeningOfRound, book, config, first
      <3>8. QED  BY <2>3, <3>6, <3>7 DEF i
    <2>7. QED  BY <2>5, <2>6
  <1>2. QED  BY <1>1, Invariant, PTL
=============================================================================
