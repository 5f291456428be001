----------------------------- MODULE EngineOptions -----------------------------
(***************************************************************************)
(* The options of an engine as the tester keeps them (engine/option): what *)
(* it makes of the "option" lines of an engine, which values it holds to   *)
(* be valid, and what it records.  A line is the record of its parameters, *)
(* a text that is missing is "".                                           *)
(***************************************************************************)
EXTENDS Naturals, Sequences

CONSTANT Numbers   \* std::stoi: the texts it reads as numbers and those numbers; it throws for the others

Line == [name : STRING, type : {"check", "spin", "combo", "button", "string", "other"},
         default : STRING, min : STRING, max : STRING, var : SUBSET STRING]

Number(text) == Numbers[text]
IsNumber(text) == text \in DOMAIN Numbers

\* The constructor of SpinOption throws.
Malformed(line) == line.type = "spin" /\ ~({line.min, line.max, line.default} \subseteq DOMAIN Numbers)

\* isValid of each kind of option, where it does not throw.
isValid(option, value) ==
    CASE option.type = "check"  -> value \in {"true", "false"}
      [] option.type = "spin"   -> IsNumber(value) /\ Number(value) \in option.min..option.max
      [] option.type = "combo"  -> value \in option.choices
      [] option.type = "button" -> value = "press"
      [] option.type = "string" -> TRUE

\* isValid and setValue throw.
Throws(option, value) == option.type = "spin" /\ ~IsNumber(value)

\* What setValue makes of a valid value: the text, a number for a spin, a mark for a button.
Read(option, value) ==
    CASE option.type = "spin"   -> Number(value)
      [] option.type = "button" -> "pressed"
      [] OTHER                  -> value

\* A value that is not valid is not recorded.
setValue(option, value) ==
    IF isValid(option, value) THEN [option EXCEPT !.value = Read(option, value)] ELSE option

\* The value member before setValue: that of CheckOption and SpinOption is not initialized.
Unset(type) ==
    CASE type = "check" -> {"true", "false"}
      [] type = "spin"  -> {Numbers[t] : t \in DOMAIN Numbers}
      [] OTHER          -> {"not pressed"}

\* parseUCIOptionLine: the options it may make of a line, none for a line that is no option.  It collects the
\* word "var" for each choice of a combo instead of the choice; a combo and a string take any default.
parseUCIOptionLine(line) ==
    LET option(value) == [name |-> line.name, type |-> line.type, value |-> value,
                          min |-> IF line.type = "spin" THEN Number(line.min) ELSE 0,
                          max |-> IF line.type = "spin" THEN Number(line.max) ELSE 0,
                          choices |-> {"var" : v \in line.var}]
    IN  CASE line.type = "other"             -> {}
          [] line.type \in {"combo", "string"} -> {option(line.default)}
          [] OTHER                           -> {setValue(option(value), line.default) : value \in Unset(line.type)}

\* The lines before the first that throws.
Legible(lines) ==
    SubSeq(lines, 1, CHOOSE n \in 0..Len(lines) : /\ \A i \in 1..n : ~Malformed(lines[i])
                                                  /\ n < Len(lines) => Malformed(lines[n + 1]))

\* The lines before uciok that are options, in order: parseUCIOptionLine makes nothing of the others.
optionLines(lines) ==
    LET upTo[n \in 0..Len(lines)] ==
            IF n = 0 THEN << >>
            ELSE IF lines[n].type = "other" THEN upTo[n - 1] ELSE Append(upTo[n - 1], lines[n])
    IN  upTo[Len(lines)]

\* UCIOptions::getOption takes the first of the name, though a restarted engine adds its options again.
Found(options, name) == {i \in DOMAIN options : options[i].name = name}
getOption(options, name) == CHOOSE i \in Found(options, name) : \A j \in Found(options, name) : i <= j

\* What sendSetoption sends: an option the engine has, and a value that is valid for it.
Sendable(options, name, value) ==
    Found(options, name) # {} /\ isValid(options[getOption(options, name)], value)

\* uci_options_ after setoption was sent.
Recorded(options, name, value) == [options EXCEPT ![getOption(options, name)] = setValue(@, value)]

\* The choice of the engine itself: what it takes by the line it printed.
Takes(line, value) ==
    CASE line.type = "check"  -> value \in {"true", "false"}
      [] line.type = "spin"   -> IsNumber(value) /\ Number(value) \in Number(line.min)..Number(line.max)
      [] line.type = "combo"  -> value \in line.var
      [] OTHER                -> TRUE
=============================================================================
