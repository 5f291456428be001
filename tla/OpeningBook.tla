---------------------------- MODULE OpeningBook ----------------------------
(***************************************************************************)
(* book::OpeningBook (book/opening_book.hpp): book_ as a sequence of       *)
(* openings, read from a file, shuffled, rotated to the first opening of   *)
(* the session and cut to as many as there are rounds.                     *)
(***************************************************************************)
EXTENDS Configuration, Sequences, PgnReader

CONSTANT Rand   \* Rand[seed]: the numbers mersenne_rand gives after that seed

ASSUME OpeningBookAssumption ==
    \A file \in DOMAIN Library : \A part \in {"games", "lines"} :
        LET length == Len(Library[file][part])
        IN  /\ length \in Nat /\ DOMAIN Library[file][part] = 1..length
            /\ \A seed \in DOMAIN Rand : \A i \in 1..(length - 1) : Rand[seed][i] \in Nat

-----------------------------------------------------------------------------

Exchanged(s, i, j) == [s EXCEPT ![i] = s[j], ![j] = s[i]]

\* shuffle(): Fisher-Yates with one random number for each place but the last.
shuffle(book, rand) ==
    LET after[i \in 0..Len(book)] ==
            IF i = 0 THEN book
            ELSE Exchanged(after[i - 1], i, i + (rand[i] % (Len(book) - i + 1)))
    IN  IF book = << >> THEN book ELSE after[Len(book) - 1]

\* rotate(): std::rotate by the offset modulo the size.
rotate(book, offset) ==
    [k \in DOMAIN book |-> book[((k - 1 + offset) % Len(book)) + 1]]

\* truncate(): no more openings than rounds.
truncate(book, rounds) ==
    IF Len(book) > rounds THEN SubSeq(book, 1, rounds) ELSE book

-----------------------------------------------------------------------------

\* A book is read unless no file or no format is given.
HasBook(opening) == opening.file # "" /\ opening.format # "none"

\* The loop over the lines of a file: one opening for each that is not blank.
OfLines(lines) ==
    LET read[i \in 0..Len(lines)] ==
            IF i = 0 THEN << >>
            ELSE IF lines[i] = "" THEN read[i - 1]
            ELSE Append(read[i - 1], [fen |-> lines[i], moves |-> << >>])
    IN  read[Len(lines)]

\* setup(): the openings of the games, or of the lines.
Read(opening) ==
    LET file == Library[opening.file]
    IN  IF opening.format = "pgn" THEN getOpenings(file.games, opening.plies) ELSE OfLines(file.lines)

\* The book in the order the tournament as a whole goes through it.
Indexed(config) ==
    LET book == Read(config.opening)
    IN  IF config.opening.order = "random" THEN shuffle(book, Rand[config.seed]) ELSE book

\* Faulty variant of setup: the book is cut before it is rotated.
setupCutFirst(config, offset) ==
    IF HasBook(config.opening)
      THEN rotate(truncate(Indexed(config), config.rounds), offset)
      ELSE << >>

\* setup(): book_ of a session whose first opening is at the offset.
setup(config, offset) ==
    IF HasBook(config.opening)
      THEN truncate(rotate(Indexed(config), offset), config.rounds)
      ELSE << >>

\* setup() throws "No openings found".
NoOpenings(config) ==
    HasBook(config.opening) /\ Read(config.opening) = << >>

\* The opening without a book.
StartPos == [fen |-> "startpos", moves |-> << >>]

\* fetchId() when opening_index_ is index, and operator[] of what it returns.
OpeningAt(book, index) ==
    IF book = << >> THEN StartPos ELSE book[(index % Len(book)) + 1]
=============================================================================
