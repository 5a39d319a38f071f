------------------------------ MODULE ParseBuf ------------------------------
(***************************************************************************)
(* parse_buf of libs32/klib.c, by which command lines are split at blanks  *)
(* and paths at slashes.  It works in place: the words stay where they are *)
(* in the buffer, argv points to their first characters, and the delimiter *)
(* behind a word is overwritten with the NUL that ends it.                 *)
(*                                                                         *)
(* A buffer is a sequence of characters with a NUL at its end; of a        *)
(* character only matters whether it is a delimiter.                       *)
(***************************************************************************)
EXTENDS Integers, Sequences

Nul   == "nul"
Delim == "delim"
Plain == "plain"

in_delim(c) == c = Delim

(* The buffer of a line, and its NUL. *)
Buffer(line) == line \o <<Nul>>

(* The first character behind the delimiters at p, and the end of the word  *)
(* at p: the two inner loops.  Neither looks at len.                        *)
SkipDelims(buf) ==
  LET skip[p \in 1 .. Len(buf)] == IF in_delim(buf[p]) THEN skip[p + 1] ELSE p
  IN  skip

SkipWord(buf) ==
  LET skip[p \in 1 .. Len(buf)] ==
        IF buf[p] # Nul /\ ~in_delim(buf[p]) THEN skip[p + 1] ELSE p
  IN  skip

(* Deviation: the delimiter behind a word stays.                            *)
M_Cut(buf, p) == FALSE

(* p is behind a word, and not at the end: argc_local is 0 in the first     *)
(* pass alone, at the first character.                                      *)
Cut(buf, p) == p > 1 /\ buf[p] # Nul

(* The outer loop from p on: the positions that argv gets, and those that   *)
(* are set to 0.  The characters from p on are still those of the line.     *)
NoWords == [argv |-> <<>>, cut |-> {}]

SplitFrom(buf, len) ==
  LET found[p \in 1 .. Len(buf)] ==
        IF p - 1 >= len THEN NoWords
        ELSE LET cut  == IF Cut(buf, p) THEN {p} ELSE {}
                 word == SkipDelims(buf)[IF cut = {} THEN p ELSE p + 1]
             IN  IF buf[word] = Nul
                 THEN [argv |-> <<>>, cut |-> cut]
                 ELSE LET rest == found[SkipWord(buf)[word]]
                      IN  [argv |-> <<word>> \o rest.argv, cut |-> cut \cup rest.cut]
  IN  found

(* What the caller finds: argv, and the buffer with the words cut off.      *)
parse_buf(line, len) ==
  LET buf  == Buffer(line)
      done == SplitFrom(buf, len)[1]
  IN  [argv |-> done.argv,
       buf  |-> [p \in 1 .. Len(buf) |-> IF p \in done.cut THEN Nul ELSE buf[p]]]

-----------------------------------------------------------------------------
(* The string at p.                                                         *)
StringEnd(buf, p) == CHOOSE q \in p .. Len(buf) : buf[q] = Nul /\ \A r \in p .. q - 1 : buf[r] # Nul

(* The reference: the longest runs of characters that are no delimiters.    *)
IsWord(line, p, q) ==
  /\ p <= q /\ \A r \in p .. q : ~in_delim(line[r])
  /\ p = 1 \/ in_delim(line[p - 1])
  /\ q = Len(line) \/ in_delim(line[q + 1])

(* argv shows the words of the line, all of them, once and in their order.  *)
SplitsWords(line, len) ==
  LET done == parse_buf(line, len)
      argv == done.argv
  IN  /\ \A i \in 1 .. Len(argv) - 1 : argv[i] < argv[i + 1]
      /\ {<<argv[i], StringEnd(done.buf, argv[i]) - 1>> : i \in DOMAIN argv}
           = {w \in (1 .. Len(line)) \X (1 .. Len(line)) : IsWord(line, w[1], w[2])}
=============================================================================
