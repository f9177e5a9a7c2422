------------------------------- MODULE CharStream ------------------------------
(***************************************************************************)
(* The input side of the stream shim on mbed, streams/                     *)
(* iostream_mbed_streambuf.h under istream.h: a device that cannot be      *)
(* peeked at, and a cache of one character that makes up for it.  These    *)
(* are operators on b = [device |-> Seq(char), cache |-> char or NoChar];  *)
(* device holds what has arrived and was not read.                         *)
(*                                                                         *)
(* The cache is a char whose zero means empty, so no NUL may arrive.       *)
(***************************************************************************)
EXTENDS Sequences

CONSTANT NoChar     \* eof() of the traits, and the empty cache

EmptyStream == [device |-> << >>, cache |-> NoChar]

\* serial_in_avail: readable(), which does not know of the cache.
in_avail(b) == b.device # << >>

Got(b, c) == [stream |-> b, char |-> c]

\* Take a character; on an empty device this would block.
sbumpc(b) ==
    IF b.cache # NoChar THEN Got([b EXCEPT !.cache = NoChar], b.cache)
    ELSE Got([b EXCEPT !.device = Tail(@)], Head(b.device))

(***************************************************************************)
(* Look at the next character, by reading it into the cache.  Looking      *)
(* again empties the cache: whoever peeks twice loses the character.       *)
(***************************************************************************)
sgetc(b) ==
    IF b.cache # NoChar THEN Got([b EXCEPT !.cache = NoChar], b.cache)
    ELSE IF in_avail(b)
    THEN Got([device |-> Tail(b.device), cache |-> Head(b.device)], Head(b.device))
    ELSE Got(b, NoChar)

\* istream::get and peek; the stream of the console never leaves the good state.
getChar(b) == sbumpc(b)
peek(b) == sgetc(b)

================================================================================
