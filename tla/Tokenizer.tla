-------------------------------- MODULE Tokenizer ------------------------------
(***************************************************************************)
(* Tokenizer.h and Tokenizer.cpp.  TokenizerInPlace cuts tokens out of a   *)
(* buffer by overwriting the delimiter behind each with a zero; Tokenizer  *)
(* copies them.  A buffer is a sequence of characters; behind it lies the  *)
(* zero that ends the string, which counts as a delimiter.                 *)
(***************************************************************************)
EXTENDS Naturals, Sequences, FiniteSetsExt

CONSTANT Delimiters

isDelimiter(buffer, i) ==
    i = Len(buffer) + 1 \/ buffer[i] \in Delimiters

\* parseToken: where the token that begins at `from` ends.
parseToken(buffer, from) ==
    Min({i \in from .. Len(buffer) + 1 : isDelimiter(buffer, i)})

\* Mutant: the tokenizer goes on at the delimiter.
M_advance_NotPast(buffer, from) == parseToken(buffer, from)

\* advance: the next token begins behind the delimiter.
advance(buffer, from) == parseToken(buffer, from) + 1

(***************************************************************************)
(* parseTokenDestructive, called n times: the tokens it returns.  Whoever  *)
(* calls it has to know how many there are: after the last one the         *)
(* tokenizer stands behind the end of the string.                          *)
(***************************************************************************)
Tokens(buffer, n) ==
    LET start[k \in 1 .. n] ==
            IF k = 1 THEN 1 ELSE advance(buffer, start[k - 1])
    IN  [k \in 1 .. n |->
            SubSeq(buffer, start[k], parseToken(buffer, start[k]) - 1)]

\* Tokenizer::parse: the copy, behind one more character of the input.
parse(copy, input, i) ==
    IF isDelimiter(input, i) THEN copy ELSE Append(copy, input[i])

(***************************************************************************)
(* Tokenizer::parseToken: the token copied, and the length returned, which *)
(* counts the delimiter -- the zero at the end as well, which is why the   *)
(* caller who adds the length of the last token stands behind the string.  *)
(***************************************************************************)
copyToken(input, from) ==
    LET end == parseToken(input, from)
        copy[i \in from .. end] ==
            parse(IF i = from THEN << >> ELSE copy[i - 1], input, i)
    IN  [token |-> copy[end],
         length |-> IF from = Len(input) + 1 THEN 0 ELSE Len(copy[end]) + 1]

\* The tokens that a caller copies who adds each length to its input.
CopiedTokens(input, n) ==
    LET start[k \in 1 .. n] ==
            IF k = 1 THEN 1
            ELSE start[k - 1] + copyToken(input, start[k - 1]).length
    IN  [k \in 1 .. n |-> copyToken(input, start[k]).token]

================================================================================
