-------------------------------- MODULE MCConsole ------------------------------
(***************************************************************************)
(* A menu with a name that is the beginning of another, functions of none  *)
(* to two parameters, two properties, of which one accepts small values    *)
(* only, and a line of seven characters and at most four words.            *)
(***************************************************************************)
EXTENDS Console

Menu == <<[name |-> <<"r", "a", "b">>, kind |-> "restart", of |-> 1],
          [name |-> <<"r", "a">>, kind |-> "restart", of |-> 2],
          [name |-> <<"s", "t">>, kind |-> "set", of |-> 0],
          [name |-> <<"g">>, kind |-> "get", of |-> 0],
          [name |-> <<"f">>, kind |-> "function", of |-> 1],
          [name |-> <<"h">>, kind |-> "function", of |-> 2],
          [name |-> <<"n">>, kind |-> "function", of |-> 0]>>

Bytes == <<[name |-> <<"p">>, var |-> "pv", accepts |-> 0 .. 15],
           [name |-> <<"q">>, var |-> "qv", accepts |-> 0 .. 5]>>

Digits == [c \in {"1", "7"} |-> IF c = "1" THEN 1 ELSE 7]

Blanks == {Blank}

Lines ==
    {<< >>,
     <<"r", "a">>,                              \* the shorter of two names
     <<"r", "a", "b", Blank>>,                  \* a blank at the end
     <<"r", Tab, "a", Tab, "b">>,               \* several candidates, twice
     <<"r", "a", "b", Tab>>,                    \* nothing left to complete
     <<"z", Tab>>,                              \* no candidate
     <<Tab, "f", Tab, Blank, "1", "r">>,        \* digits, then a letter
     <<"f">>, <<"f", Blank, Blank, "1">>,       \* the wrong number
     <<"n", Blank, "1", Blank, "7", Blank, "1">>,   \* as many as there is room for
     <<"n">>, <<"h", Blank, "1", Blank, "7">>,  \* none and two
     <<"h", "e", "l", "p">>,
     <<"g">>, <<"g", Blank, "p">>,              \* the names, and a value
     <<"s", Tab, Blank, "p", Blank, "1", "7">>, \* wraps, and fills the line
     <<"s", "t", Blank, "p", Blank, "1", "1", "7">>,  \* one too many
     <<"s", "t", Blank, "p", Blank, "r">>,      \* not a number
     <<"s", "t", Blank, "q", Blank, "7">>,      \* refused by the property
     <<"s", "t", Blank, "r", Blank, "1">>}      \* no such property

Typed == {Append(l, Newline) : l \in Lines}
================================================================================
