--------------------------------- MODULE Console -------------------------------
(***************************************************************************)
(* The console: Console.cpp collects characters into a line, ConsoleMenu   *)
(* and Menu complete it, cut it into parameters and find the command that  *)
(* it names.  The commands here are a restart of a service, which is only  *)
(* queued (MenuServiceRPC and CallQueue of rpc.h), functions of none to two*)
(* parameters (MenuFunction2), and reading and setting properties          *)
(* (GetPropertyMenuCommand, SetPropertyMenuCommand).                       *)
(*                                                                         *)
(* The main loop calls handler() and then makes the calls in the queue.    *)
(* Characters arrive at any time.  A character is a string; names and      *)
(* lines are sequences of them.  The menu is one level deep: a nested menu *)
(* typed alone reads a parameter that was never set, as a line with a      *)
(* blank at its end does for a command with parameters, and no sequence of *)
(* input modelled does either.  Nor is a line typed of more words than     *)
(* handler() has room for: it stores their pointers without looking.       *)
(***************************************************************************)
EXTENDS Naturals, Sequences, SequencesExt, FiniteSets, CharStream, Tokenizer

CONSTANTS
    Sessions,       \* what is typed: sequences of characters, newline last
    Commands,       \* the menu, in the order of add(): [name, kind, of], where
                    \* `of` is a service or a number of parameters
    Properties,     \* those of "get" and "set": [name, var, accepts]
    Digit,          \* the digits, as a function from characters to numbers
    ByteMax,        \* one more than the largest value of a property's type
    InputMax,       \* CONSOLE_INPUTLINE_MAX
    MaxParameter,   \* CONSOLE_BEHAVIOR_MAX_PARAMETER, 4 or 8
    QueueSize,      \* the number of calls the CallQueue has room for
    DeviceSize      \* bound: how far the typist is ahead of the console

Tab == "tab"
Newline == "newline"
Blank == " "
Help == <<"h", "e", "l", "p">>

\* What a parameter holds that was never set: no name and no number.
Unset == <<"unset">>

\* The characters that are typed.
Char == UNION {ToSet(s) : s \in Sessions}

ASSUME ConsoleAssumption ==
    /\ \A s \in Sessions : s \in Seq(STRING) /\ s # << >> /\ Last(s) = Newline
    /\ \A s \in Sessions : Cardinality({i \in DOMAIN s : s[i] = Blank}) < MaxParameter
    /\ NoChar \notin Char
    /\ Delimiters = {Blank}
    /\ Commands \in Seq(ToSet(Commands)) /\ Properties \in Seq(ToSet(Properties))
    /\ \A c \in ToSet(Commands) : /\ c.name \in Seq(STRING) /\ Len(c.name) < InputMax
                                 /\ Blank \notin ToSet(c.name)
                                 /\ c.kind \in {"restart", "function", "get", "set"}
    /\ \A x \in ToSet(Properties) : x.name \notin {<< >>, Unset}
    /\ Digit \in [DOMAIN Digit -> Nat] /\ "unset" \notin DOMAIN Digit
    /\ ByteMax \in Nat \ {0} /\ InputMax \in Nat \ {0}
    /\ MaxParameter \in Nat \ {0} /\ QueueSize \in Nat \ {0} /\ DeviceSize \in Nat \ {0}

VARIABLES
    stream,     \* the input stream
    pc,         \* "peek" and "get" in handler(), "calls" behind it
    inputLine,  \* the first inputPos characters of inputLine
    screen,     \* what the terminal shows behind the last prompt
    queue,      \* the calls in the CallQueue, the oldest first
    value,      \* the variables that the properties stand for
    invoked,    \* what the line just executed made happen
    sent,       \* for checking: what was typed since the last line executed
    submitted   \* for checking: what was typed to make the line just executed

vars == <<stream, pc, inputLine, screen, queue, value, invoked, sent, submitted>>

Var == {Properties[i].var : i \in DOMAIN Properties}
Nothing == [what |-> "nothing", arg |-> << >>]

\* ConsoleMenu::showPrompt: nothing stands behind the prompt.
showPrompt == << >>

Init ==
    /\ stream = EmptyStream
    /\ pc = "peek"
    /\ inputLine = << >>
    /\ screen = showPrompt
    /\ queue = << >>
    /\ value = [v \in Var |-> 0]
    /\ invoked = Nothing
    /\ sent = << >>
    /\ submitted = << >>

\* No line is executed by this step.
Quiet == submitted' = << >> /\ invoked' = Nothing

(***************************************************************************)
(* The typist, who types one of the sessions at a time.                    *)
(***************************************************************************)
Unfinished == LET newlines == {i \in DOMAIN sent : sent[i] = Newline}
              IN  IF newlines = {} THEN sent
                  ELSE SubSeq(sent, Max(newlines) + 1, Len(sent))

Keys == LET n == Len(Unfinished)
        IN  {s[n + 1] : s \in {x \in Sessions :
                            Len(x) > n /\ SubSeq(x, 1, n) = Unfinished}}

Type(c) ==
    /\ Len(stream.device) < DeviceSize
    /\ stream' = [stream EXCEPT !.device = Append(@, c)]
    /\ sent' = Append(sent, c)
    /\ Quiet
    /\ UNCHANGED <<pc, inputLine, screen, queue, value>>

--------------------------------------------------------------------------------
(***************************************************************************)
(* Completion (Menu::processInput).  The first InputPos characters of a    *)
(* name have to agree with the line.                                       *)
(***************************************************************************)
Candidates(line) == {i \in DOMAIN Commands : IsPrefix(line, Commands[i].name)}

Edited(line, shown) == [line |-> line, shown |-> shown]

\* appendToInputLine, which does not look at the length of the line.
appendToInputLine(line, suffix) == line \o suffix

\* Mutant: the suffix is shown and not put into the line.
M_processTab_ShownOnly(line, shown) ==
    LET c == Candidates(line)
        name == Commands[CHOOSE i \in c : TRUE].name
        suffix == SubSeq(name, Len(line) + 1, Len(name))
    IN  IF Cardinality(c) = 1 THEN Edited(line, shown \o suffix)
        ELSE IF c # {} THEN Edited(line, line) ELSE Edited(line, shown)

(***************************************************************************)
(* One candidate: its rest is shown and appended.  Several: they are       *)
(* listed, and the prompt is shown again with the line behind it.          *)
(***************************************************************************)
processTab(line, shown) ==
    LET c == Candidates(line)
        name == Commands[CHOOSE i \in c : TRUE].name
        suffix == SubSeq(name, Len(line) + 1, Len(name))
    IN  IF Cardinality(c) = 1
        THEN Edited(appendToInputLine(line, suffix), shown \o suffix)
        ELSE IF c # {} THEN Edited(line, showPrompt \o line)
        ELSE Edited(line, shown)

(***************************************************************************)
(* Where the parameters of a line begin.  Every blank ends one and begins  *)
(* the next, but the pointer to it is not set, 0 here, when the blank is   *)
(* the end of the line.  There is room for MaxParameter pointers; more of  *)
(* them would be written behind the array, which is undefined and kept out *)
(* of the model by what is typed (ConsoleAssumption).                      *)
(***************************************************************************)
begins(line) ==
    LET upTo[i \in 0 .. Len(line)] ==
            IF i = 0 THEN <<1>>
            ELSE IF line[i] # Blank THEN upTo[i - 1]
            ELSE Append(upTo[i - 1], IF i < Len(line) THEN i + 1 ELSE 0)
    IN  upTo[Len(line)]

\* The zero, at the end or in place of a blank, that ends the string from there.
zero(line, from) ==
    Min({i \in from .. Len(line) + 1 : i = Len(line) + 1 \/ line[i] = Blank})

parameters(line) ==
    LET from == begins(line)
    IN  [k \in DOMAIN from |->
            IF from[k] = 0 THEN Unset
            ELSE SubSeq(line, from[k], zero(line, from[k]) - 1)]

\* Parameters::inc
inc(p) == Tail(p)

--------------------------------------------------------------------------------
(***************************************************************************)
(* Strings to numbers: atoi reads the digits at the beginning, and none is *)
(* zero; validateString<int> wants digits only; an unsigned char is        *)
(* validated as an int and keeps the low bits of it.                       *)
(***************************************************************************)
IsDigits(s) == \A i \in DOMAIN s : s[i] \in DOMAIN Digit

plusDigit(number, c) == 10 * number + Digit[c]

atoi(s) ==
    LET n == Max({k \in 0 .. Len(s) : IsDigits(SubSeq(s, 1, k))})
    IN  FoldLeft(plusDigit, 0, SubSeq(s, 1, n))

\* Mutant: anything is a number.
M_validateString_Lax(s) == s # << >>

validateString(s) == s # << >> /\ IsDigits(s)

\* The conversion, which does not look at the range.
fromString(s) == atoi(s) % ByteMax

(***************************************************************************)
(* The command handlers, as operators to what they leave: the queue, the   *)
(* values and what they invoked.                                           *)
(***************************************************************************)
Effect(q, v, what, arg) ==
    [queue |-> q, value |-> v, invoked |-> [what |-> what, arg |-> arg]]

NoEffect(what) == Effect(queue, value, what, << >>)

\* CallHolderFactory::create(&Service::restart, &service): the call to make.
create(func, in1) == [func |-> func, param1 |-> in1]

\* CallQueue::put: a full queue drops its oldest call.
put(q, call) == Append(IF Len(q) < QueueSize THEN q ELSE Tail(q), call)

\* MenuServiceRPC; whatever parameters there are go unread.
restartCommand(service) ==
    Effect(put(queue, create("restart", service)), value, "restart", <<service>>)

\* How many parameters a function takes, and the call of it with that many.
invokeParamCount(command) == command.of
invoke(p) == [k \in DOMAIN p |-> atoi(p[k])]

(***************************************************************************)
(* MenuFunction2: the number of parameters has to be right.  That they are *)
(* valid is looked at and has no consequence.                              *)
(***************************************************************************)
functionCommand(command, p) ==
    IF Len(p) # invokeParamCount(command) THEN NoEffect("parameterError")
    ELSE Effect(queue, value, "function", invoke(p))

\* strcmp_P(name, itemName) == 0
isNamed(item, name) == item.name = name

\* The values of the properties of that name, one behind the other.
getItem(shown, item, name) ==
    IF isNamed(item, name) THEN Append(shown, value[item.var]) ELSE shown

\* GetPropertyMenuCommand: alone it lists the names, of a property the values.
getCommand(p) ==
    IF Len(p) # 1 THEN NoEffect(IF p = << >> THEN "names" ELSE "nothing")
    ELSE Effect(queue, value, "get",
                FoldLeft(LAMBDA shown, item : getItem(shown, item, p[1]),
                         << >>, Properties))

(***************************************************************************)
(* PropertyRef also asks the property that it refers to, once the value is *)
(* converted.                                                              *)
(***************************************************************************)
validate(item, s) ==
    validateString(s) /\ fromString(s) \in item.accepts

\* Property::set, through the layers down to the variable.
set(v, item, x) == [v EXCEPT ![item.var] = x]

\* SetPropertyMenuCommand's loop, from the effect of the turns before.
setItem(e, item, name, s) ==
    IF ~ isNamed(item, name) \/ e.invoked.what = "invalid" THEN e
    ELSE IF validate(item, s)
    THEN Effect(queue, set(e.value, item, fromString(s)), "set", << >>)
    ELSE Effect(queue, e.value, "invalid", << >>)

(***************************************************************************)
(* The loop over the properties sets each one of that name, and stops at a *)
(* value that is not valid.                                                *)
(***************************************************************************)
setCommand(p) ==
    IF Len(p) # 2 THEN NoEffect("nothing")
    ELSE FoldLeft(LAMBDA e, item : setItem(e, item, p[1], p[2]),
                  NoEffect("nothing"), Properties)

\* MenuCommand::canHandle
matches(command, word) == command.name = word

\* Mutant: a command whose name begins with the word is taken.
M_canHandle_Prefix(word) ==
    SelectInSeq(Commands, LAMBDA c : IsPrefix(word, c.name))

\* MenuEnumerator::canHandle: the first command of that name, 0 for none.
canHandle(word) == SelectInSeq(Commands, LAMBDA c : matches(c, word))

\* Menu::showHelp only writes.
showHelp == NoEffect("help")

\* Menu::handleCommand
handleCommand(p) ==
    LET i == canHandle(p[1])
        kind == Commands[i].kind
    IN  IF i = 0
        THEN IF p[1] = Help THEN showHelp ELSE NoEffect("unrecognized")
        ELSE CASE kind = "restart" -> restartCommand(Commands[i].of)
               [] kind = "function" -> functionCommand(Commands[i], inc(p))
               [] kind = "get" -> getCommand(inc(p))
               [] kind = "set" -> setCommand(inc(p))

--------------------------------------------------------------------------------
(***************************************************************************)
(* Console::handler: `while(in.peek() != -1)`.                             *)
(***************************************************************************)
Peek ==
    /\ pc = "peek"
    /\ stream' = peek(stream).stream
    /\ pc' = IF peek(stream).char = NoChar THEN "calls" ELSE "get"
    /\ Quiet
    /\ UNCHANGED <<inputLine, screen, queue, value, sent>>

\* The loop's body begins by taking the character.
received == getChar(stream).char

Take ==
    /\ pc = "get"
    /\ stream' = getChar(stream).stream

\* A tab.
Complete ==
    LET r == processTab(inputLine, screen)
    IN  /\ Take /\ received = Tab
        /\ inputLine' = r.line
        /\ screen' = r.shown
        /\ pc' = "peek"
        /\ Quiet
        /\ UNCHANGED <<queue, value, sent>>

\* The first line that was sent, with its newline.
FirstLine == SubSeq(sent, 1, Min({i \in DOMAIN sent : sent[i] = Newline}))

\* A newline: an empty line ends handler(), what else it holds is executed.
Enter ==
    /\ Take /\ received = Newline
    /\ sent' = SubSeq(sent, Len(FirstLine) + 1, Len(sent))
    /\ submitted' = FirstLine
    /\ screen' = showPrompt
    /\ inputLine' = << >>
    /\ IF inputLine = << >>
       THEN /\ pc' = "calls"
            /\ invoked' = Nothing
            /\ UNCHANGED <<queue, value>>
       ELSE LET e == handleCommand(parameters(inputLine))
            IN  /\ pc' = "peek"
                /\ queue' = e.queue
                /\ value' = e.value
                /\ invoked' = e.invoked

\* Mutant: a line one character longer than its buffer can hold.
M_LineIsFull_Late == Len(inputLine) = InputMax

LineIsFull == Len(inputLine) = InputMax - 1

\* Any other character: in a full line it is lost, and handler() returns.
Echo ==
    /\ Take /\ received \notin {Tab, Newline}
    /\ IF LineIsFull
       THEN pc' = "calls" /\ UNCHANGED <<inputLine, screen>>
       ELSE /\ pc' = "peek"
            /\ inputLine' = Append(inputLine, received)
            /\ screen' = Append(screen, received)
    /\ Quiet
    /\ UNCHANGED <<queue, value, sent>>

\* Mutant: the main loop leaves the last call in the queue.
M_MayCall_NotTheLast == Len(queue) > 1

MayCall == queue # << >>

\* CallHolder::invoke: the member function is called on the object it is for.
invokeCall(call) == [what |-> call.func, arg |-> <<call.param1>>]

\* The main loop makes a call of the queue, which restarts a service.
MakeCall ==
    /\ pc = "calls" /\ MayCall
    /\ queue' = Tail(queue)
    /\ invoked' = invokeCall(Head(queue))
    /\ submitted' = << >>
    /\ UNCHANGED <<stream, pc, inputLine, screen, value, sent>>

\* With no calls left, it calls handler() again.
CallHandler ==
    /\ pc = "calls" /\ ~ MayCall
    /\ pc' = "peek"
    /\ Quiet
    /\ UNCHANGED <<stream, inputLine, screen, queue, value, sent>>

Program ==
    \/ Peek \/ Complete \/ Enter \/ Echo
    \/ MakeCall \/ CallHandler

Next == Program \/ \E c \in Keys : Type(c)

\* The main loop goes round for ever; nobody has to type.
Spec == Init /\ [][Next]_vars /\ WF_vars(Program)

--------------------------------------------------------------------------------
(***************************************************************************)
(* Types.  The line leaves room in inputLine for the zero behind it, with  *)
(* typing and completion mixed as one likes.                               *)
(***************************************************************************)
TypeOK ==
    /\ stream.device \in Seq(Char) /\ stream.cache \in Char \union {NoChar}
    /\ pc \in {"peek", "get", "calls"}
    /\ inputLine \in Seq(STRING)
    /\ Len(inputLine) < InputMax
    /\ Len(queue) <= QueueSize
    /\ value \in [Var -> 0 .. ByteMax - 1]

(***************************************************************************)
(* The terminal shows the line: whatever was typed, completed, listed or   *)
(* lost, what stands behind the prompt is what Enter will execute.         *)
(***************************************************************************)
ScreenShowsLine == screen = inputLine

(***************************************************************************)
(* The parameters that a command gets are the tokens that both tokenizers  *)
(* find between blanks, except for the one that was never set; and however *)
(* a line is completed and cut short, it has no more of them than there is *)
(* room for if what was typed has not.                                     *)
(***************************************************************************)
ParametersAreTokens ==
    inputLine # << >> =>
        LET p == parameters(inputLine)
            n == Len(p)
        IN  /\ n <= MaxParameter
            /\ \A k \in 1 .. n : p[k] # Unset =>
                  /\ p[k] = Tokens(inputLine, n)[k]
                  /\ p[k] = CopiedTokens(inputLine, n)[k]

(***************************************************************************)
(* What a line is meant to be: as typed, a character that does not fit     *)
(* lost, tabs completed where that is unique.                              *)
(***************************************************************************)
Fits(line) ==
    {i \in DOMAIN Commands :
        /\ Len(Commands[i].name) >= Len(line)
        /\ SubSeq(Commands[i].name, 1, Len(line)) = line}

Pressed(line, c) ==
    IF c = Tab THEN IF Cardinality(Fits(line)) # 1 THEN line
                    ELSE Commands[CHOOSE i \in Fits(line) : TRUE].name
    ELSE IF Len(line) + 1 < InputMax THEN Append(line, c)
    ELSE line

Meant(typed) == FoldLeft(Pressed, << >>, Front(typed))

(***************************************************************************)
(* What is executed is what was typed: the characters between two newlines *)
(* -- read through the cache of the stream while others arrive, completed  *)
(* and cut short -- name the command that ran, and give its parameters.    *)
(***************************************************************************)
ExecutedIsTyped ==
    submitted # << >> =>
        LET line == Meant(submitted)
            words == Tokens(line, 1 + Cardinality({i \in DOMAIN line : line[i] = Blank}))
            is(c) == c.name = words[1]
        IN  /\ invoked.what = "restart" =>
                   \E i \in DOMAIN Commands : is(Commands[i])
                        /\ <<Commands[i].of>> = invoked.arg
            /\ invoked.what = "function" =>
                   /\ \E i \in DOMAIN Commands : is(Commands[i])
                        /\ Commands[i].of = Len(words) - 1
                   /\ invoked.arg = [k \in 1 .. Len(words) - 1 |-> atoi(words[k + 1])]
            /\ invoked.what = "get" =>
                   ToSet(invoked.arg) = {value[Properties[i].var] :
                       i \in {j \in DOMAIN Properties : Properties[j].name = words[2]}}
            /\ invoked.what = "unrecognized" <=>
                   /\ line # << >> /\ words[1] # Help
                   /\ ~ \E i \in DOMAIN Commands : is(Commands[i])

(***************************************************************************)
(* A property changes only when a line that sets it by its name is entered,*)
(* and then to the number given, which its validation lets pass.           *)
(***************************************************************************)
OnlyValidatedValuesAreSet ==
    [][\A v \in Var : value'[v] # value[v] =>
          LET words == Tokens(Meant(submitted'), 3)
          IN  /\ \A i \in DOMAIN words[3] : words[3][i] \in DOMAIN Digit
              /\ \E i \in DOMAIN Properties :
                    /\ Properties[i].name = words[2]
                    /\ Properties[i].var = v
                    /\ value'[v] \in Properties[i].accepts]_vars

(***************************************************************************)
(* A restart that was queued is made, or was pushed out by later ones: the *)
(* queue runs empty, provided that handler() returns again and again.  It  *)
(* does so when it runs out of characters, and a typist who is always      *)
(* ahead of it keeps it from that.                                         *)
(***************************************************************************)
QueuedCallsAreMade ==
    []<>(pc = "calls") => (queue # << >> ~> queue = << >>)

================================================================================
