-------------------------------- MODULE CommandLine --------------------------------
(***************************************************************************)
(* The command line by which the supervisor starts its worker: the         *)
(* arguments that main picks for it (uniwm/src/main.c), the line that      *)
(* wm_proc_spawn_self builds of them (uniwm/src/proc_win.c), and the       *)
(* arguments that the C runtime of the worker takes out of that line.      *)
(* An argument is a sequence of characters; a flag counts as one of them.  *)
(***************************************************************************)
EXTENDS Integers, SequencesExt, SequenceFilter

CONSTANTS
  Self,              \* the path of the executable
  WorkerFlag,        \* "--worker"
  RestartFlag,       \* "--restart"
  ScriptFlag,        \* "-c"
  DefaultScript,     \* "config.lua"
  Blank, Quote, Backslash,
  Foreign,           \* the characters outside ASCII; none where the code page of main is UTF-8
  Replacement,       \* what the worker gets for one of them, "?"
  CHILD_ARGS_MAX,    \* the arguments that the worker gets at most
  ARG_WIDE_CAP,      \* the room for one of them
  COMMAND_LINE_CAP   \* the room for the line

ASSUME CharAssumption ==
  /\ {WorkerFlag, RestartFlag, ScriptFlag, Blank, Quote, Backslash} \subseteq STRING
  /\ WorkerFlag \notin {RestartFlag, ScriptFlag, Blank, Quote, Backslash}
  /\ RestartFlag \notin {ScriptFlag, Blank, Quote, Backslash}
  /\ ScriptFlag \notin {Blank, Quote, Backslash}
  /\ Blank \notin {Quote, Backslash} /\ Quote # Backslash
ASSUME ForeignAssumption ==
  /\ Foreign \subseteq STRING /\ Replacement \in STRING \ Foreign
  /\ {WorkerFlag, RestartFlag, ScriptFlag, Blank, Quote, Backslash} \cap Foreign = {}
ASSUME SelfAssumption ==
  /\ Self \in Seq(STRING) /\ DefaultScript \in Seq(STRING)
  /\ Quote \notin ToSet(Self)
ASSUME CapAssumption ==
  /\ CHILD_ARGS_MAX \in Nat \ {0} /\ ARG_WIDE_CAP \in Nat
  /\ COMMAND_LINE_CAP \in Nat /\ Len(Self) + 8 < COMMAND_LINE_CAP

-----------------------------------------------------------------------------
(* main and run_worker.                                                     *)

Kept(args) == Without(args, {<<WorkerFlag>>, <<RestartFlag>>})

Sent(args) == SubSeq(args, 1, Min({Len(args), CHILD_ARGS_MAX}))

\* Mutant: the flag comes after the arguments of the user.
FlagComesLast(args) == Sent(Append(Kept(args), <<WorkerFlag>>))

\* What is beyond the room for arguments is dropped.
child_args(args) == Sent(<<<<WorkerFlag>>>> \o Kept(args))

IsWorker(args) == <<WorkerFlag>> \in ToSet(args)

parse_script(args) ==
  LET at == {i \in 1 .. Len(args) - 1 : args[i] = <<ScriptFlag>>}
  IN  IF at = {} THEN DefaultScript ELSE args[Min(at) + 1]

-----------------------------------------------------------------------------
(* wm_proc_spawn_self.                                                      *)

\* A character, if there is room for it and for the zero at the end.
Put(line, c) == IF Len(line) + 1 < COMMAND_LINE_CAP THEN Append(line, c) ELSE line

\* A character of an argument, a quote with a backslash before it.
PutEscaped(line, c) ==
  IF Len(line) + 2 < COMMAND_LINE_CAP
  THEN Append(IF c = Quote THEN Append(line, Backslash) ELSE line, c)
  ELSE line

\* Mutant: a quote is not escaped.
QuotesUnescaped(line, text) ==
  LET Written[n \in 0 .. Len(text)] ==
        IF n = 0 THEN Put(line, Quote) ELSE Put(Written[n - 1], text[n])
  IN  Put(Written[Len(text)], Quote)

append_quoted(line, text) ==
  LET Written[n \in 0 .. Len(text)] ==
        IF n = 0 THEN Put(line, Quote) ELSE PutEscaped(Written[n - 1], text[n])
  IN  Put(Written[Len(text)], Quote)

\* The path, and the arguments after it.
Joined(args) ==
  LET Line[n \in 0 .. Len(args)] ==
        IF n = 0 THEN append_quoted(<<>>, Self)
        ELSE append_quoted(Put(Line[n - 1], Blank), args[n])
  IN  Line[Len(args)]

\* main gets its arguments in the code page of the system, one byte for a character, and
\* they are read as UTF-8, in which such a byte stands for nothing.  (Two that happen to
\* be a character of UTF-8 are lost just so.)
MultiByteToWideChar(text) ==
  [i \in DOMAIN text |-> IF text[i] \in Foreign THEN Replacement ELSE text[i]]

Converted(args) == [i \in DOMAIN args |-> MultiByteToWideChar(args[i])]

CommandLineOf(args) == Joined(Converted(args))

\* An argument that there is no room for, its zero included, fails the spawn.
Convertible(args) == \A i \in DOMAIN args : Len(args[i]) + 1 <= ARG_WIDE_CAP

-----------------------------------------------------------------------------
(* The C runtime: blanks between quotes are kept, 2n backslashes and a quote *)
(* stand for n backslashes, one more for n and the quote; the path is read   *)
(* up to its second quote.                                                   *)

NoArgument == [args |-> <<>>, text |-> <<>>, open |-> FALSE, quoted |-> FALSE, slashes |-> 0]

Backslashes(n) == [i \in 1 .. n |-> Backslash]

Flushed(s) == [s EXCEPT !.text = @ \o Backslashes(s.slashes), !.slashes = 0]
Closed(s)  == IF s.open
              THEN [s EXCEPT !.args = Append(@, s.text), !.text = <<>>, !.open = FALSE]
              ELSE s

ReadQuote(s) ==
  LET odd == s.slashes % 2 = 1 IN
  [s EXCEPT !.text = @ \o Backslashes(s.slashes \div 2) \o (IF odd THEN <<Quote>> ELSE <<>>),
            !.quoted = IF odd THEN @ ELSE ~@,
            !.slashes = 0, !.open = TRUE]

ReadChar(s, c) ==
  CASE c = Backslash             -> [s EXCEPT !.slashes = @ + 1, !.open = TRUE]
    [] c = Quote                 -> ReadQuote(s)
    [] c = Blank /\ ~s.quoted    -> Closed(Flushed(s))
    [] OTHER                     -> [Flushed(s) EXCEPT !.text = Append(@, c), !.open = TRUE]

\* What is read up to the end of the line; the path and its quotes come first.
Read(line) ==
  LET Upto[n \in 0 .. Len(line)] ==
        IF n <= Len(Self) + 2 THEN NoArgument ELSE ReadChar(Upto[n - 1], line[n])
  IN  Upto[Len(line)]

ArgumentsOf(line) == Closed(Flushed(Read(line))).args

-----------------------------------------------------------------------------
(* The arguments that reach the worker as they are.                        *)

\* No backslash before a quote nor at the end.
Plain(text) ==
  \A i \in DOMAIN text : text[i] = Backslash => i < Len(text) /\ text[i + 1] # Quote

\* No character that the conversion loses.
Ascii(text) == \A i \in DOMAIN text : text[i] \notin Foreign

\* All arguments are sent, and no character was left out for want of room.
Faithful(args) ==
  /\ \A i \in DOMAIN args : Plain(args[i]) /\ Ascii(args[i])
  /\ Len(Kept(args)) < CHILD_ARGS_MAX
  /\ Len(CommandLineOf(child_args(args))) + 2 < COMMAND_LINE_CAP

====================================================================================
