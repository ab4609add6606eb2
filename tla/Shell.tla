-------------------------------- MODULE Shell --------------------------------
(***************************************************************************)
(* modules/m2/shell/412shell.c: main reads a line and parse_command splits  *)
(* it with strtok, token by token.  do_fork is yet to be written.  A token  *)
(* is a sequence of characters, of which only the quote and ">" matter.     *)
(***************************************************************************)
EXTENDS Integers, Sequences, SequencesExt, FiniteSets

CONSTANTS Tokens, MaxTokens, MAX_ARGS, MaxLines

Redirect == <<">">>
NULL == <<>>    \* no token is empty

VARIABLES
    line, pos,      \* the tokens of the line, and strtok's place
    command, args, outputFile,  \* the ParsedCommand; numArgs is Len(args)
    status,         \* "prompt", "tokens", "quotes", "parsed", "exited", and if the
                    \* program went beyond args or through NULL, "overrun", "crashed"
    lines

vars == <<line, pos, command, args, outputFile, status, lines>>

Init ==
    /\ line = <<>> /\ pos = 1 /\ command = NULL /\ args = <<>> /\ outputFile = NULL
    /\ status = "prompt" /\ lines = 0

(* main: a line other than "exit" is parsed; that or the end of input ends it. *)
ReadLine ==
    /\ status \in {"prompt", "parsed"} /\ lines < MaxLines
    /\ line' \in SeqOf(Tokens, MaxTokens)
    /\ pos' = 1 /\ command' = NULL /\ args' = <<>> /\ outputFile' = NULL
    /\ status' = "tokens" /\ lines' = lines + 1

Exit ==
    /\ status \in {"prompt", "parsed"} /\ status' = "exited"
    /\ UNCHANGED <<line, pos, command, args, outputFile, lines>>

(* strtok *)
Token(k) == IF k <= Len(line) THEN line[k] ELSE NULL

TakeCommand ==
    /\ status = "tokens" /\ Token(pos) # NULL /\ command = NULL
    /\ command' = Token(pos) /\ pos' = pos + 1
    /\ UNCHANGED <<line, args, outputFile, status, lines>>

(* The token after ">", if there is one, is the file. *)
AfterRedirect_same == pos + 1
AfterRedirect == pos + 2

TakeRedirect ==
    /\ status = "tokens" /\ command # NULL /\ Token(pos) = Redirect
    /\ outputFile' = Token(pos + 1) /\ pos' = AfterRedirect
    /\ UNCHANGED <<line, command, args, status, lines>>

TakeArgument ==
    /\ status = "tokens" /\ command # NULL /\ Token(pos) \notin {NULL, Redirect}
    /\ IF Len(args) = MAX_ARGS THEN status' = "overrun" /\ UNCHANGED <<args, pos>>
       ELSE args' = Append(args, Token(pos)) /\ pos' = pos + 1 /\ UNCHANGED status
    /\ UNCHANGED <<line, command, outputFile, lines>>

EndOfLine ==
    /\ status = "tokens" /\ Token(pos) = NULL /\ status' = "quotes"
    /\ UNCHANGED <<line, pos, command, args, outputFile, lines>>

(* The last quote goes first, so that a single argument loses both. *)
Unquoted_first == [args EXCEPT ![1] = Tail(@)]
Unquoted ==
    LET cut == [args EXCEPT ![Len(args)] = Front(@)]
    IN [cut EXCEPT ![1] = IF @ = <<>> THEN @ ELSE Tail(@)]

(* The first and the last argument are read before numArgs is tested. *)
RemoveQuotes ==
    /\ status = "quotes"
    /\ IF args = <<>> THEN status' = "crashed" /\ UNCHANGED args
       ELSE /\ status' = "parsed"
            /\ args' = IF Head(Head(args)) = "quote" /\ Last(Last(args)) = "quote"
                       THEN Unquoted ELSE args
    /\ UNCHANGED <<line, pos, command, outputFile, lines>>

Next ==
    \/ ReadLine \/ Exit \/ TakeCommand \/ TakeRedirect \/ TakeArgument \/ EndOfLine
    \/ RemoveQuotes

Spec == Init /\ [][Next]_vars

-----------------------------------------------------------------------------
(* A position whose token is a ">" that redirects: not the command, nor the  *)
(* file of a redirection.                                                   *)
Redirects[k \in 0 .. MaxTokens] == k > 1 /\ line[k] = Redirect /\ ~Redirects[k - 1]
Arguments == {k \in 2 .. Len(line) : ~Redirects[k] /\ ~Redirects[k - 1]}
Nth(n) == CHOOSE k \in Arguments : Cardinality({j \in Arguments : j <= k}) = n

(* What is parsed is the line: the first token is the command, the file is   *)
(* that of the last redirection, and the arguments are the other tokens in   *)
(* order; their texts are whole but for one pair of quotes around them all.  *)
LineParsed ==
    status = "parsed" =>
      /\ command = line[1] /\ Len(args) = Cardinality(Arguments)
      /\ \A k \in 1 .. Len(line) : Redirects[k] /\ (\A j \in k + 1 .. Len(line) : ~Redirects[j])
           => outputFile = Token(k + 1)
      /\ LET said == [n \in DOMAIN args |-> line[Nth(n)]]
             text == FlattenSeq(said)
         IN IF Head(text) = "quote" /\ Last(text) = "quote"
            THEN FlattenSeq(args) = SubSeq(text, 2, Len(text) - 1)
            ELSE args = said
=============================================================================
