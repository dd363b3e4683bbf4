---------------------------- MODULE CommandLine ----------------------------
(* What a program does with its command line: it reads its arguments with pf_argparse.h, and with pf_cli.h
   writes text and asks questions. *)
EXTENDS ArgParse, Wrap, Prompt

(* The command line: each argument reaches the callback once and in order, and what it did not
   understand makes the run fail; what is written fits the line, but for a word too wide for any line, or
   too wide beside the name of a definition; what is read for a question was typed for it, until a line is
   longer than its buffer.  ArgumentsRight of ArgParse, LinesFit of Wrap and AnswersInTurn of Prompt. *)
CommandLineRight == ArgumentsRight /\ LinesFit /\ AnswersInTurn
=============================================================================
