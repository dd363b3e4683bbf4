------------------------------- MODULE Prompt -------------------------------
(* pf_cli.h: questions to the user.  Each call reads one line with fgets() into a buffer of its own size;
   what does not fit waits for the next call; of a line that fits but for its newline the newline does, and
   is an empty answer.  A line is its length and what it says; terminal and stdin are external. *)
EXTENDS Integers, Sequences, SequencesExt

CONSTANTS Sizes,       \* the buffer of each question: "confirm" (32), "select" (64), "ask" (the caller's)
          SelectSize,       \* choices of a select
          Answers,     \* lines a user types: [length, says]
          MaxQuestions \* bound

ASSUME PromptConstantsOK ==
  /\ "none" \notin DOMAIN Sizes /\ \A kind \in DOMAIN Sizes : Sizes[kind] \in Nat
  /\ \A a \in Answers : a.length \in Nat
  /\ MaxQuestions \in Nat

VARIABLES input,       \* typed and not read: [length, says, question]
          asked,       \* questions asked
          open,        \* a question waits for its answer: the kind, or "none"
          result,      \* of the last question: what says was, "default", or "none"
          from,        \* the question the text read was typed for, 0 for none
          overlong     \* history: questions whose line was longer than the buffer they read it with

pvars == <<input, asked, open, result, from, overlong>>

PromptInit ==
  input = <<>> /\ asked = 0 /\ open = "none" /\ result = "none" /\ from = 0 /\ overlong = {}

(* The question is printed; the user, who sees it, types one line for it, or ends the input. *)
Question(kind) ==
  /\ open = "none" /\ asked < MaxQuestions
  /\ asked' = asked + 1 /\ open' = kind
  /\ \/ \E a \in Answers :
          /\ input' = Append(input, [length |-> a.length, says |-> a.says, question |-> asked'])
          /\ overlong' = IF a.length + 1 < Sizes[kind] THEN overlong ELSE overlong \cup {asked'}
     \/ UNCHANGED <<input, overlong>>
  /\ UNCHANGED <<result, from>>

(* fgets(): size - 1 characters at most, the newline among them. *)
Taken(size) == size - 1
Rest(line, size) ==
  LET left == line.length - Taken(size)
  IN IF left < 0 THEN <<>>
     ELSE <<[line EXCEPT !.length = left, !.says = IF left = 0 THEN "empty" ELSE "other"]>>

(* What a call reads of a line: of a label only the whole is the label. *)
Heard(line, size) == IF line.says = "label" /\ line.length > Taken(size) THEN "other" ELSE line.says

(* What the call makes of the text. *)
Meaning(kind, says) ==
  CASE kind = "ask" -> says
    [] kind = "confirm" -> IF says = "empty" THEN "default" ELSE IF says = "yes" THEN "yes" ELSE "no"
    [] kind = "select" -> IF says = "empty" THEN "default"
                          ELSE IF says \in {"first", "label"} /\ SelectSize > 0 THEN "first" ELSE "none"

Answer ==
  /\ open # "none" /\ input # <<>>
  /\ LET line == Head(input) IN
       /\ result' = Meaning(open, Heard(line, Sizes[open]))
       /\ from' = line.question
       /\ input' = Rest(line, Sizes[open]) \o Tail(input)
  /\ open' = "none"
  /\ UNCHANGED <<asked, overlong>>

(* fgets() returns NULL: the default of a confirm, no choice, no line. *)
EndOfInput ==
  /\ open # "none" /\ input = <<>>
  /\ result' = IF open = "confirm" THEN "default" ELSE "none"
  /\ from' = 0
  /\ open' = "none"
  /\ UNCHANGED <<input, asked, overlong>>

PromptNext == (\E kind \in DOMAIN Sizes : Question(kind)) \/ Answer \/ EndOfInput
PromptSpec == PromptInit /\ [][PromptNext]_pvars

-----------------------------------------------------------------------------
(* As long as every line typed fitted the buffer it was meant for, its newline included, each question
   is answered with its own line or with none, and nothing is left for the next; the first line that did
   not fit answers the questions after it, and delays every line from then on. *)
AnswersInTurn ==
  open = "none" /\ asked > 0 =>
    /\ overlong = {} => from \in {0, asked} /\ input = <<>>
    /\ from # 0 /\ from # asked => \E q \in overlong : q <= from
=============================================================================
