-------------------------------- MODULE Wrap --------------------------------
(* pf_cli.h: how pf__cli_wrap_at() breaks a text into lines, called by pf_cli_wrap() and
   pf_cli_help_definition().  A text is a sequence of words, by the columns they take (0 for one of
   escape sequences only), and explicit newlines; how characters make a word is left out. *)
EXTENDS Integers, Sequences, SequencesExt

CONSTANTS Texts,       \* sequences of widths and Newline
          Calls,       \* [first, next, width] for pf_cli_wrap()
          Names,       \* widths of the names of pf_cli_help_definition()
          Indents,     \* definitionIndent
          Terminals    \* what COLUMNS and the terminal say: numbers, 0 for nothing

Newline == -1

ASSUME WrapConstantsOK ==
  /\ \A t \in Texts : t \in Seq(Nat \cup {Newline})
  /\ \A c \in Calls : c.first \in Nat /\ c.next \in Nat /\ c.width \in Nat
  /\ Names \subseteq Nat /\ Indents \subseteq Nat /\ Terminals \subseteq Nat

VARIABLES text,         \* what is left of it
          width,        \* of a line
          indent, nextIndent, \* of this line and of the next ones, in columns
          col,          \* the column pf__cli_wrap_at() thinks the cursor is in
          lines         \* written, the last one is open: its columns, the visible words of the text on
                        \* it and whether the visible name of a definition is

wrapvars == <<text, width, indent, nextIndent, col, lines>>

AtLeast(n, low) == IF n < low THEN low ELSE n
Below(n, limit) == IF n >= limit THEN limit - 1 ELSE n

(* pf__cli_columns(): the variable COLUMNS, then the terminal, then 80. *)
Columns(variable, terminal) ==
  IF variable \in 20 .. 1000 THEN variable ELSE IF terminal >= 20 THEN terminal ELSE 80

(* The state in which the loop starts, with what the caller has written. *)
Begin(first, following, w, written) ==
  LET wide == AtLeast(w, 10) IN
    /\ width = wide
    /\ indent = Below(first, wide) /\ col = Below(first, wide)
    /\ nextIndent = Below(following, wide)
    /\ lines = written

(* pf_cli_wrap() fills firstIndent columns, whether or not they fit.  The width 0 is the stream's. *)
BeginWrap ==
  \E c \in Calls, terminal \in Terminals :
    Begin(c.first, c.next, IF c.width = 0 THEN Columns(0, terminal) ELSE c.width,
          <<[columns |-> c.first, words |-> 0, names |-> 0]>>)

Visible(w) == IF w > 0 THEN 1 ELSE 0

(* pf_cli_help_definition(): name and text side by side, or the text below, its first line not filled. *)
BeginDefinition ==
  \E name \in Names, left \in Indents, variable \in Terminals, terminal \in Terminals :
    LET columns == AtLeast(Columns(variable, terminal), 10)
        beside  == left + 30
    IN IF name > 30 \/ beside >= columns \/ columns - beside < 10
       THEN Begin(left + 4, left + 4, columns,
                  <<[columns |-> left + name, words |-> 0, names |-> Visible(name)],
                    [columns |-> 0, words |-> 0, names |-> 0]>>)
       ELSE Begin(beside, beside, columns,
                  <<[columns |-> beside, words |-> 0, names |-> Visible(name)]>>)

WrapInit == text \in Texts /\ (BeginWrap \/ BeginDefinition)

-----------------------------------------------------------------------------
WriteWord(w, spaces) ==
  lines' = Append(Front(lines), [Last(lines) EXCEPT !.columns = @ + spaces + w, !.words = @ + Visible(w)])

(* A newline of the text; nothing is filled at the end of it. *)
ExplicitNewline ==
  /\ text # <<>> /\ Head(text) = Newline
  /\ text' = Tail(text)
  /\ indent' = nextIndent /\ col' = nextIndent
  /\ lines' = Append(lines, [columns |-> IF text' = <<>> THEN 0 ELSE nextIndent, words |-> 0,
                            names |-> 0])
  /\ UNCHANGED <<width, nextIndent>>

AtWord == text # <<>> /\ Head(text) # Newline
FirstOnLine == col = indent
FitsBehind(w) == col + 1 + w <= width

FirstWord ==
  /\ AtWord /\ FirstOnLine
  /\ WriteWord(Head(text), 0) /\ col' = col + Head(text)
  /\ text' = Tail(text) /\ UNCHANGED <<width, indent, nextIndent>>

NextWord ==
  /\ AtWord /\ ~FirstOnLine /\ FitsBehind(Head(text))
  /\ WriteWord(Head(text), 1) /\ col' = col + 1 + Head(text)
  /\ text' = Tail(text) /\ UNCHANGED <<width, indent, nextIndent>>

WordOnNewLine ==
  /\ AtWord /\ ~FirstOnLine /\ ~FitsBehind(Head(text))
  /\ lines' = Append(lines, [columns |-> nextIndent + Head(text), words |-> Visible(Head(text)),
                            names |-> 0])
  /\ indent' = nextIndent /\ col' = nextIndent + Head(text)
  /\ text' = Tail(text) /\ UNCHANGED <<width, nextIndent>>

WrapNext == ExplicitNewline \/ FirstWord \/ NextWord \/ WordOnNewLine
WrapSpec == WrapInit /\ [][WrapNext]_wrapvars

-----------------------------------------------------------------------------
(* Whatever the indents, even wider than the line, and words of no width: a line is wider than asked for
   only if it has one visible word at most, or the name of a definition alone, or if it is the first line
   of a definition and has its name and one word of the text, for which ten columns or more were left. *)
LinesFit ==
  \A k \in DOMAIN lines :
    \/ lines[k].columns <= width
    \/ lines[k].words + lines[k].names <= 1
    \/ k = 1 /\ lines[k].words = 1 /\ lines[k].names = 1 /\ nextIndent + 10 <= width
=============================================================================
