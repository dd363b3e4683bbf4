------------------------- MODULE CommandLineProofs -------------------------
(* The command line, for all values of its constants: text that is wrapped, questions and their answers,
   and the arguments of the program. *)
EXTENDS CommandLine, Induction, SequenceTheorems, TLAPS

-----------------------------------------------------------------------------
(* Wrapping.  The open line is no longer than the column that the code has in mind, but when its first
   indent is: then the code takes the line for full, before its first visible word or after it. *)
Lines == [columns : Nat, words : Nat, names : Nat]
OpenLine == lines[Len(lines)]

WrapTyped ==
  /\ text \in Seq(Nat \cup {Newline})
  /\ width \in Nat \ {0} /\ indent \in Nat /\ nextIndent \in Nat /\ col \in Nat
  /\ indent <= col /\ indent < width /\ nextIndent < width
  /\ lines \in Seq(Lines) /\ lines # <<>>

Cursor ==
  /\ col = indent => OpenLine.words = 0
  /\ \/ OpenLine.columns <= col
     \/ OpenLine.words = 0 /\ col = indent /\ indent + 1 = width
     \/ OpenLine.words <= 1 /\ col >= width

TextFits == \A k \in DOMAIN lines : lines[k].columns <= width \/ lines[k].words <= 1

(* The name of a definition is on the first line, by itself or beside ten columns or more for the text. *)
NamedLine(k) ==
  lines[k].names # 0 =>
    /\ k = 1 /\ lines[k].names = 1
    /\ (lines[k].words = 0 /\ Len(lines) > 1) \/ nextIndent + 10 <= width
NamesPlaced == \A k \in DOMAIN lines : NamedLine(k)

WrapInv == WrapTyped /\ Cursor /\ TextFits /\ NamesPlaced

(* A line is too wide for a reason that LinesFit names. *)
LEMMA WrapInvEnough == WrapInv => LinesFit
  <1> SUFFICES ASSUME WrapInv, NEW k \in DOMAIN lines
               PROVE  \/ lines[k].columns <= width
                      \/ lines[k].words + lines[k].names <= 1
                      \/ k = 1 /\ lines[k].words = 1 /\ lines[k].names = 1 /\ nextIndent + 10 <= width
    BY DEF LinesFit
  <1>1. lines[k] \in Lines
    BY DEF WrapInv, WrapTyped
  <1>2. lines[k].words \in Nat /\ lines[k].names \in Nat
    BY <1>1 DEF Lines
  <1>3. lines[k].columns <= width \/ lines[k].words <= 1
    BY DEF WrapInv, TextFits
  <1>4. NamedLine(k)
    BY DEF WrapInv, NamesPlaced
  <1> QED
    BY <1>2, <1>3, <1>4 DEF NamedLine

(* A call starts with an empty line. *)
LEMMA BeginStarts ==
  ASSUME NEW first \in Nat, NEW following \in Nat, NEW w \in Nat, NEW written \in Seq(Lines),
         Begin(first, following, w, written), text \in Seq(Nat \cup {Newline}),
         written # <<>>, written[Len(written)].words = 0, written[Len(written)].columns <= first,
         \A k \in DOMAIN written : written[k].words <= 1,
         \A k \in DOMAIN written : written[k].names # 0 =>
           /\ k = 1 /\ written[k].names = 1
           /\ (written[k].words = 0 /\ Len(written) > 1) \/ Below(following, AtLeast(w, 10)) + 10 <= AtLeast(w, 10)
  PROVE  WrapInv
  <1>1. /\ width \in Nat \ {0} /\ indent \in Nat /\ nextIndent \in Nat /\ col \in Nat
        /\ col = indent /\ indent < width /\ nextIndent < width /\ lines = written
        /\ first <= indent \/ indent + 1 = width
    BY DEF Begin, AtLeast, Below
  <1>2. OpenLine \in Lines /\ OpenLine.columns <= first /\ OpenLine.words = 0
    <2>1. Len(written) \in 1 .. Len(written)
      OBVIOUS
    <2> QED
      BY <1>1, <2>1 DEF OpenLine
  <1>3. Cursor
    BY <1>1, <1>2 DEF Cursor, Lines
  <1>4. width = AtLeast(w, 10) /\ nextIndent = Below(following, AtLeast(w, 10))
    BY DEF Begin
  <1>5. NamesPlaced
    BY <1>1, <1>4 DEF NamesPlaced, NamedLine
  <1> QED
    BY <1>1, <1>3, <1>5 DEF WrapInv, WrapTyped, TextFits

(* The columns of the terminal. *)
LEMMA ColumnsOfTerminal ==
  ASSUME NEW variable \in Nat, NEW terminal \in Nat
  PROVE  Columns(variable, terminal) \in Nat
  BY DEF Columns

(* It holds in the beginning. *)
LEMMA WrapStarts == WrapInit => WrapInv
  <1> SUFFICES ASSUME WrapInit PROVE WrapInv
    OBVIOUS
  <1>1. text \in Seq(Nat \cup {Newline})
    BY WrapConstantsOK DEF WrapInit
  <1>2. CASE BeginWrap
    <2>1. PICK c \in Calls, terminal \in Terminals :
            Begin(c.first, c.next, IF c.width = 0 THEN Columns(0, terminal) ELSE c.width,
                  <<[columns |-> c.first, words |-> 0, names |-> 0]>>)
      BY <1>2 DEF BeginWrap
    <2> DEFINE w == IF c.width = 0 THEN Columns(0, terminal) ELSE c.width
               written == <<[columns |-> c.first, words |-> 0, names |-> 0]>>
    <2>2. c.first \in Nat /\ c.next \in Nat /\ c.width \in Nat /\ terminal \in Nat
      BY WrapConstantsOK
    <2>3. w \in Nat
      BY <2>2, ColumnsOfTerminal
    <2>4. /\ written \in Seq(Lines) /\ written # <<>> /\ written[Len(written)].words = 0
          /\ written[Len(written)].columns <= c.first
          /\ \A k \in DOMAIN written : written[k].words <= 1 /\ written[k].names = 0
      BY <2>2 DEF Lines
    <2>5. Begin(c.first, c.next, w, written)
      BY <2>1
    <2> HIDE DEF w, written
    <2>6. \A k \in DOMAIN written : written[k].words <= 1
      BY <2>4
    <2>7. \A k \in DOMAIN written : written[k].names # 0 =>
            /\ k = 1 /\ written[k].names = 1
            /\ \/ written[k].words = 0 /\ Len(written) > 1
               \/ Below(c.next, AtLeast(w, 10)) + 10 <= AtLeast(w, 10)
      BY <2>4
    <2> QED
      BY <1>1, <2>2, <2>3, <2>4, <2>5, <2>6, <2>7, BeginStarts
  <1>3. CASE BeginDefinition
    <2>1. PICK name \in Names, left \in Indents, variable \in Terminals, terminal \in Terminals :
            LET columns == AtLeast(Columns(variable, terminal), 10)
                beside  == left + 30
            IN IF name > 30 \/ beside >= columns \/ columns - beside < 10
               THEN Begin(left + 4, left + 4, columns,
                          <<[columns |-> left + name, words |-> 0, names |-> Visible(name)],
                            [columns |-> 0, words |-> 0, names |-> 0]>>)
               ELSE Begin(beside, beside, columns,
                          <<[columns |-> beside, words |-> 0, names |-> Visible(name)]>>)
      BY <1>3 DEF BeginDefinition
    <2> DEFINE w == AtLeast(Columns(variable, terminal), 10)
               below == <<[columns |-> left + name, words |-> 0, names |-> Visible(name)],
                          [columns |-> 0, words |-> 0, names |-> 0]>>
               beside == <<[columns |-> left + 30, words |-> 0, names |-> Visible(name)]>>
    <2>2. name \in Nat /\ left \in Nat /\ variable \in Nat /\ terminal \in Nat /\ left + 4 \in Nat /\ left + 30 \in Nat
      BY WrapConstantsOK
    <2>3. w \in Nat /\ AtLeast(w, 10) = w
      BY <2>2, ColumnsOfTerminal DEF AtLeast
    <2>9. Visible(name) \in {0, 1}
      BY DEF Visible
    <2>4. /\ below \in Seq(Lines) /\ below # <<>> /\ below[Len(below)].words = 0
          /\ below[Len(below)].columns <= left + 4
          /\ \A k \in DOMAIN below : below[k].words <= 1
          /\ \A k \in DOMAIN below : below[k].names # 0 =>
               k = 1 /\ below[k].names = 1 /\ below[k].words = 0 /\ Len(below) > 1
      <3> DEFINE v == Visible(name)
      <3> HIDE DEF v
      <3>1. v \in {0, 1}
        BY <2>9 DEF v
      <3>2. below = <<[columns |-> left + name, words |-> 0, names |-> v],
                      [columns |-> 0, words |-> 0, names |-> 0]>>
        BY DEF v
      <3> HIDE DEF below
      <3> QED
        BY <2>2, <3>1, <3>2 DEF Lines
    <2>5. /\ beside \in Seq(Lines) /\ beside # <<>> /\ beside[Len(beside)].words = 0
          /\ beside[Len(beside)].columns <= left + 30
          /\ \A k \in DOMAIN beside : beside[k].words <= 1
          /\ \A k \in DOMAIN beside : beside[k].names # 0 => k = 1 /\ beside[k].names = 1
      <3> DEFINE v == Visible(name)
      <3> HIDE DEF v
      <3>1. v \in {0, 1}
        BY <2>9 DEF v
      <3>2. beside = <<[columns |-> left + 30, words |-> 0, names |-> v]>>
        BY DEF v
      <3> HIDE DEF beside
      <3> QED
        BY <2>2, <3>1, <3>2 DEF Lines
    <2>6. \/ Begin(left + 4, left + 4, w, below)
          \/ Begin(left + 30, left + 30, w, beside) /\ ~(left + 30 >= w) /\ ~(w - (left + 30) < 10)
      BY <2>1
    <2> HIDE DEF w, below, beside
    <2>7. CASE Begin(left + 4, left + 4, w, below)
      BY <1>1, <2>2, <2>3, <2>4, <2>7, BeginStarts
    <2>8. CASE Begin(left + 30, left + 30, w, beside) /\ ~(left + 30 >= w) /\ ~(w - (left + 30) < 10)
      <3>1. Below(left + 30, AtLeast(w, 10)) + 10 <= AtLeast(w, 10)
        BY <2>2, <2>3, <2>8 DEF Below
      <3> QED
        BY <1>1, <2>2, <2>3, <2>5, <2>8, <3>1, BeginStarts
    <2> QED
      BY <2>6, <2>7, <2>8
  <1> QED
    BY <1>2, <1>3 DEF WrapInit

(* A line more, or a longer open line: the others stay. *)
LEMMA NewLine ==
  ASSUME WrapTyped, TextFits, NamesPlaced, NEW line \in Lines, lines' = Append(lines, line),
         UNCHANGED <<width, nextIndent>>,
         line.columns <= width \/ line.words <= 1, line.names = 0
  PROVE  lines' \in Seq(Lines) /\ lines' # <<>> /\ OpenLine' = line /\ TextFits' /\ NamesPlaced'
  <1>1. /\ Len(lines') = Len(lines) + 1 /\ lines' \in Seq(Lines) /\ lines'[Len(lines) + 1] = line
        /\ DOMAIN lines' = 1 .. Len(lines) + 1 /\ DOMAIN lines = 1 .. Len(lines) /\ Len(lines) \in Nat
        /\ \A k \in 1 .. Len(lines) : lines'[k] = lines[k]
    BY DEF WrapTyped
  <1>2. lines' # <<>> /\ OpenLine' = line
    BY <1>1 DEF OpenLine
  <1>3. ASSUME NEW k \in 1 .. Len(lines) + 1 PROVE lines'[k].columns <= width' \/ lines'[k].words <= 1
    <2>1. k \in 1 .. Len(lines) \/ k = Len(lines) + 1
      BY <1>1
    <2> QED
      BY <1>1, <2>1 DEF TextFits
  <1>4. ASSUME NEW k \in 1 .. Len(lines) + 1 PROVE NamedLine(k)'
    <2>1. CASE k \in 1 .. Len(lines)
      <3>1. NamedLine(k)
        BY <1>1, <2>1 DEF NamesPlaced
      <3> QED
        BY <1>1, <2>1, <3>1 DEF NamedLine
    <2>2. CASE k = Len(lines) + 1
      BY <1>1, <2>2 DEF NamedLine
    <2> QED
      BY <1>1, <2>1, <2>2
  <1> QED
    BY <1>1, <1>2, <1>3, <1>4 DEF TextFits, NamesPlaced

(* A word more on the line. *)
LEMMA LongerLine ==
  ASSUME WrapTyped, TextFits, NamesPlaced, NEW w \in Nat, NEW spaces \in Nat, WriteWord(w, spaces),
         UNCHANGED <<width, nextIndent>>,
         OpenLine.columns + spaces + w <= width \/ OpenLine.words + Visible(w) <= 1
  PROVE  /\ lines' \in Seq(Lines) /\ lines' # <<>> /\ TextFits' /\ NamesPlaced'
         /\ OpenLine'.columns = OpenLine.columns + spaces + w
         /\ OpenLine'.words = OpenLine.words + Visible(w)
  <1> DEFINE line == [OpenLine EXCEPT !.columns = @ + spaces + w, !.words = @ + Visible(w)]
             n == Len(lines)
  <1>1. n \in Nat \ {0} /\ n \in 1 .. n /\ DOMAIN lines = 1 .. n
    BY DEF WrapTyped
  <1>2. OpenLine \in Lines
    BY <1>1 DEF WrapTyped, OpenLine
  <1>3. /\ line \in Lines /\ line.names = OpenLine.names
        /\ line.columns = OpenLine.columns + spaces + w /\ line.words = OpenLine.words + Visible(w)
    <2> DEFINE seen == Visible(w)
    <2>1. seen \in Nat
      BY DEF Visible
    <2>2. line = [OpenLine EXCEPT !.columns = OpenLine.columns + spaces + w, !.words = OpenLine.words + seen]
      BY DEF line
    <2> HIDE DEF line, seen
    <2>3. OpenLine.columns \in Nat /\ OpenLine.words \in Nat
      BY <1>2 DEF Lines
    <2>4. line.columns = OpenLine.columns + spaces + w /\ line.words = OpenLine.words + seen
          /\ line.names = OpenLine.names
      BY <1>2, <2>2 DEF Lines
    <2>5. line \in Lines
      <3> DEFINE c == OpenLine.columns + spaces + w
                 d == OpenLine.words + seen
      <3>1. c \in Nat /\ d \in Nat /\ line = [OpenLine EXCEPT !.columns = c, !.words = d]
        BY <2>1, <2>2, <2>3
      <3> HIDE DEF c, d
      <3> QED
        BY <1>2, <3>1 DEF Lines
    <2> QED
      BY <2>4, <2>5 DEF seen
  <1>4. lines' = Append(SubSeq(lines, 1, n - 1), line)
    BY DEF WriteWord, Last, Front, OpenLine
  <1> HIDE DEF line
  <1>5. /\ SubSeq(lines, 1, n - 1) \in Seq(Lines) /\ Len(SubSeq(lines, 1, n - 1)) = n - 1
        /\ \A k \in 1 .. n - 1 : SubSeq(lines, 1, n - 1)[k] = lines[k]
    BY <1>1 DEF WrapTyped
  <1>6. /\ lines' \in Seq(Lines) /\ Len(lines') = n /\ lines'[n] = line
        /\ DOMAIN lines' = 1 .. n
        /\ \A k \in 1 .. n - 1 : lines'[k] = lines[k]
    <2> DEFINE front == SubSeq(lines, 1, n - 1)
    <2> HIDE DEF front, n
    <2>1. front \in Seq(Lines) /\ Len(front) = n - 1 /\ lines' = Append(front, line)
      BY <1>4, <1>5 DEF front
    <2>2. /\ lines' \in Seq(Lines) /\ Len(lines') = n /\ lines'[n] = line
          /\ \A k \in 1 .. n - 1 : lines'[k] = front[k]
      BY <1>1, <1>3, <2>1
    <2>3. DOMAIN lines' = 1 .. n
      BY <2>2
    <2> QED
      BY <1>5, <2>2, <2>3 DEF front
  <1>7. OpenLine' = line /\ lines' # <<>>
    BY <1>1, <1>6 DEF OpenLine
  <1>8. ASSUME NEW k \in 1 .. n PROVE lines'[k].columns <= width' \/ lines'[k].words <= 1
    <2>1. k \in 1 .. n - 1 \/ k = n
      <3> HIDE DEF n
      <3> QED
        BY <1>1
    <2>2. line.columns <= width \/ line.words <= 1
      BY <1>3
    <2> QED
      BY <1>1, <1>6, <2>1, <2>2 DEF TextFits
  <1>9. ASSUME NEW k \in 1 .. n PROVE NamedLine(k)'
    <2>1. NamedLine(k)
      BY <1>1, <1>9 DEF NamesPlaced
    <2>2. CASE k = n
      <3>1. k = 1 => ~(Len(lines) > 1)
        BY <1>1, <2>2
      <3>2. lines'[k].names = lines[k].names
        BY <1>3, <1>6, <2>2 DEF OpenLine
      <3> QED
        BY <1>1, <1>6, <2>1, <3>1, <3>2 DEF NamedLine
    <2>3. CASE k \in 1 .. n - 1
      BY <1>6, <2>1, <2>3 DEF NamedLine
    <2> HIDE DEF n
    <2> QED
      BY <1>1, <2>2, <2>3
  <1> QED
    BY <1>3, <1>6, <1>7, <1>8, <1>9 DEF TextFits, NamesPlaced

(* Every step keeps it. *)
LEMMA WrapStep == WrapInv /\ [WrapNext]_wrapvars => WrapInv'
  <1> SUFFICES ASSUME WrapInv, [WrapNext]_wrapvars PROVE WrapInv'
    OBVIOUS
  <1>0. WrapTyped /\ Cursor /\ TextFits /\ NamesPlaced
    BY DEF WrapInv
  <1>1. ASSUME text # <<>>
        PROVE  Head(text) \in Nat \cup {Newline} /\ Tail(text) \in Seq(Nat \cup {Newline})
    BY <1>0, <1>1 DEF WrapTyped
  <1>2. OpenLine \in Lines
    <2>1. Len(lines) \in 1 .. Len(lines)
      BY <1>0 DEF WrapTyped
    <2> QED
      BY <1>0, <2>1 DEF WrapTyped, OpenLine
  <1> DEFINE w == Head(text)
  <1>3. CASE ExplicitNewline
    <2> DEFINE line == [columns |-> IF text' = <<>> THEN 0 ELSE nextIndent, words |-> 0, names |-> 0]
    <2>1. /\ lines' = Append(lines, line) /\ line \in Lines /\ line.words = 0 /\ line.names = 0 /\ line.columns <= nextIndent
          /\ UNCHANGED <<width, nextIndent>> /\ indent' = nextIndent /\ col' = nextIndent
          /\ text' \in Seq(Nat \cup {Newline})
      BY <1>0, <1>1, <1>3 DEF ExplicitNewline, Lines, WrapTyped
    <2> HIDE DEF line
    <2>2. lines' \in Seq(Lines) /\ lines' # <<>> /\ OpenLine' = line /\ TextFits' /\ NamesPlaced'
      BY <1>0, <2>1, NewLine
    <2> QED
      BY <1>0, <2>1, <2>2 DEF WrapInv, WrapTyped, Cursor
  <1>4. ASSUME AtWord PROVE w \in Nat /\ Tail(text) \in Seq(Nat \cup {Newline}) /\ Visible(w) \in {0, 1}
                            /\ (w = 0 => Visible(w) = 0)
    BY <1>1, <1>4 DEF AtWord, Visible
  <1>5. CASE FirstWord
    <2>1. /\ WriteWord(w, 0) /\ col' = col + w /\ text' = Tail(text) /\ UNCHANGED <<width, indent, nextIndent>>
          /\ AtWord /\ col = indent
      BY <1>5 DEF FirstWord, FirstOnLine
    <2> HIDE DEF w
    <2>2. OpenLine.words = 0
      BY <1>0, <2>1 DEF Cursor
    <2>3. /\ lines' \in Seq(Lines) /\ lines' # <<>> /\ TextFits' /\ NamesPlaced'
          /\ OpenLine'.columns = OpenLine.columns + 0 + w
          /\ OpenLine'.words = OpenLine.words + Visible(w)
      BY <1>0, <1>4, <2>1, <2>2, LongerLine
    <2>4. Cursor'
      <3>1. OpenLine.columns \in Nat /\ col \in Nat /\ indent \in Nat /\ width \in Nat /\ indent < width
        BY <1>0, <1>2 DEF Lines, WrapTyped
      <3>2. OpenLine.columns <= col \/ indent + 1 = width
        BY <1>0, <2>1, <3>1 DEF Cursor
      <3>3. /\ OpenLine'.columns = OpenLine.columns + w /\ OpenLine'.words = Visible(w)
            /\ col' = col + w /\ indent' = indent /\ width' = width
        BY <1>4, <2>1, <2>2, <2>3, <3>1
      <3> QED
        BY <1>4, <2>1, <3>1, <3>2, <3>3 DEF Cursor
    <2> QED
      BY <1>0, <1>4, <2>1, <2>3, <2>4 DEF WrapInv, WrapTyped
  <1>6. CASE NextWord
    <2>1. /\ WriteWord(w, 1) /\ col' = col + 1 + w /\ text' = Tail(text) /\ UNCHANGED <<width, indent, nextIndent>>
          /\ AtWord /\ col # indent /\ col + 1 + w <= width
      BY <1>6 DEF NextWord, FirstOnLine, FitsBehind
    <2> HIDE DEF w
    <2>2. OpenLine.columns <= col
      BY <1>0, <1>4, <2>1 DEF Cursor, WrapTyped
    <2>3. OpenLine.columns + 1 + w <= width
      BY <1>0, <1>2, <1>4, <2>1, <2>2 DEF WrapTyped, Lines
    <2>4. /\ lines' \in Seq(Lines) /\ lines' # <<>> /\ TextFits' /\ NamesPlaced'
          /\ OpenLine'.columns = OpenLine.columns + 1 + w
          /\ OpenLine'.words = OpenLine.words + Visible(w)
      BY <1>0, <1>4, <2>1, <2>3, LongerLine
    <2>5. Cursor'
      <3>1. OpenLine.columns \in Nat /\ col \in Nat /\ indent \in Nat /\ indent <= col
        BY <1>0, <1>2 DEF Lines, WrapTyped
      <3>2. OpenLine'.columns <= col' /\ col' # indent'
        BY <1>4, <2>1, <2>2, <2>4, <3>1
      <3> QED
        BY <3>2 DEF Cursor
    <2> QED
      BY <1>0, <1>4, <2>1, <2>4, <2>5 DEF WrapInv, WrapTyped
  <1>7. CASE WordOnNewLine
    <2> DEFINE line == [columns |-> nextIndent + w, words |-> Visible(w), names |-> 0]
    <2>1. /\ lines' = Append(lines, line) /\ indent' = nextIndent /\ col' = nextIndent + w
          /\ text' = Tail(text) /\ UNCHANGED <<width, nextIndent>> /\ AtWord
      BY <1>7 DEF WordOnNewLine
    <2> HIDE DEF w
    <2>2. line \in Lines /\ line.words = Visible(w) /\ line.names = 0 /\ line.columns = nextIndent + w
      BY <1>0, <1>4, <2>1 DEF Lines, WrapTyped
    <2> HIDE DEF line
    <2>3. lines' \in Seq(Lines) /\ lines' # <<>> /\ OpenLine' = line /\ TextFits' /\ NamesPlaced'
      <3>1. line.words <= 1
        BY <1>4, <2>1, <2>2
      <3> QED
        BY <1>0, <2>1, <2>2, <3>1, NewLine
    <2>4. Cursor'
      BY <1>0, <1>4, <2>1, <2>2, <2>3 DEF Cursor, WrapTyped
    <2> QED
      BY <1>0, <1>4, <2>1, <2>3, <2>4 DEF WrapInv, WrapTyped
  <1>8. CASE UNCHANGED wrapvars
    BY <1>8 DEF wrapvars, WrapInv, WrapTyped, Cursor, TextFits, NamesPlaced, NamedLine, OpenLine
  <1> QED
    BY <1>3, <1>5, <1>6, <1>7, <1>8 DEF WrapNext

(* For any text, indents, names and terminals: a line of pf_cli_wrap() and of pf_cli_help_definition() is
   wider than it should be only with one visible word of the text on it at most, beside the name of the
   definition if it is its first line and ten columns or more were left for the text. *)
THEOREM WrappedLinesFit == WrapSpec => []LinesFit
  BY WrapStarts, WrapStep, WrapInvEnough, PTL DEF WrapSpec

-----------------------------------------------------------------------------
(* Questions.  A line that waits was typed for the open question and is the only one, or it comes no
   earlier than a line that did not fit. *)
Says == {a.says : a \in Answers} \cup {"empty", "other"}
Line == [length : Nat, says : Says, question : Nat]
Overdue(n) == \E q \in overlong : q <= n

OwnLine ==
  /\ open # "none" /\ Len(input) = 1 /\ input[1].question = asked
  /\ input[1].length + 1 < Sizes[open] \/ asked \in overlong

PromptTyped ==
  /\ asked \in Nat /\ overlong \subseteq 1 .. asked /\ from \in Nat
  /\ open \in DOMAIN Sizes \cup {"none"}
  /\ input \in Seq(Line)

PromptInv ==
  /\ PromptTyped
  /\ \A i \in 1 .. Len(input) : input[i].question <= asked /\ (Overdue(input[i].question) \/ OwnLine)
  /\ open = "none" => from \in {0, asked} \/ Overdue(from)

(* It holds in the beginning. *)
LEMMA PromptStarts == PromptInit => PromptInv
  BY PromptConstantsOK DEF PromptInit, PromptInv, PromptTyped

(* It is enough. *)
LEMMA PromptIsEnough == PromptInv => AnswersInTurn
  <1> SUFFICES ASSUME PromptInv, open = "none", asked > 0
               PROVE  /\ overlong = {} => from \in {0, asked} /\ input = <<>>
                      /\ from # 0 /\ from # asked => \E q \in overlong : q <= from
    BY DEF AnswersInTurn
  <1>1. from \in {0, asked} \/ Overdue(from)
    BY DEF PromptInv
  <1>2. \A i \in 1 .. Len(input) : Overdue(input[i].question)
    BY DEF PromptInv, OwnLine
  <1>3. overlong = {} => input = <<>>
    <2> SUFFICES ASSUME overlong = {}, input # <<>> PROVE FALSE
      OBVIOUS
    <2>1. 1 \in 1 .. Len(input)
      BY DEF PromptInv, PromptTyped
    <2> QED
      BY <1>2, <2>1 DEF Overdue
  <1> QED
    BY <1>1, <1>3 DEF Overdue

(* A question. *)
LEMMA QuestionStep ==
  ASSUME PromptInv, NEW kind \in DOMAIN Sizes, Question(kind)
  PROVE  PromptInv'
  <1>0. PromptTyped /\ open = "none" /\ asked' = asked + 1 /\ open' = kind /\ kind # "none" /\ from' = from
    BY PromptConstantsOK DEF PromptInv, Question
  <1>1. \A i \in 1 .. Len(input) : input[i].question <= asked /\ Overdue(input[i].question)
    BY <1>0 DEF PromptInv, OwnLine
  <1>2. CASE UNCHANGED <<input, overlong>>
    <2>1. PromptTyped'
      BY <1>0, <1>2 DEF PromptTyped
    <2>2. ASSUME NEW i \in 1 .. Len(input') PROVE input'[i].question <= asked' /\ Overdue(input[i].question)'
      <3>1. input[i] \in Line
        BY <1>0, <1>2 DEF PromptTyped
      <3> QED
        BY <1>0, <1>1, <1>2, <3>1 DEF Overdue, Line, PromptTyped
    <2> QED
      BY <1>0, <2>1, <2>2 DEF PromptInv
  <1>3. ASSUME NEW a \in Answers,
               input' = Append(input, [length |-> a.length, says |-> a.says, question |-> asked']),
               overlong' = IF a.length + 1 < Sizes[kind] THEN overlong ELSE overlong \cup {asked'}
        PROVE  PromptInv'
    <2> DEFINE line == [length |-> a.length, says |-> a.says, question |-> asked']
               n == Len(input)
    <2>1. line \in Line /\ line.question = asked + 1 /\ line.length = a.length
      BY <1>0, PromptConstantsOK DEF Line, Says, PromptTyped
    <2> HIDE DEF line
    <2>2. /\ input' \in Seq(Line) /\ Len(input') = n + 1 /\ input'[n + 1] = line /\ n \in Nat
          /\ \A i \in 1 .. n : input'[i] = input[i]
      BY <1>0, <1>3, <2>1 DEF PromptTyped, line
    <2>3. PromptTyped'
      BY <1>0, <1>3, <2>2 DEF PromptTyped
    <2>4. overlong \subseteq overlong' /\ \A m : Overdue(m) => Overdue(m)'
      BY <1>3 DEF Overdue
    <2>5. ASSUME NEW i \in 1 .. n PROVE input'[i].question <= asked' /\ Overdue(input[i].question)'
      <3>1. input[i] \in Line /\ input'[i] = input[i]
        BY <1>0, <2>2, <2>5 DEF PromptTyped
      <3>2. input[i].question \in Nat /\ input[i].question <= asked /\ Overdue(input[i].question)
        BY <1>1, <2>5, <3>1 DEF Line
      <3> QED
        BY <1>0, <1>3, <3>1, <3>2 DEF Overdue, PromptTyped
    <2>6. CASE n = 0
      <3>1. Len(input') = 1 /\ input'[1] = line
        BY <2>2, <2>6
      <3>2. OwnLine'
        BY <1>0, <1>3, <2>1, <3>1 DEF OwnLine
      <3> QED
        BY <1>0, <2>1, <2>3, <3>1, <3>2 DEF PromptInv, PromptTyped
    <2>7. CASE n > 0
      <3>1. input[1].question <= asked /\ Overdue(input[1].question) /\ input[1] \in Line
        BY <1>0, <1>1, <2>2, <2>7 DEF PromptTyped
      <3>2. PICK q \in overlong : q <= input[1].question
        BY <3>1 DEF Overdue
      <3>3. q \in Nat /\ q <= asked + 1 /\ q \in overlong'
        BY <1>0, <2>4, <3>1, <3>2 DEF PromptTyped, Line
      <3>4. ASSUME NEW i \in 1 .. n + 1 PROVE input'[i].question <= asked' /\ Overdue(input[i].question)'
        <4>1. CASE i = n + 1
          BY <1>0, <2>1, <2>2, <3>3, <4>1 DEF Overdue, PromptTyped
        <4>2. CASE i # n + 1
          <5>1. i \in 1 .. n
            BY <2>2, <4>2
          <5> QED
            BY <2>5, <5>1
        <4> QED
          BY <4>1, <4>2
      <3>5. \A i \in 1 .. Len(input') : input'[i].question <= asked' /\ Overdue(input[i].question)'
        BY <2>2, <3>4
      <3> QED
        BY <1>0, <2>3, <3>5 DEF PromptInv
    <2> QED
      BY <2>2, <2>6, <2>7
  <1> QED
    BY <1>2, <1>3 DEF Question

(* An answer that is read. *)
LEMMA AnswerStep ==
  ASSUME PromptInv, Answer
  PROVE  PromptInv'
  <1> DEFINE line == Head(input)
             n == Len(input)
             size == Sizes[open]
             rest == [line EXCEPT !.length = line.length - (size - 1),
                                  !.says = IF line.length - (size - 1) = 0 THEN "empty" ELSE "other"]
  <1>1. /\ PromptTyped /\ open \in DOMAIN Sizes /\ input # <<>> /\ open' = "none"
        /\ asked' = asked /\ overlong' = overlong /\ from' = line.question
        /\ input' = Rest(line, size) \o Tail(input)
    BY DEF PromptInv, PromptTyped, Answer
  <1>2. /\ n \in Nat \ {0} /\ 1 \in 1 .. n /\ line = input[1] /\ line \in Line
        /\ Tail(input) \in Seq(Line) /\ Len(Tail(input)) = n - 1
        /\ \A i \in 1 .. n - 1 : Tail(input)[i] = input[i + 1]
    BY <1>1 DEF PromptTyped
  <1>3. size \in Nat /\ line.length \in Nat /\ line.question \in Nat
    BY <1>1, <1>2, PromptConstantsOK DEF Line
  <1>4. line.question = asked \/ Overdue(line.question)
    BY <1>2 DEF PromptInv, OwnLine
  <1>5. ASSUME line.length - (size - 1) >= 0
        PROVE  Overdue(line.question)
    <2>1. Overdue(line.question) \/ OwnLine
      BY <1>2 DEF PromptInv
    <2>2. CASE OwnLine
      <3>1. line.question = asked /\ (line.length + 1 < size \/ asked \in overlong)
        BY <1>2, <2>2 DEF OwnLine
      <3> HIDE DEF line, size
      <3>2. ~(line.length + 1 < size)
        BY <1>3, <1>5
      <3> QED
        BY <1>3, <3>1, <3>2 DEF Overdue
    <2> QED
      BY <2>1, <2>2
  <1>6. ASSUME NEW i \in 2 .. n
        PROVE  input[i].question <= asked /\ Overdue(input[i].question)
    <2>1. n # 1 /\ i \in 1 .. n
      BY <1>2
    <2> QED
      BY <2>1 DEF PromptInv, OwnLine
  <1>7. line.question <= asked
    BY <1>2 DEF PromptInv
  <1>8. from' \in {0, asked'} \/ Overdue(from)'
    BY <1>1, <1>4 DEF Overdue
  <1>9. CASE line.length - (size - 1) < 0
    <2>1. input' = Tail(input)
      BY <1>1, <1>2, <1>9 DEF Rest, Taken
    <2>2. PromptTyped'
      BY <1>1, <1>2, <1>3, <2>1 DEF PromptTyped
    <2>3. ASSUME NEW i \in 1 .. n - 1 PROVE input'[i].question <= asked' /\ Overdue(input[i].question)'
      <3>1. i + 1 \in 2 .. n /\ input'[i] = input[i + 1]
        BY <1>2, <2>1
      <3> QED
        BY <1>1, <1>6, <3>1 DEF Overdue
    <2> QED
      BY <1>2, <1>8, <2>1, <2>2, <2>3 DEF PromptInv
  <1>10. CASE line.length - (size - 1) >= 0
    <2>1. Rest(line, size) = <<rest>>
      BY <1>3, <1>10 DEF Rest, Taken
    <2>2. rest \in Line /\ rest.question = line.question
      <3> DEFINE left == line.length - (size - 1)
                 says == IF left = 0 THEN "empty" ELSE "other"
      <3>1. left \in Nat /\ says \in Says
        BY <1>3, <1>10 DEF Says
      <3>2. line \in Line
        BY <1>2
      <3> HIDE DEF left, says, line
      <3>3. [line EXCEPT !.length = left, !.says = says] \in Line
        BY <3>1, <3>2 DEF Line
      <3>4. [line EXCEPT !.length = left, !.says = says].question = line.question
        BY <3>2 DEF Line
      <3> QED
        BY <3>3, <3>4 DEF left, says
    <2> HIDE DEF rest
    <2>3. /\ input' \in Seq(Line) /\ Len(input') = n /\ input'[1] = rest
          /\ \A i \in 2 .. n : input'[i] = input[i]
      <3> DEFINE tail == Tail(input)
      <3>1. tail \in Seq(Line) /\ Len(tail) = n - 1 /\ input' = <<rest>> \o tail
        BY <1>1, <1>2, <2>1
      <3>2. \A i \in 2 .. n : i - 1 \in 1 .. n - 1 /\ tail[i - 1] = input[i]
        BY <1>2
      <3> HIDE DEF tail, n
      <3>3. input' \in Seq(Line) /\ Len(input') = n /\ input'[1] = rest
        BY <1>2, <2>2, <3>1
      <3>4. \A i \in 2 .. n : input'[i] = tail[i - 1]
        BY <1>2, <2>2, <3>1
      <3> QED
        BY <3>2, <3>3, <3>4
    <2>4. PromptTyped'
      BY <1>1, <1>3, <2>3 DEF PromptTyped
    <2>5. input'[1].question <= asked' /\ Overdue(input[1].question)'
      BY <1>1, <1>5, <1>7, <1>10, <2>2, <2>3 DEF Overdue
    <2>6. ASSUME NEW i \in 2 .. n PROVE input'[i].question <= asked' /\ Overdue(input[i].question)'
      BY <1>1, <1>6, <2>3 DEF Overdue
    <2>7. \A i \in 1 .. n : i = 1 \/ i \in 2 .. n
      BY <1>2
    <2> QED
      BY <1>8, <2>3, <2>4, <2>5, <2>6, <2>7 DEF PromptInv
  <1> QED
    BY <1>3, <1>9, <1>10

(* Whatever the buffers, and whatever is typed: while every line fits, each question gets its own answer
   or none, and an answer that is not its own comes no earlier than a line that did not fit. *)
THEOREM AnswersComeInTurn == PromptSpec => []AnswersInTurn
  <1>1. PromptInv /\ [PromptNext]_pvars => PromptInv'
    <2> SUFFICES ASSUME PromptInv, [PromptNext]_pvars PROVE PromptInv'
      OBVIOUS
    <2>1. ASSUME NEW kind \in DOMAIN Sizes, Question(kind) PROVE PromptInv'
      BY <2>1, QuestionStep
    <2>2. CASE Answer
      BY <2>2, AnswerStep
    <2>3. CASE EndOfInput
      <3>1. /\ PromptTyped /\ input = <<>> /\ open' = "none" /\ from' = 0
            /\ UNCHANGED <<input, asked, overlong>>
        BY <2>3 DEF PromptInv, EndOfInput
      <3> QED
        BY <3>1 DEF PromptInv, PromptTyped
    <2>4. CASE UNCHANGED pvars
      BY <2>4 DEF pvars, PromptInv, PromptTyped, Overdue, OwnLine
    <2> QED
      BY <2>1, <2>2, <2>3, <2>4 DEF PromptNext
  <1> QED
    BY PromptStarts, <1>1, PromptIsEnough, PTL DEF PromptSpec

-----------------------------------------------------------------------------
(* Arguments. *)

(* A function of the library writes one value or none; nothing is written to the mask here. *)
LEMMA WrittenOnce ==
  ASSUME NEW item, NEW o \in Options, Written(o, item) # {}
  PROVE  \E v : Written(o, item) = {v}
  <1>1. CASE o = "verbose"
    <2>1. Written(o, item) = Toggled(item)
      BY <1>1 DEF Written
    <2> QED
      BY <2>1 DEF Toggled, Truth
  <1>2. CASE o = "help"
    BY <1>2 DEF Written, Truth
  <1>3. CASE o = "level"
    <2>1. Written(o, item) = Number(item.value)
      BY <1>3 DEF Written
    <2>2. ASSUME NEW d, NEW e, item.value = <<d>>, item.value = <<e>> PROVE d = e
      BY <2>2
    <2> QED
      BY <2>1, <2>2 DEF Number
  <1>4. CASE o = "color"
    <2>1. Written(o, item) = FirstAbbreviated(item.value)
      BY <1>4 DEF Written
    <2> QED
      BY <2>1 DEF FirstAbbreviated
  <1>5. CASE o = "mask"
    BY <1>5 DEF Written
  <1> QED
    BY <1>1, <1>2, <1>3, <1>4, <1>5 DEF Options

(* What the items of a cluster are: each letter before the value is one, the last of them with it. *)
FirstValue(chars) == Min({Len(chars) + 1} \cup {i \in 2 .. Len(chars) : chars[i] \notin Letters \cup {"?"}})
(* Where the value of a cluster of short options begins. *)
LEMMA FirstValueBounds ==
  ASSUME NEW chars \in Seq(STRING), chars # <<>>
  PROVE  /\ FirstValue(chars) \in 2 .. Len(chars) + 1
         /\ FirstValue(chars) <= Len(chars) => IsValue(chars[FirstValue(chars)])
         /\ \A i \in 2 .. FirstValue(chars) - 1 : ~IsValue(chars[i])
  <1> DEFINE T == {Len(chars) + 1} \cup {i \in 2 .. Len(chars) : chars[i] \notin Letters \cup {"?"}}
  <1>1. T \in SUBSET Nat /\ T # {} /\ Len(chars) \in Nat /\ Len(chars) >= 1
    OBVIOUS
  <1>2. \E x \in T : \A y \in T : x <= y
    BY <1>1, Least
  <1>3. FirstValue(chars) \in T /\ \A y \in T : FirstValue(chars) <= y
    BY <1>2 DEF FirstValue, Min
  <1>4. FirstValue(chars) \in 2 .. Len(chars) + 1
    BY <1>1, <1>3
  <1>5. FirstValue(chars) <= Len(chars) => IsValue(chars[FirstValue(chars)])
    BY <1>1, <1>3 DEF IsValue
  <1>6. ASSUME NEW i \in 2 .. FirstValue(chars) - 1 PROVE ~IsValue(chars[i])
    <2>1. i \in 2 .. Len(chars) /\ i < FirstValue(chars)
      BY <1>1, <1>4
    <2>2. i \notin T
      BY <1>3, <1>4, <2>1
    <2> QED
      BY <2>1, <2>2 DEF IsValue
  <1> QED
    BY <1>4, <1>5, <1>6

(* What a cluster means: an option for each letter, the value for the last one. *)
LEMMA ClusterItems ==
  ASSUME NEW chars \in Seq(STRING), chars # <<>>, \A i \in DOMAIN chars : chars[i] # "none",
         NEW i \in DOMAIN ShortItems(chars)
  PROVE  /\ DOMAIN ShortItems(chars) = 1 .. FirstValue(chars) - 1
         /\ i \in 1 .. Len(chars)
         /\ ShortItems(chars)[i] = [type |-> "short", name |-> chars[i],
                                    value |-> ValueFrom(chars, i + 1), negated |-> FALSE]
         /\ ValueFrom(chars, i + 1) # NoValue \/ i = Len(chars) <=> i = FirstValue(chars) - 1
  <1> DEFINE first == FirstValue(chars)
             rest == SubSeq(chars, first, Len(chars))
             own == IF rest = <<>> THEN NoValue ELSE IF Head(rest) = "=" THEN Tail(rest) ELSE rest
  <1>1. ShortItems(chars) = [j \in 1 .. first - 1 |->
          [type |-> "short", name |-> chars[j],
           value |-> IF j = first - 1 THEN own ELSE NoValue, negated |-> FALSE]]
    BY DEF ShortItems, FirstValue
  <1>2. /\ first \in 2 .. Len(chars) + 1
        /\ first <= Len(chars) => IsValue(chars[first])
        /\ \A j \in 2 .. first - 1 : ~IsValue(chars[j])
    BY FirstValueBounds
  <1> HIDE DEF first, rest, own
  <1>3. i \in 1 .. first - 1 /\ Len(chars) \in Nat /\ first \in Nat /\ Len(chars) >= 1
    BY <1>1, <1>2
  <1>4. DOMAIN ShortItems(chars) = 1 .. FirstValue(chars) - 1 /\ i \in 1 .. Len(chars)
    BY <1>1, <1>2, <1>3 DEF first
  <1>5. ShortItems(chars)[i] = [type |-> "short", name |-> chars[i],
                                value |-> IF i = first - 1 THEN own ELSE NoValue, negated |-> FALSE]
    BY <1>1, <1>3
  <1>6. CASE i < first - 1
    <2>1. ~IsValue(chars[i + 1]) /\ i # Len(chars) /\ i # first - 1
      BY <1>2, <1>3, <1>6
    <2>2. ValueFrom(chars, i + 1) = NoValue
      BY <2>1 DEF ValueFrom
    <2>3. ShortItems(chars)[i] = [type |-> "short", name |-> chars[i],
                                  value |-> ValueFrom(chars, i + 1), negated |-> FALSE]
      BY <1>5, <2>1, <2>2
    <2> QED
      BY <1>4, <2>1, <2>2, <2>3 DEF first
  <1>7. CASE i = first - 1 /\ first = Len(chars) + 1
    <2>1. rest = <<>>
      BY <1>3, <1>7 DEF rest
    <2>2. ValueFrom(chars, i + 1) = NoValue /\ own = NoValue /\ i = Len(chars)
      <3>1. i + 1 > Len(chars) /\ i = Len(chars)
        BY <1>3, <1>7
      <3> QED
        BY <2>1, <3>1 DEF ValueFrom, own
    <2>3. ShortItems(chars)[i] = [type |-> "short", name |-> chars[i],
                                  value |-> ValueFrom(chars, i + 1), negated |-> FALSE]
      BY <1>5, <1>7, <2>2
    <2> QED
      BY <1>4, <1>7, <2>2, <2>3 DEF first
  <1>8. CASE i = first - 1 /\ first <= Len(chars)
    <2>1. /\ rest \in Seq(STRING) /\ Len(rest) = Len(chars) - first + 1
          /\ \A k \in 1 .. Len(chars) - first + 1 : rest[k] = chars[first + k - 1]
      <3>1. \A k \in first .. Len(chars) : chars[k] \in STRING
        BY <1>3
      <3> QED
        BY <1>3, <1>8, <3>1, SubSeqProperties DEF rest
    <2>2. rest # <<>> /\ rest[1] = chars[first]
      <3>1. 1 \in 1 .. Len(chars) - first + 1 /\ first + 1 - 1 = first
        BY <1>3, <1>8
      <3>2. rest[1] = chars[first]
        BY <2>1, <3>1
      <3>3. Len(rest) # 0
        BY <1>3, <1>8, <2>1
      <3> QED
        BY <3>2, <3>3
    <2>9. Tail(rest) = SubSeq(chars, first + 1, Len(chars))
      <3> DEFINE other == SubSeq(chars, first + 1, Len(chars))
      <3>1. /\ Tail(rest) \in Seq(STRING) /\ Len(Tail(rest)) = Len(rest) - 1
            /\ \A k \in 1 .. Len(Tail(rest)) : Tail(rest)[k] = rest[k + 1]
        BY <2>1, <2>2, HeadTailProperties
      <3>2. /\ other \in Seq(STRING)
            /\ Len(other) = IF first + 1 <= Len(chars) THEN Len(chars) - (first + 1) + 1 ELSE 0
            /\ \A k \in 1 .. Len(chars) - (first + 1) + 1 : other[k] = chars[first + 1 + k - 1]
        <4>1. \A k \in first + 1 .. Len(chars) : chars[k] \in STRING
          BY <1>3
        <4> QED
          BY <1>3, <4>1, SubSeqProperties
      <3> HIDE DEF other
      <3>3. Len(other) = Len(Tail(rest))
        <4>1. Len(Tail(rest)) = Len(chars) - first
          BY <1>3, <2>1, <3>1
        <4>2. Len(other) = Len(chars) - first
          <5>1. CASE first + 1 <= Len(chars)
            BY <1>3, <3>2, <5>1
          <5>2. CASE ~(first + 1 <= Len(chars))
            <6>1. first = Len(chars)
              BY <1>3, <1>8, <5>2
            <6> QED
              BY <1>3, <3>2, <5>2, <6>1
          <5> QED
            BY <5>1, <5>2
        <4> QED
          BY <4>1, <4>2
      <3>4. ASSUME NEW k \in 1 .. Len(Tail(rest)) PROVE Tail(rest)[k] = other[k]
        <4>1. /\ k \in 1 .. Len(chars) - (first + 1) + 1 /\ k + 1 \in 1 .. Len(chars) - first + 1
              /\ first + 1 + k - 1 = first + (k + 1) - 1
          BY <1>3, <1>8, <2>1, <3>1
        <4> QED
          BY <2>1, <3>1, <3>2, <4>1
      <3> QED
        BY <3>1, <3>2, <3>3, <3>4, SeqEqual DEF other
    <2>3. i + 1 = first /\ i # Len(chars)
      BY <1>3, <1>8
    <2>4. Head(rest) = chars[first]
      BY <2>1, <2>2
    <2>5. ValueFrom(chars, i + 1) = own
      <3>1. IsValue(chars[i + 1]) /\ ~(i + 1 > Len(chars))
        BY <1>2, <1>3, <1>8, <2>3
      <3>2. ValueFrom(chars, i + 1) = SubSeq(chars, IF chars[first] = "=" THEN first + 1 ELSE first, Len(chars))
        BY <2>3, <3>1 DEF ValueFrom
      <3> QED
        BY <2>2, <2>9, <2>4, <3>2 DEF own, rest
    <2>6. ASSUME NEW j \in Nat, j > 0 PROVE SubSeq(chars, j, Len(chars)) # <<"none">>
      <3> DEFINE cut == SubSeq(chars, j, Len(chars))
      <3>1. /\ Len(cut) = IF j <= Len(chars) THEN Len(chars) - j + 1 ELSE 0
            /\ \A k \in 1 .. Len(chars) - j + 1 : cut[k] = chars[j + k - 1]
        <4>1. \A k \in j .. Len(chars) : chars[k] \in STRING
          BY <1>3, <2>6
        <4> QED
          BY <1>3, <2>6, <4>1, SubSeqProperties
      <3> HIDE DEF cut
      <3>2. ASSUME cut = <<"none">> PROVE FALSE
        <4>1. Len(cut) = 1 /\ cut[1] = "none"
          BY <3>2
        <4>2. j <= Len(chars)
          <5>1. CASE ~(j <= Len(chars))
            BY <3>1, <4>1, <5>1
          <5> QED
            BY <5>1
        <4>3. 1 \in 1 .. Len(chars) - j + 1 /\ j + 1 - 1 = j /\ j \in DOMAIN chars
          BY <1>3, <2>6, <4>2
        <4> QED
          BY <3>1, <4>1, <4>3
      <3> QED
        BY <3>2 DEF cut
    <2>7. ValueFrom(chars, i + 1) # NoValue
      <3>1. IsValue(chars[i + 1]) /\ ~(i + 1 > Len(chars)) /\ i + 1 \in Nat /\ i + 2 \in Nat /\ i + 1 + 1 = i + 2
            /\ i + 1 > 0 /\ i + 2 > 0
        BY <1>2, <1>3, <1>8, <2>3
      <3> QED
        BY <2>6, <3>1 DEF ValueFrom, NoValue
    <2>8. ShortItems(chars)[i] = [type |-> "short", name |-> chars[i],
                                  value |-> ValueFrom(chars, i + 1), negated |-> FALSE]
      BY <1>5, <1>8, <2>5
    <2> QED
      BY <1>4, <1>8, <2>7, <2>8 DEF first
  <1> QED
    BY <1>2, <1>3, <1>6, <1>7, <1>8

-----------------------------------------------------------------------------
SeenItems == {[item |-> Meant(p[1])[p[2]], word |-> p[1], place |-> p[2]] : p \in Places}
ArgTyped ==
  /\ argv \in Seq(ArgWords) /\ index \in 1 .. Len(argv) + 1 /\ at \in Nat /\ at >= 1
  /\ silent \in BOOLEAN /\ paused \in BOOLEAN /\ failed \in BOOLEAN
  /\ status \in Int /\ stage \in {"run", "returned", "wild"}
  /\ paramv \in Seq(Nat) /\ delivered \in Seq(SeenItems)

(* Where the loop is: behind a "--" or not, at the first character of a word or within a cluster. *)
Whereabouts ==
  /\ paused <=> Ends(index)
  /\ at > 1 => /\ index \in DOMAIN argv /\ ~paused /\ argv[index].kind = "cluster"
               /\ at \in DOMAIN Meant(index) /\ status = 0
  /\ stage = "returned" /\ status = 0 => index = Len(argv) + 1

(* The callback saw what lies before that, unless it wanted no more, and nothing else. *)
SeenSoFar ==
  /\ \A k \in Seen : Before(PlaceOf(k), <<index, at>>)
  /\ \A j, k \in Seen : j < k => Before(PlaceOf(j), PlaceOf(k))
  /\ \A p \in Places :
       (status = 0 /\ Before(p, <<index, at>>)) \/ (\E k \in Seen : Before(p, PlaceOf(k)))
       => \E k \in Seen : PlaceOf(k) = p

ParametersSoFar ==
  /\ Len(paramv) < index
  /\ \A i \in DOMAIN paramv : paramv[i] < index
  /\ \A i, j \in DOMAIN paramv : i < j => paramv[i] < paramv[j]
  /\ \A n \in Nat :
       (\E i \in DOMAIN paramv : paramv[i] = n)
       <=> \E k \in Seen : Handed(k).type = "param" /\ Handed(k).name = n

HelpSoFar == assigned["help"] \in BOOLEAN /\ (assigned["help"] = TRUE <=> HelpBefore(Len(delivered) + 1))

ErrorsSoFar ==
  /\ \A k \in Seen :
       ~Understood(Handed(k)) /\ ~silent /\ ~HelpBefore(k) =>
         /\ failed /\ (at > 1 => delivered[k].word = index)
         /\ delivered[Len(delivered)].word = delivered[k].word
  /\ stage = "returned" /\ failed => status # 0

ArgInv ==
  /\ ArgTyped /\ Whereabouts /\ SeenSoFar /\ ParametersSoFar
  /\ HelpSoFar /\ LastDecides /\ ErrorsSoFar

(* The arguments stay what they are. *)
LEMMA ArgvSame ==
  ASSUME argv' = argv
  PROVE  /\ Places' = Places /\ SeenItems' = SeenItems
         /\ \A n : Meant(n)' = Meant(n) /\ (Ends(n)' <=> Ends(n))
  <1>1. \A n : Ends(n)' <=> Ends(n)
    BY DEF Ends
  <1>2. \A n : Meant(n)' = Meant(n)
    BY <1>1 DEF Meant
  <1>3. Places' = Places
    BY <1>2 DEF Places
  <1> QED
    BY <1>1, <1>2, <1>3 DEF SeenItems

(* The places of arguments. *)
LEMMA PlaceMember ==
  ASSUME NEW n, NEW i
  PROVE  <<n, i>> \in Places <=> n \in DOMAIN argv /\ i \in DOMAIN Meant(n)
  BY DEF Places

(* A word stands for a number of arguments, none for an end. *)
LEMMA MeantSequence ==
  ASSUME ArgTyped, NEW n \in DOMAIN argv
  PROVE  \E m \in Nat : DOMAIN Meant(n) = 1 .. m
  <1>1. argv[n] \in ArgWords
    BY DEF ArgTyped
  <1>2. CASE Ends(n) \/ argv[n].kind = "param"
    <2> DEFINE e == [type |-> "param", name |-> n, value |-> NoValue, negated |-> FALSE]
    <2>1. Meant(n) = <<e>>
      BY <1>2 DEF Meant
    <2> HIDE DEF e
    <2> QED
      BY <2>1
  <1>3. CASE ~Ends(n) /\ argv[n].kind = "dashes"
    BY <1>3 DEF Meant
  <1>4. CASE ~Ends(n) /\ argv[n].kind = "long"
    BY <1>4 DEF Meant
  <1>5. CASE ~Ends(n) /\ argv[n].kind = "cluster"
    <2> DEFINE chars == argv[n].chars
    <2>1. chars \in Seq(STRING) /\ chars # <<>>
      BY <1>1, <1>5, WordsAssumption
    <2>2. Meant(n) = ShortItems(chars)
      BY <1>5 DEF Meant
    <2>3. DOMAIN ShortItems(chars) = 1 .. FirstValue(chars) - 1
      BY DEF ShortItems, FirstValue
    <2>4. FirstValue(chars) - 1 \in Nat
      BY <2>1, FirstValueBounds
    <2> QED
      BY <2>2, <2>3, <2>4
  <1> QED
    BY <1>1, <1>2, <1>3, <1>4, <1>5, WordsAssumption

(* The counters are numbers. *)
LEMMA ArgNumbers ==
  ASSUME ArgTyped
  PROVE  /\ index \in Nat /\ index >= 1 /\ at \in Nat /\ at >= 1 /\ Len(argv) \in Nat
         /\ Len(paramv) \in Nat /\ Len(delivered) \in Nat /\ DOMAIN argv = 1 .. Len(argv)
  BY DEF ArgTyped

(* A place is a pair of numbers. *)
LEMMA PlaceNumbers ==
  ASSUME ArgTyped, NEW p \in Places
  PROVE  p[1] \in Nat /\ p[2] \in Nat /\ p[2] >= 1 /\ p = <<p[1], p[2]>> /\ p[2] \in DOMAIN Meant(p[1])
  <1>1. PICK m \in DOMAIN argv : p \in {m} \X DOMAIN Meant(m)
    BY DEF Places
  <1>2. m \in Nat
    BY DEF ArgTyped
  <1>3. PICK q \in Nat : DOMAIN Meant(m) = 1 .. q
    BY MeantSequence
  <1>4. p[1] = m /\ p[2] \in 1 .. q /\ p = <<p[1], p[2]>>
    BY <1>1, <1>3
  <1> QED
    BY <1>2, <1>3, <1>4

(* What the callback saw stands in argv, where the history says. *)
LEMMA SeenAtItsPlace ==
  ASSUME ArgTyped, NEW k \in Seen
  PROVE  PlaceOf(k) \in Places /\ Handed(k) = Meant(PlaceOf(k)[1])[PlaceOf(k)[2]]
  <1>1. delivered[k] \in SeenItems
    BY DEF ArgTyped, Seen
  <1>2. PICK p \in Places : delivered[k] = [item |-> Meant(p[1])[p[2]], word |-> p[1], place |-> p[2]]
    BY <1>1 DEF SeenItems
  <1>3. PlaceOf(k) = p
    BY <1>2, PlaceNumbers DEF PlaceOf
  <1> QED
    BY <1>2, <1>3 DEF Handed

(* What the callback saw before it still saw, and the new item is the last. *)
LEMMA DeliveredOne ==
  ASSUME ArgTyped, NEW item, Deliver(item), <<index, at>> \in Places, item = Meant(index)[at],
         NEW n \in Nat, n = Len(delivered)
  PROVE  /\ Seen = 1 .. n /\ Seen' = 1 .. n + 1 /\ Len(delivered') = n + 1
         /\ \A k \in 1 .. n : delivered'[k] = delivered[k]
         /\ delivered'[n + 1] = [item |-> item, word |-> index, place |-> at]
         /\ delivered' \in Seq(SeenItems)'
  <1> DEFINE e == [item |-> item, word |-> index, place |-> at]
  <1>1. e \in SeenItems
    <2> DEFINE p == <<index, at>>
    <2>1. e = [item |-> Meant(p[1])[p[2]], word |-> p[1], place |-> p[2]]
      OBVIOUS
    <2> HIDE DEF e
    <2> QED
      BY <2>1 DEF SeenItems
  <1>2. delivered' = Append(delivered, e) /\ argv' = argv
    BY DEF Deliver
  <1>3. delivered \in Seq(SeenItems)
    BY DEF ArgTyped
  <1>4. delivered' \in Seq(SeenItems)
    BY <1>1, <1>2, <1>3
  <1>5. Seen = 1 .. n /\ Seen' = 1 .. n + 1 /\ Len(delivered') = n + 1
    BY <1>1, <1>2, <1>3, <1>4 DEF Seen
  <1>6. (\A k \in 1 .. n : delivered'[k] = delivered[k]) /\ delivered'[n + 1] = e
    BY <1>1, <1>2, <1>3
  <1>7. SeenItems' = SeenItems
    BY <1>2, ArgvSame
  <1> QED
    BY <1>4, <1>5, <1>6, <1>7

(* The new item alone decides on its option; the other variables keep what decided on them. *)
LEMMA AssignedByItem ==
  ASSUME NEW item, Deliver(item)
  PROVE  /\ \A o \in Options : Decides(o, item) => {assigned'[o]} = Written(o, item)
         /\ \A o \in Options : ~Decides(o, item) /\ o # "mask" => assigned'[o] = assigned[o]
         /\ ~Decides("mask", item)
         /\ failed' = (failed \/ (~Understood(item) /\ ~silent /\ ~assigned["help"]))
  <1> DEFINE understood == {o \in Named(item) : Written(o, item) # {}}
  <1>1. \A o : o \in understood <=> Decides(o, item)
    BY DEF Decides
  <1>2. \A o : Decides(o, item) => o \in Options
    BY DEF Decides, Named
  <1>3. ~Decides("mask", item)
    BY DEF Decides, Written
  <1>4. PICK mask : assigned' = [o \in Options |-> IF o \in understood THEN CHOOSE v \in Written(o, item) : TRUE
                                                  ELSE IF o = "mask" THEN mask ELSE assigned[o]]
    BY DEF Deliver
  <1>5. failed' = (failed \/ (item.type # "param" /\ understood = {} /\ ~silent /\ ~assigned["help"]))
    BY DEF Deliver
  <1> HIDE DEF understood
  <1>6. ASSUME NEW o \in Options, Decides(o, item) PROVE {assigned'[o]} = Written(o, item)
    <2>1. PICK v : Written(o, item) = {v}
      BY <1>6, WrittenOnce DEF Decides
    <2>2. assigned'[o] = CHOOSE u \in Written(o, item) : TRUE
      BY <1>1, <1>4, <1>6
    <2>3. (CHOOSE u \in Written(o, item) : TRUE) = v
      BY <2>1
    <2> QED
      BY <2>1, <2>2, <2>3
  <1>7. \A o \in Options : ~Decides(o, item) /\ o # "mask" => assigned'[o] = assigned[o]
    BY <1>1, <1>4
  <1>8. understood = {} <=> \A o \in Options : ~Decides(o, item)
    BY <1>1, <1>2
  <1>9. (~Understood(item)) <=> (item.type # "param" /\ understood = {})
    BY <1>8 DEF Understood
  <1> QED
    BY <1>3, <1>5, <1>6, <1>7, <1>9

(* An argument that is seen decides what its name was assigned. *)
LEMMA LastDecidesStep ==
  ASSUME ArgTyped, LastDecides, NEW item, Deliver(item), <<index, at>> \in Places, item = Meant(index)[at]
  PROVE  LastDecides'
  <1>1. PICK n \in Nat : n = Len(delivered)
    <2>1. delivered \in Seq(SeenItems)
      BY DEF ArgTyped
    <2> QED
      BY <2>1, LenProperties
  <1>2. /\ Seen = 1 .. n /\ Seen' = 1 .. n + 1 /\ Len(delivered') = n + 1
        /\ \A k \in 1 .. n : delivered'[k] = delivered[k]
        /\ delivered'[n + 1] = [item |-> item, word |-> index, place |-> at]
    BY <1>1, DeliveredOne
  <1>3. SUFFICES ASSUME NEW o \in Options, NEW k \in 1 .. n + 1,
                        Decides(o, delivered'[k].item),
                        \A j \in 1 .. n + 1 : k < j => ~Decides(o, delivered'[j].item)
                 PROVE  {assigned'[o]} = Written(o, delivered'[k].item)
    <2>1. \A j \in 1 .. n + 1 : j < n + 1 + 1
      OBVIOUS
    <2> QED
      BY <1>2, <2>1 DEF LastDecides, DecidesLast, Handed
  <1>4. CASE k = n + 1
    BY <1>2, <1>3, <1>4, AssignedByItem
  <1>5. CASE k \in 1 .. n
    <2>1. ~Decides(o, item)
      BY <1>2, <1>3, <1>5
    <2>2. o # "mask"
      BY <1>3 DEF Decides, Written
    <2>3. assigned'[o] = assigned[o]
      BY <2>1, <2>2, AssignedByItem
    <2>4. Decides(o, Handed(k)) /\ \A j \in Seen : k < j /\ j < Len(delivered) + 1 => ~Decides(o, Handed(j))
      BY <1>2, <1>3, <1>5 DEF Handed
    <2>5. {assigned[o]} = Written(o, Handed(k))
      BY <1>2, <1>5, <2>4 DEF LastDecides, DecidesLast
    <2> QED
      BY <1>2, <1>5, <2>3, <2>5 DEF Handed
  <1> QED
    BY <1>4, <1>5

(* Whether help was asked for before an item does not change when another one comes. *)
LEMMA HelpSettled ==
  ASSUME ArgTyped, NEW item, Deliver(item), <<index, at>> \in Places, item = Meant(index)[at],
         NEW n \in Nat, n = Len(delivered), NEW m \in 1 .. n + 1
  PROVE  HelpBefore(m)' <=> HelpBefore(m)
  <1>1. /\ Seen = 1 .. n /\ Seen' = 1 .. n + 1
        /\ \A k \in 1 .. n : delivered'[k] = delivered[k]
    BY DeliveredOne
  <1>2. \A k \in Seen' : k < m => k \in 1 .. n
    BY <1>1
  <1>3. \A k \in 1 .. n : Handed(k)' = Handed(k)
    BY <1>1 DEF Handed
  <1>4. \A k \in 1 .. n : DecidesLast("help", k, m)' <=> DecidesLast("help", k, m)
    BY <1>1, <1>2, <1>3 DEF DecidesLast
  <1>5. ASSUME HelpBefore(m)' PROVE HelpBefore(m)
    <2>1. PICK k \in Seen' : k < m /\ DecidesLast("help", k, m)' /\ Written("help", Handed(k)') = {TRUE}
      BY <1>5 DEF HelpBefore
    <2>2. k \in 1 .. n /\ k \in Seen
      BY <1>1, <1>2, <2>1
    <2>3. DecidesLast("help", k, m) /\ Written("help", Handed(k)) = {TRUE}
      BY <1>3, <1>4, <2>1, <2>2
    <2> QED
      BY <2>1, <2>2, <2>3 DEF HelpBefore
  <1>6. ASSUME HelpBefore(m) PROVE HelpBefore(m)'
    <2>1. PICK k \in Seen : k < m /\ DecidesLast("help", k, m) /\ Written("help", Handed(k)) = {TRUE}
      BY <1>6 DEF HelpBefore
    <2>2. k \in 1 .. n /\ k \in Seen'
      BY <1>1, <2>1
    <2>3. DecidesLast("help", k, m)' /\ Written("help", Handed(k)') = {TRUE}
      BY <1>3, <1>4, <2>1, <2>2
    <2> QED
      BY <2>1, <2>2, <2>3 DEF HelpBefore
  <1> QED
    BY <1>5, <1>6

(* A call for help is noticed when it is seen. *)
LEMMA HelpSoFarStep ==
  ASSUME ArgTyped, HelpSoFar, NEW item, Deliver(item), <<index, at>> \in Places, item = Meant(index)[at]
  PROVE  HelpSoFar'
  <1>1. PICK n \in Nat : n = Len(delivered)
    <2>1. delivered \in Seq(SeenItems)
      BY DEF ArgTyped
    <2> QED
      BY <2>1, LenProperties
  <1>2. /\ Seen = 1 .. n /\ Seen' = 1 .. n + 1 /\ Len(delivered') = n + 1
        /\ \A k \in 1 .. n : delivered'[k] = delivered[k]
        /\ delivered'[n + 1] = [item |-> item, word |-> index, place |-> at]
    BY <1>1, DeliveredOne
  <1>3. HelpBefore(n + 1)' <=> HelpBefore(n + 1)
    BY <1>1, HelpSettled
  <1>4. "help" \in Options /\ "help" # "mask"
    BY DEF Options
  <1>5. CASE Decides("help", item)
    <2>1. {assigned'["help"]} = Written("help", item)
      BY <1>4, <1>5, AssignedByItem
    <2>2. Written("help", item) = {TRUE} \/ Written("help", item) = {FALSE}
      BY <1>5 DEF Decides, Written, Truth
    <2>3. assigned'["help"] \in BOOLEAN /\ (assigned'["help"] = TRUE <=> Written("help", item) = {TRUE})
      BY <2>1, <2>2
    <2>4. HelpBefore(n + 2)' <=> Written("help", item) = {TRUE}
      <3>1. Handed(n + 1)' = item
        BY <1>2 DEF Handed
      <3>2. DecidesLast("help", n + 1, n + 2)'
        BY <1>2, <1>5, <3>1 DEF DecidesLast
      <3>3. \A k \in 1 .. n : ~DecidesLast("help", k, n + 2)'
        BY <1>2, <1>5, <3>1 DEF DecidesLast
      <3>4. \A k \in Seen' : k \in 1 .. n \/ k = n + 1
        BY <1>2
      <3>5. n + 1 \in Seen' /\ n + 1 < n + 2
        BY <1>2
      <3> QED
        BY <3>1, <3>2, <3>3, <3>4, <3>5 DEF HelpBefore
    <2>5. n + 2 = Len(delivered') + 1
      BY <1>2
    <2>6. HelpBefore(Len(delivered) + 1)' <=> Written("help", item) = {TRUE}
      BY <2>4, <2>5 DEF HelpBefore, DecidesLast
    <2> QED
      BY <2>3, <2>6 DEF HelpSoFar
  <1>6. CASE ~Decides("help", item)
    <2>1. assigned'["help"] = assigned["help"]
      BY <1>4, <1>6, AssignedByItem
    <2>2. ~Decides("help", Handed(n + 1)')
      BY <1>2, <1>6 DEF Handed
    <2>3. \A k \in 1 .. n : DecidesLast("help", k, n + 2)' <=> DecidesLast("help", k, n + 1)'
      <3>1. \A j \in 1 .. n + 1 : j < n + 2 /\ (j < n + 1 <=> j # n + 1)
        OBVIOUS
      <3> QED
        BY <1>2, <2>2, <3>1 DEF DecidesLast
    <2>4. ~DecidesLast("help", n + 1, n + 2)'
      BY <2>2 DEF DecidesLast
    <2>5. \A k \in Seen' : k = n + 1 \/ k \in 1 .. n
      BY <1>2
    <2>6. \A k \in 1 .. n : k < n + 2 /\ k < n + 1 /\ k \in Seen'
      BY <1>2
    <2>7. HelpBefore(n + 2)' <=> HelpBefore(n + 1)'
      <3>1. ASSUME HelpBefore(n + 2)' PROVE HelpBefore(n + 1)'
        <4>1. PICK k \in Seen' : DecidesLast("help", k, n + 2)' /\ Written("help", Handed(k)') = {TRUE}
          BY <3>1 DEF HelpBefore
        <4>2. k \in 1 .. n
          BY <2>4, <2>5, <4>1
        <4> QED
          BY <2>3, <2>6, <4>1, <4>2 DEF HelpBefore
      <3>2. ASSUME HelpBefore(n + 1)' PROVE HelpBefore(n + 2)'
        <4>1. PICK k \in Seen' : k < n + 1 /\ DecidesLast("help", k, n + 1)' /\ Written("help", Handed(k)') = {TRUE}
          BY <3>2 DEF HelpBefore
        <4>2. k \in 1 .. n
          BY <2>5, <4>1
        <4> QED
          BY <2>3, <2>6, <4>1, <4>2 DEF HelpBefore
      <3> QED
        BY <3>1, <3>2
    <2>8. n + 2 = Len(delivered') + 1
      BY <1>2
    <2>9. HelpBefore(Len(delivered) + 1)' <=> HelpBefore(Len(delivered) + 1)
      BY <1>1, <1>3, <2>7, <2>8 DEF HelpBefore, DecidesLast
    <2> QED
      BY <2>1, <2>9 DEF HelpSoFar
  <1> QED
    BY <1>5, <1>6

(* Nothing is missed and nothing comes twice: what was next has been seen, and what is next lies behind. *)
LEMMA SeenSoFarStep ==
  ASSUME ArgTyped, SeenSoFar, NEW item, Deliver(item), <<index, at>> \in Places, item = Meant(index)[at],
         status = 0, NEW b \in Nat, NEW c \in Nat, index' = b, at' = c,
         \/ b = index + 1 /\ c = 1 /\ (status' = 0 => at + 1 \notin DOMAIN Meant(index))
         \/ b = index /\ c = at + 1
  PROVE  SeenSoFar'
  <1>1. PICK n \in Nat : n = Len(delivered)
    <2>1. delivered \in Seq(SeenItems)
      BY DEF ArgTyped
    <2> QED
      BY <2>1, LenProperties
  <1>2. /\ Seen = 1 .. n /\ Seen' = 1 .. n + 1
        /\ \A k \in 1 .. n : delivered'[k] = delivered[k]
        /\ delivered'[n + 1] = [item |-> item, word |-> index, place |-> at]
    BY <1>1, DeliveredOne
  <1>3. PICK w \in Nat, a \in Nat : w = index /\ a = at /\ a >= 1
    BY DEF ArgTyped
  <1>4. (\A k \in 1 .. n : PlaceOf(k)' = PlaceOf(k)) /\ PlaceOf(n + 1)' = <<w, a>>
    BY <1>2, <1>3 DEF PlaceOf
  <1>5. Places' = Places
    BY ArgvSame DEF Deliver
  <1>6. \A p \in Places : p[1] \in Nat /\ p[2] \in Nat /\ p = <<p[1], p[2]>> /\ p[2] >= 1
    BY PlaceNumbers
  <1>7. \A k \in 1 .. n : PlaceOf(k) \in Places
    BY <1>2, SeenAtItsPlace
  <1>8. ASSUME NEW p \in Places, Before(p, <<b, c>>), ~Before(p, <<w, a>>), status' = 0 PROVE p = <<w, a>>
    <2>1. p[1] < b \/ (p[1] = b /\ p[2] < c)
      BY <1>8 DEF Before
    <2>2. ~(p[1] < w) /\ (p[1] = w => ~(p[2] < a))
      BY <1>8 DEF Before
    <2>3. p[1] = w /\ p[2] >= a
      BY <1>3, <1>6, <2>1, <2>2
    <2>4. CASE b = w + 1 /\ a + 1 \notin DOMAIN Meant(w)
      <3>1. PICK q \in Nat : DOMAIN Meant(w) = 1 .. q
        BY <1>3, MeantSequence, PlaceMember
      <3>2. p[2] \in 1 .. q
        BY <2>3, <3>1, PlaceNumbers
      <3>3. ~(a + 1 <= q)
        BY <1>3, <2>4, <3>1
      <3>4. p[2] = a
        BY <1>3, <1>6, <2>3, <3>2, <3>3
      <3> QED
        BY <1>6, <2>3, <3>4
    <2>5. CASE b = w /\ c = a + 1
      <3>1. p[2] = a
        BY <1>3, <1>6, <2>1, <2>3, <2>5
      <3> QED
        BY <1>6, <2>3, <3>1
    <2> QED
      BY <1>3, <1>8, <2>4, <2>5
  <1>9. Before(<<w, a>>, <<b, c>>)
    BY <1>3 DEF Before
  <1>10. ASSUME NEW p \in Places, Before(p, <<w, a>>) PROVE Before(p, <<b, c>>)
    <2>1. p[1] < w \/ (p[1] = w /\ p[2] < a)
      BY <1>10 DEF Before
    <2>2. p[1] < b \/ (p[1] = b /\ p[2] < c)
      BY <1>3, <1>6, <2>1
    <2> QED
      BY <2>2 DEF Before
  <1>11. ASSUME NEW k \in 1 .. n PROVE Before(PlaceOf(k), <<w, a>>)
    BY <1>2, <1>3 DEF SeenSoFar
  <1>12. ASSUME NEW k \in Seen' PROVE Before(PlaceOf(k), <<index, at>>)'
    <2>1. k = n + 1 \/ k \in 1 .. n
      BY <1>2
    <2>2. Before(PlaceOf(k)', <<b, c>>)
      BY <1>4, <1>7, <1>9, <1>10, <1>11, <2>1
    <2> QED
      BY <2>2 DEF Before
  <1>13. ASSUME NEW j \in Seen', NEW k \in Seen', j < k PROVE Before(PlaceOf(j), PlaceOf(k))'
    <2>1. j \in 1 .. n /\ (k = n + 1 \/ k \in 1 .. n)
      BY <1>2, <1>13
    <2>2. k \in 1 .. n => Before(PlaceOf(j), PlaceOf(k))
      BY <1>2, <1>13, <2>1 DEF SeenSoFar
    <2>3. Before(PlaceOf(j)', PlaceOf(k)')
      BY <1>4, <1>11, <2>1, <2>2
    <2> QED
      BY <2>3 DEF Before
  <1>14. ASSUME NEW p \in Places, Before(p, <<w, a>>) PROVE \E k \in 1 .. n : PlaceOf(k) = p
    BY <1>2, <1>3, <1>14 DEF SeenSoFar
  <1>15. ASSUME NEW p \in Places,
                (status' = 0 /\ Before(p, <<b, c>>)) \/ (\E k \in Seen' : Before(p, PlaceOf(k)'))
         PROVE  \E k \in Seen' : PlaceOf(k)' = p
    <2>1. n + 1 \in Seen' /\ \A k \in 1 .. n : k \in Seen'
      BY <1>2
    <2>2. CASE Before(p, <<w, a>>)
      BY <1>4, <1>14, <2>1, <2>2
    <2>3. CASE status' = 0 /\ Before(p, <<b, c>>)
      BY <1>4, <1>8, <2>1, <2>2, <2>3
    <2>4. ASSUME NEW k \in Seen', Before(p, PlaceOf(k)') PROVE \E j \in Seen' : PlaceOf(j)' = p
      <3>1. CASE k = n + 1
        BY <1>4, <2>2, <2>4, <3>1
      <3>2. CASE k \in 1 .. n
        <4>1. PICK j \in 1 .. n : PlaceOf(j) = p
          BY <1>2, <1>4, <2>4, <3>2 DEF SeenSoFar
        <4> QED
          BY <1>4, <2>1, <4>1
      <3> QED
        BY <1>2, <3>1, <3>2
    <2> QED
      BY <1>15, <2>3, <2>4
  <1>16. ASSUME NEW p \in Places',
                (status' = 0 /\ Before(p, <<index, at>>)') \/ (\E k \in Seen' : Before(p, PlaceOf(k))')
         PROVE  \E k \in Seen' : PlaceOf(k)' = p
    <2>1. Before(p, <<index, at>>)' => Before(p, <<b, c>>)
      BY DEF Before
    <2>2. \A k \in Seen' : Before(p, PlaceOf(k))' => Before(p, PlaceOf(k)')
      BY DEF Before
    <2> QED
      BY <1>5, <1>15, <1>16, <2>1, <2>2
  <1> QED
    BY <1>12, <1>13, <1>16 DEF SeenSoFar

(* A parameter is numbered when the callback sees it. *)
LEMMA ParametersStep ==
  ASSUME ArgTyped, ParametersSoFar, NEW item, Deliver(item),
         <<index, at>> \in Places, item = Meant(index)[at], NEW b \in Nat, index' = b,
         \/ item.type = "param" /\ item.name = index /\ paramv' = Append(paramv, index) /\ b = index + 1
         \/ item.type # "param" /\ paramv' = paramv /\ b >= index
  PROVE  ParametersSoFar'
  <1>1. PICK n \in Nat : n = Len(delivered)
    <2>1. delivered \in Seq(SeenItems)
      BY DEF ArgTyped
    <2> QED
      BY <2>1, LenProperties
  <1>2. /\ Seen = 1 .. n /\ Seen' = 1 .. n + 1
        /\ \A k \in 1 .. n : delivered'[k] = delivered[k]
        /\ delivered'[n + 1] = [item |-> item, word |-> index, place |-> at]
    BY <1>1, DeliveredOne
  <1>3. PICK w \in Nat, m \in Nat : w = index /\ m = Len(paramv)
    BY ArgNumbers
  <1>4. paramv \in Seq(Nat) /\ DOMAIN paramv = 1 .. m /\ \A i \in 1 .. m : paramv[i] \in Nat
    BY <1>3 DEF ArgTyped
  <1>5. /\ m < w /\ \A i \in 1 .. m : paramv[i] < w
        /\ \A i, j \in 1 .. m : i < j => paramv[i] < paramv[j]
        /\ \A x \in Nat : (\E i \in 1 .. m : paramv[i] = x)
                          <=> \E k \in 1 .. n : Handed(k).type = "param" /\ Handed(k).name = x
    BY <1>2, <1>3, <1>4 DEF ParametersSoFar
  <1>6. (\A k \in 1 .. n : Handed(k)' = Handed(k)) /\ Handed(n + 1)' = item
    BY <1>2 DEF Handed
  <1>7. CASE item.type = "param" /\ item.name = w /\ paramv' = Append(paramv, w) /\ b = w + 1
    <2>1. /\ DOMAIN paramv' = 1 .. m + 1 /\ Len(paramv') = m + 1 /\ paramv'[m + 1] = w
          /\ \A i \in 1 .. m : paramv'[i] = paramv[i]
      BY <1>3, <1>4, <1>7
    <2>2. \A i \in 1 .. m + 1 : i = m + 1 \/ i \in 1 .. m
      OBVIOUS
    <2>3. m + 1 < b
      BY <1>5, <1>7
    <2>4. \A i \in 1 .. m + 1 : paramv'[i] < b
      BY <1>4, <1>5, <1>7, <2>1, <2>2
    <2>5. ASSUME NEW i \in 1 .. m + 1, NEW j \in 1 .. m + 1, i < j PROVE paramv'[i] < paramv'[j]
      <3>1. i \in 1 .. m
        BY <2>5
      <3> QED
        BY <1>4, <1>5, <2>1, <2>2, <2>5, <3>1
    <2>6. ASSUME NEW x \in Nat
          PROVE  (\E i \in 1 .. m + 1 : paramv'[i] = x)
                 <=> \E k \in 1 .. n + 1 : Handed(k)'.type = "param" /\ Handed(k)'.name = x
      <3>1. (\E i \in 1 .. m + 1 : paramv'[i] = x) <=> x = w \/ \E i \in 1 .. m : paramv[i] = x
        BY <2>1, <2>2
      <3>2. (\E k \in 1 .. n + 1 : Handed(k)'.type = "param" /\ Handed(k)'.name = x)
            <=> x = w \/ \E k \in 1 .. n : Handed(k).type = "param" /\ Handed(k).name = x
        <4>1. \A k \in 1 .. n + 1 : k = n + 1 \/ k \in 1 .. n
          OBVIOUS
        <4>2. \A k \in 1 .. n : k \in 1 .. n + 1
          OBVIOUS
        <4>3. n + 1 \in 1 .. n + 1
          OBVIOUS
        <4>4. Handed(n + 1)'.type = "param" /\ Handed(n + 1)'.name = w
          BY <1>6, <1>7
        <4> QED
          BY <1>6, <4>1, <4>2, <4>3, <4>4
      <3> QED
        BY <1>5, <3>1, <3>2
    <2> QED
      BY <1>2, <2>1, <2>3, <2>4, <2>5, <2>6 DEF ParametersSoFar
  <1>8. CASE item.type # "param" /\ paramv' = paramv /\ b >= w
    <2>1. Len(paramv') = m /\ DOMAIN paramv' = 1 .. m
      BY <1>3, <1>4, <1>8
    <2>2. m < b /\ \A i \in 1 .. m : paramv[i] < b
      BY <1>4, <1>5, <1>8
    <2>3. ASSUME NEW x \in Nat
          PROVE  (\E k \in 1 .. n + 1 : Handed(k)'.type = "param" /\ Handed(k)'.name = x)
                 <=> \E k \in 1 .. n : Handed(k).type = "param" /\ Handed(k).name = x
      <3>1. \A k \in 1 .. n + 1 : k = n + 1 \/ k \in 1 .. n
        OBVIOUS
      <3>2. \A k \in 1 .. n : k \in 1 .. n + 1
        OBVIOUS
      <3> QED
        BY <1>6, <1>8, <3>1, <3>2
    <2>4. /\ Len(paramv') < index'
          /\ \A i \in DOMAIN paramv' : paramv'[i] < index'
      BY <1>8, <2>1, <2>2
    <2>5. \A i, j \in DOMAIN paramv' : i < j => paramv'[i] < paramv'[j]
      BY <1>5, <1>8, <2>1
    <2>6. ASSUME NEW x \in Nat
          PROVE  (\E i \in DOMAIN paramv' : paramv'[i] = x)
                 <=> \E k \in Seen' : Handed(k)'.type = "param" /\ Handed(k)'.name = x
      BY <1>2, <1>5, <1>8, <2>1, <2>3
    <2> QED
      BY <2>4, <2>5, <2>6 DEF ParametersSoFar
  <1> QED
    BY <1>3, <1>7, <1>8

(* An error that counts has been recorded, and nothing but the rest of its argument comes behind it. *)
LEMMA ErrorsStep ==
  ASSUME ArgTyped, HelpSoFar, ErrorsSoFar, NEW item, Deliver(item),
         <<index, at>> \in Places, item = Meant(index)[at], stage = "run", at = 1 => ~failed,
         at' > 1 => index' = index
  PROVE  ErrorsSoFar'
  <1>1. PICK n \in Nat : n = Len(delivered)
    <2>1. delivered \in Seq(SeenItems)
      BY DEF ArgTyped
    <2> QED
      BY <2>1, LenProperties
  <1>2. /\ Seen = 1 .. n /\ Seen' = 1 .. n + 1 /\ Len(delivered') = n + 1
        /\ \A k \in 1 .. n : delivered'[k] = delivered[k]
        /\ delivered'[n + 1] = [item |-> item, word |-> index, place |-> at]
    BY <1>1, DeliveredOne
  <1>3. silent' = silent /\ stage' \in {"run", "wild"}
    BY DEF Deliver
  <1>4. failed' = (failed \/ (~Understood(item) /\ ~silent /\ ~assigned["help"]))
    BY AssignedByItem
  <1>5. ASSUME NEW k \in 1 .. n + 1, ~Understood(delivered'[k].item), ~silent, ~HelpBefore(k)'
        PROVE  failed' /\ delivered'[k].word = index
    <2>1. ~HelpBefore(k)
      BY <1>1, <1>5, HelpSettled
    <2>2. CASE k \in 1 .. n
      <3>1. ~Understood(Handed(k)) /\ ~silent /\ ~HelpBefore(k) /\ k \in Seen
        BY <1>2, <1>5, <2>1, <2>2 DEF Handed
      <3>2. failed /\ (at > 1 => delivered[k].word = index)
        BY <3>1 DEF ErrorsSoFar
      <3>3. at > 1
        BY <3>2 DEF ArgTyped
      <3> QED
        BY <1>2, <1>4, <2>2, <3>2, <3>3
    <2>3. CASE k = n + 1
      <3>1. ~Understood(item) /\ delivered'[k].word = index
        BY <1>2, <1>5, <2>3
      <3>2. ~assigned["help"]
        BY <1>1, <2>1, <2>3 DEF HelpSoFar
      <3> QED
        BY <1>4, <1>5, <3>1, <3>2
    <2> QED
      BY <2>2, <2>3
  <1>6. ASSUME NEW k \in Seen', ~Understood(Handed(k))', ~silent', ~HelpBefore(k)'
        PROVE  /\ failed' /\ (at' > 1 => delivered'[k].word = index')
               /\ delivered'[Len(delivered')].word = delivered'[k].word
    <2>1. k \in 1 .. n + 1 /\ ~Understood(delivered'[k].item)
      BY <1>2, <1>6 DEF Handed, Understood
    <2>2. failed' /\ delivered'[k].word = index
      BY <1>3, <1>5, <1>6, <2>1
    <2>3. delivered'[Len(delivered')].word = index
      BY <1>2
    <2> QED
      BY <2>2, <2>3
  <1> QED
    BY <1>3, <1>6 DEF ErrorsSoFar

(* One more argument seen, whatever the handler, keeps the invariant. *)
LEMMA ItemStep ==
  ASSUME ArgInv, NEW item, Deliver(item),
         <<index, at>> \in Places, item = Meant(index)[at], stage = "run", status = 0, at = 1 => ~failed,
         NEW b \in Nat, NEW c \in Nat, index' = b, at' = c, paused' = paused,
         \/ /\ b = index + 1 /\ c = 1 /\ (status' = 0 => at + 1 \notin DOMAIN Meant(index))
            /\ Ends(index) \/ argv[index].kind # "dashes"
         \/ /\ b = index /\ c = at + 1 /\ c \in DOMAIN Meant(index) /\ status' = 0
            /\ ~paused /\ argv[index].kind = "cluster",
         \/ item.type = "param" /\ item.name = index /\ paramv' = Append(paramv, index) /\ b = index + 1
         \/ item.type # "param" /\ paramv' = paramv
  PROVE  ArgInv'
  <1>1. ArgTyped /\ argv' = argv /\ silent' = silent /\ status' \in {0, StopCode} /\ stage' \in {"run", "wild"}
    BY DEF ArgInv, Deliver
  <1>2. /\ index \in Nat /\ index >= 1 /\ at \in Nat /\ at >= 1 /\ Len(argv) \in Nat
        /\ DOMAIN argv = 1 .. Len(argv)
    BY <1>1, ArgNumbers
  <1>3. index \in DOMAIN argv
    BY PlaceMember
  <1>4. ArgTyped'
    <2>1. delivered' \in Seq(SeenItems)'
      BY <1>1, ArgNumbers, DeliveredOne
    <2>2. index' \in 1 .. Len(argv') + 1 /\ at' \in Nat /\ at' >= 1
      BY <1>1, <1>2, <1>3
    <2>3. paramv' \in Seq(Nat)
      <3>1. paramv \in Seq(Nat) /\ index \in Nat
        BY <1>1, <1>2 DEF ArgTyped
      <3>2. paramv' = paramv \/ paramv' = Append(paramv, index)
        OBVIOUS
      <3>3. Append(paramv, index) \in Seq(Nat)
        BY <3>1, AppendProperties
      <3> QED
        BY <3>1, <3>2, <3>3
    <2>4. failed' \in BOOLEAN
      BY AssignedByItem
    <2>5. status' \in Int
      BY <1>1 DEF StopCode
    <2> QED
      BY <1>1, <2>1, <2>2, <2>3, <2>4, <2>5 DEF ArgTyped
  <1>5. Whereabouts'
    <2>1. stage' # "returned"
      BY <1>1
    <2>2. Meant(b)' = Meant(b)
      BY <1>1, ArgvSame
    <2>3. Ends(index)' <=> \E k \in 1 .. b - 1 : argv[k].kind = "dashes"
      BY <1>1 DEF Ends
    <2>4. paused <=> \E k \in 1 .. index - 1 : argv[k].kind = "dashes"
      BY DEF ArgInv, Whereabouts, Ends
    <2>5. CASE b = index + 1 /\ c = 1 /\ (Ends(index) \/ argv[index].kind # "dashes")
      <3>1. \A k \in 1 .. b - 1 : k = index \/ k \in 1 .. index - 1
        BY <1>2, <2>5
      <3>2. \A k \in 1 .. index - 1 : k \in 1 .. b - 1
        BY <1>2, <2>5
      <3>3. (\E k \in 1 .. b - 1 : argv[k].kind = "dashes") <=> \E k \in 1 .. index - 1 : argv[k].kind = "dashes"
        BY <2>5, <3>1, <3>2 DEF Ends
      <3>4. ~(at' > 1)
        BY <2>5
      <3> QED
        BY <2>1, <2>3, <2>4, <3>3, <3>4 DEF Whereabouts
    <2>6. CASE b = index /\ c = at + 1 /\ c \in DOMAIN Meant(index) /\ status' = 0 /\ ~paused
               /\ argv[index].kind = "cluster"
      <3>1. at' \in DOMAIN Meant(index)'
        <4>1. Meant(index)' = Meant(index)
          BY <1>1, <2>6, ArgvSame DEF Meant, Ends
        <4> QED
          BY <2>6, <4>1
      <3> QED
        BY <1>1, <1>3, <2>1, <2>3, <2>4, <2>6, <3>1 DEF Whereabouts
    <2> QED
      BY <2>5, <2>6
  <1>6. SeenSoFar'
    BY <1>1, SeenSoFarStep DEF ArgInv
  <1>7. ParametersSoFar'
    BY <1>1, <1>2, ParametersStep DEF ArgInv
  <1>8. HelpSoFar'
    BY <1>1, HelpSoFarStep DEF ArgInv
  <1>9. LastDecides'
    BY <1>1, LastDecidesStep DEF ArgInv
  <1>10. ErrorsSoFar'
    BY <1>1, <1>2, ErrorsStep DEF ArgInv
  <1> QED
    BY <1>4, <1>5, <1>6, <1>7, <1>8, <1>9, <1>10 DEF ArgInv

-----------------------------------------------------------------------------
(* The steps of the loop: each of them takes what argv says next. *)
LEMMA TurnFacts ==
  ASSUME ArgInv, NEW kinds, Turn(kinds)
  PROVE  /\ index \in DOMAIN argv /\ argv[index] \in ArgWords /\ argv[index].kind \in kinds
         /\ stage = "run" /\ status = 0 /\ (at = 1 => ~failed)
         /\ index \in Nat /\ index + 1 \in Nat /\ at \in Nat /\ at + 1 \in Nat
         /\ paused <=> Ends(index)
         /\ at > 1 => ~paused /\ argv[index].kind = "cluster" /\ at \in DOMAIN Meant(index)
  <1>1. ArgTyped
    BY DEF ArgInv
  <1>2. index \in Nat /\ index + 1 \in Nat /\ at \in Nat /\ at + 1 \in Nat
    BY <1>1, ArgNumbers
  <1>3. index \in DOMAIN argv /\ argv[index] \in ArgWords
    BY <1>1 DEF Turn, ArgTyped
  <1> QED
    BY <1>2, <1>3 DEF Turn, ArgInv, Whereabouts

(* A word that is no option. *)
LEMMA ParameterStep == ASSUME ArgInv, Parameter PROVE ArgInv'
  <1> DEFINE item == [type |-> "param", name |-> index, value |-> NoValue, negated |-> FALSE]
  <1>1. PICK kinds : Turn(kinds) /\ kinds = IF paused THEN {"param", "dashes", "long", "cluster"} ELSE {"param"}
    BY DEF Parameter
  <1>2. /\ index \in DOMAIN argv /\ argv[index].kind \in kinds
        /\ stage = "run" /\ status = 0 /\ (at = 1 => ~failed) /\ (paused <=> Ends(index))
        /\ at > 1 => ~paused /\ argv[index].kind = "cluster"
        /\ index \in Nat /\ index + 1 \in Nat /\ at \in Nat /\ at >= 1
    BY <1>1, TurnFacts, ArgNumbers DEF ArgInv
  <1>3. at = 1 /\ (Ends(index) \/ argv[index].kind = "param")
    BY <1>1, <1>2
  <1>4. Meant(index) = <<item>>
    BY <1>3 DEF Meant
  <1>5. Deliver(item) /\ index' = index + 1 /\ at' = 1 /\ paused' = paused /\ paramv' = Append(paramv, index)
    BY DEF Parameter, NextArgument
  <1>6. item.type = "param" /\ item.name = index
    OBVIOUS
  <1> HIDE DEF item
  <1>7. DOMAIN Meant(index) = {1} /\ Meant(index)[1] = item
    BY <1>4
  <1>8. <<index, at>> \in Places /\ at + 1 \notin DOMAIN Meant(index) /\ item = Meant(index)[at]
    BY <1>2, <1>3, <1>7, PlaceMember
  <1> QED
    BY <1>2, <1>3, <1>5, <1>6, <1>8, ItemStep

(* A long option. *)
LEMMA LongOptionStep == ASSUME ArgInv, LongOption PROVE ArgInv'
  <1> DEFINE w == argv[index]
             item == [type |-> "long", name |-> w.name, value |-> w.value, negated |-> w.negated]
  <1>1. Turn({"long"}) /\ ~paused
    BY DEF LongOption
  <1>2. /\ index \in DOMAIN argv /\ argv[index].kind = "long"
        /\ stage = "run" /\ status = 0 /\ (at = 1 => ~failed) /\ (paused <=> Ends(index))
        /\ at > 1 => argv[index].kind = "cluster"
        /\ index \in Nat /\ index + 1 \in Nat /\ at \in Nat /\ at >= 1
    BY <1>1, TurnFacts, ArgNumbers DEF ArgInv
  <1>3. at = 1 /\ ~Ends(index)
    BY <1>1, <1>2
  <1>4. Meant(index) = <<item>>
    BY <1>2, <1>3 DEF Meant
  <1>5. Deliver(item) /\ index' = index + 1 /\ at' = 1 /\ paused' = paused /\ paramv' = paramv
    BY DEF LongOption, NextArgument
  <1>6. item.type # "param"
    OBVIOUS
  <1> HIDE DEF item
  <1>7. DOMAIN Meant(index) = {1} /\ Meant(index)[1] = item
    BY <1>4
  <1>8. <<index, at>> \in Places /\ at + 1 \notin DOMAIN Meant(index) /\ item = Meant(index)[at]
    BY <1>2, <1>3, <1>7, PlaceMember
  <1> QED
    BY <1>2, <1>3, <1>5, <1>6, <1>8, ItemStep

(* A letter of a cluster. *)
LEMMA ShortOptionStep == ASSUME ArgInv, ShortOption PROVE ArgInv'
  <1> DEFINE chars == argv[index].chars
             value == ValueFrom(chars, at + 1)
             item == [type |-> "short", name |-> chars[at], value |-> value, negated |-> FALSE]
  <1>1. Turn({"cluster"}) /\ ~paused
    BY DEF ShortOption
  <1>2. /\ index \in DOMAIN argv /\ argv[index] \in ArgWords /\ argv[index].kind = "cluster"
        /\ stage = "run" /\ status = 0 /\ (at = 1 => ~failed) /\ (paused <=> Ends(index))
        /\ at > 1 => at \in DOMAIN Meant(index)
        /\ index \in Nat /\ index + 1 \in Nat /\ at \in Nat /\ at + 1 \in Nat /\ at >= 1
    BY <1>1, TurnFacts, ArgNumbers DEF ArgInv
  <1>3. chars \in Seq(STRING) /\ chars # <<>> /\ \A i \in DOMAIN chars : chars[i] # "none"
    BY <1>2, WordsAssumption
  <1>4. Meant(index) = ShortItems(chars)
    BY <1>1, <1>2 DEF Meant
  <1>5. FirstValue(chars) \in 2 .. Len(chars) + 1 /\ DOMAIN ShortItems(chars) = 1 .. FirstValue(chars) - 1
    BY <1>3, FirstValueBounds DEF ShortItems, FirstValue
  <1>6. at \in DOMAIN ShortItems(chars)
    BY <1>2, <1>4, <1>5
  <1>7. /\ ShortItems(chars)[at] = item
        /\ value # NoValue \/ at = Len(chars) <=> at = FirstValue(chars) - 1
    BY <1>3, <1>6, ClusterItems
  <1>8. Deliver(item) /\ paused' = paused /\ paramv' = paramv
    BY DEF ShortOption
  <1>9. \/ (value # NoValue \/ at = Len(chars) \/ status' # 0) /\ index' = index + 1 /\ at' = 1
        \/ ~(value # NoValue \/ at = Len(chars) \/ status' # 0) /\ index' = index /\ at' = at + 1
    BY DEF ShortOption, NextArgument
  <1>10. item.type # "param"
    OBVIOUS
  <1> HIDE DEF item, value, chars
  <1>11. <<index, at>> \in Places /\ item = Meant(index)[at]
    BY <1>2, <1>4, <1>6, <1>7, PlaceMember
  <1>12. at + 1 \in DOMAIN Meant(index) <=> at # FirstValue(chars) - 1
    BY <1>2, <1>4, <1>5, <1>6
  <1>13. CASE /\ index' = index + 1 /\ at' = 1
              /\ value # NoValue \/ at = Len(chars) \/ status' # 0
    <2>1. status' = 0 => at + 1 \notin DOMAIN Meant(index)
      BY <1>7, <1>12, <1>13
    <2>2. argv[index].kind # "dashes"
      BY <1>2
    <2> QED
      BY <1>2, <1>8, <1>10, <1>11, <1>13, <2>1, <2>2, ItemStep
  <1>14. CASE /\ index' = index /\ at' = at + 1
              /\ ~(value # NoValue \/ at = Len(chars) \/ status' # 0)
    <2>1. status' = 0 /\ at + 1 \in DOMAIN Meant(index)
      BY <1>7, <1>12, <1>14
    <2> QED
      BY <1>1, <1>2, <1>8, <1>10, <1>11, <1>14, <2>1, ItemStep
  <1> QED
    BY <1>9, <1>13, <1>14

(* What the callback saw, and what came of it, stays where it does not run. *)
LEMMA HistorySame ==
  ASSUME ArgInv, UNCHANGED <<argv, silent, assigned, delivered>>
  PROVE  /\ HelpSoFar' /\ LastDecides'
         /\ \A k \in Seen : (~Understood(Handed(k)) /\ ~silent /\ ~HelpBefore(k))'
                            => ~Understood(Handed(k)) /\ ~silent /\ ~HelpBefore(k)
  <1>1. HelpSoFar'
    BY DEF ArgInv, HelpSoFar, HelpBefore, DecidesLast, Handed, Seen
  <1>2. LastDecides'
    BY DEF ArgInv, LastDecides, DecidesLast, Handed, Seen
  <1>3. \A k \in Seen : HelpBefore(k)' <=> HelpBefore(k)
    BY DEF HelpBefore, DecidesLast, Handed, Seen
  <1>4. \A k \in Seen : Handed(k)' = Handed(k)
    BY DEF Handed
  <1> QED
    BY <1>1, <1>2, <1>3, <1>4 DEF Understood

(* Two dashes, after which all is a parameter. *)
LEMMA DashesStep == ASSUME ArgInv, Dashes PROVE ArgInv'
  <1>1. Turn({"dashes"}) /\ ~paused
    BY DEF Dashes
  <1>2. /\ index \in DOMAIN argv /\ argv[index].kind = "dashes"
        /\ stage = "run" /\ status = 0 /\ (at = 1 => ~failed) /\ ~Ends(index)
        /\ at > 1 => argv[index].kind = "cluster"
        /\ index \in Nat /\ index + 1 \in Nat /\ at \in Nat /\ at >= 1
    BY <1>1, TurnFacts, ArgNumbers DEF ArgInv
  <1>3. at = 1 /\ ~failed /\ Meant(index) = <<>>
    <2>1. argv[index].kind # "cluster"
      BY <1>2
    <2>2. at = 1 /\ ~failed
      BY <1>2, <2>1
    <2> QED
      BY <1>2, <2>2 DEF Meant
  <1>4. /\ index' = index + 1 /\ at' = 1 /\ paused' = TRUE
        /\ UNCHANGED <<argv, silent, paramv, assigned, failed, status, stage, delivered>>
    BY DEF Dashes, NextArgument
  <1>5. ArgTyped /\ Len(argv) \in Nat /\ DOMAIN argv = 1 .. Len(argv)
    BY ArgNumbers DEF ArgInv
  <1>6. ArgTyped'
    <2>1. SeenItems' = SeenItems
      BY <1>4, ArgvSame
    <2>2. index' \in 1 .. Len(argv') + 1 /\ at' \in Nat /\ at' >= 1
      BY <1>2, <1>4, <1>5
    <2> QED
      BY <1>4, <1>5, <2>1, <2>2 DEF ArgTyped
  <1>7. Whereabouts'
    <2>1. Ends(index)'
      <3>1. PICK w \in Nat : w = index /\ w >= 1
        BY <1>2, <1>5, ArgNumbers
      <3>2. index' = w + 1 /\ w \in 1 .. w + 1 - 1 /\ argv'[w].kind = "dashes"
        BY <1>2, <1>4, <3>1
      <3> QED
        BY <3>2 DEF Ends
    <2> QED
      BY <1>2, <1>4, <2>1 DEF Whereabouts
  <1>8. SeenSoFar'
    <2>1. Places' = Places /\ Seen' = Seen /\ \A k : PlaceOf(k)' = PlaceOf(k)
      BY <1>4, ArgvSame DEF Seen, PlaceOf
    <2>2. ASSUME NEW p \in Places PROVE Before(p, <<index, at>>) <=> Before(p, <<index + 1, 1>>)
      <3>1. p[1] \in Nat /\ p[2] \in Nat /\ p[2] >= 1 /\ p[2] \in DOMAIN Meant(p[1])
        BY <1>5, PlaceNumbers
      <3>2. p[1] # index
        BY <1>3, <3>1
      <3>3. p[1] < index <=> p[1] < index + 1 \/ (p[1] = index + 1 /\ p[2] < 1)
        BY <1>2, <3>1, <3>2
      <3> QED
        BY <3>2, <3>3 DEF Before
    <2>3. \A k \in Seen : PlaceOf(k) \in Places
      BY <1>5, SeenAtItsPlace
    <2>4. \A k \in Seen : Before(PlaceOf(k), <<index + 1, 1>>)
      BY <2>2, <2>3 DEF ArgInv, SeenSoFar
    <2>5. \A k \in Seen : Before(PlaceOf(k), <<index, at>>)'
      BY <1>4, <2>1, <2>4 DEF Before
    <2>6. \A j, k \in Seen : j < k => Before(PlaceOf(j), PlaceOf(k))'
      BY <2>1 DEF ArgInv, SeenSoFar, Before
    <2>7. ASSUME NEW p \in Places,
                 (status' = 0 /\ Before(p, <<index, at>>)') \/ (\E k \in Seen : Before(p, PlaceOf(k))')
          PROVE  \E k \in Seen : PlaceOf(k) = p
      <3>1. Before(p, <<index, at>>)' => Before(p, <<index, at>>)
        BY <1>4, <2>2 DEF Before
      <3>2. \A k \in Seen : Before(p, PlaceOf(k))' => Before(p, PlaceOf(k))
        BY <2>1 DEF Before
      <3> QED
        BY <1>2, <2>7, <3>1, <3>2 DEF ArgInv, SeenSoFar
    <2> QED
      BY <2>1, <2>5, <2>6, <2>7 DEF SeenSoFar
  <1>9. ParametersSoFar'
    <2>1. /\ Len(paramv) < index + 1
          /\ \A i \in DOMAIN paramv : paramv[i] < index + 1
      <3>1. Len(paramv) \in Nat /\ \A i \in DOMAIN paramv : paramv[i] \in Nat
        BY <1>5 DEF ArgTyped
      <3> QED
        BY <1>2, <3>1 DEF ArgInv, ParametersSoFar
    <2> QED
      BY <1>4, <2>1 DEF ArgInv, ParametersSoFar, Seen, Handed
  <1>10. ErrorsSoFar'
    <2>1. \A k \in Seen : ~(~Understood(Handed(k)) /\ ~silent /\ ~HelpBefore(k))'
      BY <1>3, <1>4, HistorySame DEF ArgInv, ErrorsSoFar
    <2> QED
      BY <1>2, <1>4, <2>1 DEF ErrorsSoFar, Seen
  <1> QED
    BY <1>4, <1>6, <1>7, <1>8, <1>9, <1>10, HistorySame DEF ArgInv

(* The end of the run. *)
LEMMA ReturnStep == ASSUME ArgInv, Return PROVE ArgInv'
  <1>1. /\ stage = "run" /\ at = 1 /\ (status # 0 \/ failed \/ index \notin DOMAIN argv)
        /\ stage' = "returned" /\ status' = IF status = 0 /\ failed THEN EINVAL ELSE status
        /\ UNCHANGED <<argv, silent, index, at, paused, paramv, assigned, failed, delivered>>
    BY DEF Return
  <1>2. ArgTyped /\ Len(argv) \in Nat /\ DOMAIN argv = 1 .. Len(argv)
    BY ArgNumbers DEF ArgInv
  <1>3. (status' = 0 => status = 0 /\ ~failed) /\ (failed => status' # 0)
    BY <1>1 DEF EINVAL
  <1>4. ArgTyped'
    <2>1. SeenItems' = SeenItems
      BY <1>1, ArgvSame
    <2>2. status' \in Int
      BY <1>1, <1>2 DEF ArgTyped, EINVAL
    <2> QED
      BY <1>1, <1>2, <2>1, <2>2 DEF ArgTyped
  <1>5. Whereabouts'
    <2>1. status' = 0 => index = Len(argv) + 1
      <3>1. index \in 1 .. Len(argv) + 1
        BY <1>2 DEF ArgTyped
      <3> QED
        BY <1>1, <1>2, <1>3, <3>1
    <2>2. Ends(index)' <=> Ends(index)
      BY <1>1 DEF Ends
    <2> QED
      BY <1>1, <2>1, <2>2 DEF ArgInv, Whereabouts
  <1>6. SeenSoFar'
    <2>1. Places' = Places
      BY <1>1, ArgvSame
    <2> QED
      BY <1>1, <1>3, <2>1 DEF ArgInv, SeenSoFar, Seen, PlaceOf, Before
  <1>7. ParametersSoFar'
    BY <1>1 DEF ArgInv, ParametersSoFar, Seen, Handed
  <1>8. ErrorsSoFar'
    <2>1. ASSUME NEW k \in Seen', (~Understood(Handed(k)) /\ ~silent /\ ~HelpBefore(k))'
          PROVE  /\ failed /\ (at > 1 => delivered[k].word = index)
                 /\ delivered[Len(delivered)].word = delivered[k].word
      <3>1. k \in Seen
        BY <1>1 DEF Seen
      <3>2. ~Understood(Handed(k)) /\ ~silent /\ ~HelpBefore(k)
        BY <1>1, <2>1, <3>1, HistorySame
      <3> QED
        BY <3>1, <3>2 DEF ArgInv, ErrorsSoFar
    <2> QED
      BY <1>1, <1>3, <2>1 DEF ErrorsSoFar
  <1> QED
    BY <1>1, <1>4, <1>5, <1>6, <1>7, <1>8, HistorySame DEF ArgInv

(* It holds in the beginning. *)
LEMMA ArgInitial == ASSUME ArgInit PROVE ArgInv
  <1>1. /\ index = 1 /\ at = 1 /\ paused = FALSE /\ paramv = <<>> /\ failed = FALSE /\ status = 0
        /\ stage = "run" /\ delivered = <<>> /\ silent \in BOOLEAN /\ assigned["help"] = FALSE
    BY DEF ArgInit
  <1>2. argv \in Seq(ArgWords) /\ Len(argv) \in Nat
    <2>1. PICK n \in 0 .. MaxWords : argv \in [1 .. n -> ArgWords]
      BY DEF ArgInit
    <2>2. n \in Nat
      BY <2>1
    <2> QED
      BY <2>1, <2>2
  <1>3. ArgTyped
    <2>1. delivered \in Seq(SeenItems) /\ paramv \in Seq(Nat)
      BY <1>1
    <2>2. index \in 1 .. Len(argv) + 1 /\ at \in Nat /\ at >= 1 /\ status \in Int
      BY <1>1, <1>2
    <2> QED
      BY <1>1, <1>2, <2>1, <2>2 DEF ArgTyped
  <1>4. Seen = {} /\ DOMAIN paramv = {} /\ Len(paramv) = 0
    BY <1>1 DEF Seen
  <1>5. Whereabouts
    BY <1>1 DEF Whereabouts, Ends
  <1>6. SeenSoFar
    <2>1. ASSUME NEW p \in Places PROVE ~Before(p, <<index, at>>)
      <3>1. p[1] \in DOMAIN argv /\ p[1] \in Nat /\ p[2] \in Nat /\ p[2] >= 1
        BY <1>3, PlaceNumbers, PlaceMember
      <3>2. p[1] >= 1
        BY <1>2, <3>1
      <3> QED
        BY <1>1, <3>1, <3>2 DEF Before
    <2> QED
      BY <1>4, <2>1 DEF SeenSoFar
  <1>7. ParametersSoFar
    BY <1>1, <1>4 DEF ParametersSoFar
  <1>8. HelpSoFar /\ LastDecides /\ ErrorsSoFar
    BY <1>1, <1>4 DEF HelpSoFar, HelpBefore, LastDecides, ErrorsSoFar
  <1> QED
    BY <1>3, <1>5, <1>6, <1>7, <1>8 DEF ArgInv

(* It is enough. *)
LEMMA ArgInvEnough == ASSUME ArgInv PROVE ArgumentsRight
  <1>1. /\ index \in Nat /\ Len(argv) \in Nat /\ DOMAIN argv = 1 .. Len(argv)
        /\ index <= Len(argv) + 1 /\ Len(paramv) \in Nat /\ ArgTyped
    BY ArgNumbers DEF ArgInv, ArgTyped
  <1>2. ItemsInOrder
    <2>1. ASSUME NEW p \in Places, stage = "returned", status = 0 PROVE Before(p, <<index, at>>)
      <3>1. p[1] \in DOMAIN argv
        BY <1>1, PlaceNumbers, PlaceMember
      <3>2. index = Len(argv) + 1
        BY <2>1 DEF ArgInv, Whereabouts
      <3>3. p[1] < index
        BY <1>1, <3>1, <3>2
      <3> QED
        BY <3>3 DEF Before
    <2>2. ASSUME NEW p \in Places, (stage = "returned" /\ status = 0) \/ (\E k \in Seen : Before(p, PlaceOf(k)))
          PROVE  \E k \in Seen : PlaceOf(k) = p
      BY <2>1, <2>2 DEF ArgInv, SeenSoFar
    <2> QED
      BY <1>1, <2>2, SeenAtItsPlace DEF ItemsInOrder, ArgInv, SeenSoFar
  <1>3. ParametersNumbered
    <2>1. Len(paramv) <= Len(argv)
      BY <1>1 DEF ArgInv, ParametersSoFar
    <2>2. \A n \in DOMAIN argv : n \in Nat
      BY <1>1
    <2> QED
      BY <2>1, <2>2 DEF ArgInv, ParametersSoFar, ParametersNumbered
  <1>4. ErrorsEndTheRun
    BY DEF ArgInv, ErrorsSoFar, ErrorsEndTheRun
  <1> QED
    BY <1>2, <1>3, <1>4 DEF ArgInv, ArgumentsRight

(* Nothing happens. *)
LEMMA ArgStutter == ASSUME ArgInv, UNCHANGED gvars PROVE ArgInv'
  <1>1. /\ argv' = argv /\ silent' = silent /\ index' = index /\ at' = at /\ paused' = paused
        /\ paramv' = paramv /\ assigned' = assigned /\ failed' = failed /\ status' = status
        /\ stage' = stage /\ delivered' = delivered
    BY DEF gvars
  <1>2. SeenItems' = SeenItems /\ Places' = Places /\ \A n : Meant(n)' = Meant(n)
    BY <1>1, ArgvSame
  <1>3. ArgTyped'
    BY <1>1, <1>2 DEF ArgInv, ArgTyped
  <1>4. Whereabouts'
    BY <1>1 DEF ArgInv, Whereabouts, Meant, Ends
  <1>5. SeenSoFar'
    BY <1>1, <1>2 DEF ArgInv, SeenSoFar, Seen, PlaceOf, Before
  <1>6. ParametersSoFar'
    BY <1>1 DEF ArgInv, ParametersSoFar, Seen, Handed
  <1>7. HelpSoFar' /\ LastDecides'
    BY <1>1, HistorySame
  <1>8. ErrorsSoFar'
    <2>1. ASSUME NEW k \in Seen', (~Understood(Handed(k)) /\ ~silent /\ ~HelpBefore(k))'
          PROVE  /\ failed /\ (at > 1 => delivered[k].word = index)
                 /\ delivered[Len(delivered)].word = delivered[k].word
      <3>1. k \in Seen
        BY <1>1 DEF Seen
      <3>2. ~Understood(Handed(k)) /\ ~silent /\ ~HelpBefore(k)
        BY <1>1, <2>1, <3>1, HistorySame
      <3> QED
        BY <3>1, <3>2 DEF ArgInv, ErrorsSoFar
    <2> QED
      BY <1>1, <2>1 DEF ArgInv, ErrorsSoFar
  <1> QED
    BY <1>3, <1>4, <1>5, <1>6, <1>7, <1>8 DEF ArgInv

(* Whatever the words on the command line: the callback of pf_argparse.h sees what they mean, each argument once
   and in order, the last one decides, parameters are numbered, and an error that was not silenced makes the
   run fail. *)
THEOREM ArgumentsComeRight == ArgSpec => []ArgumentsRight
  <1>1. ASSUME ArgInv, [ArgNext]_gvars PROVE ArgInv'
    BY <1>1, ParameterStep, DashesStep, LongOptionStep, ShortOptionStep, ReturnStep, ArgStutter DEF ArgNext
  <1> QED
    BY <1>1, ArgInitial, ArgInvEnough, PTL DEF ArgSpec

-----------------------------------------------------------------------------
(* The three side by side, as a program uses them: whatever words, texts and answers it is given, its
   arguments, the lines it writes and the answers it reads are right together: a line may be too wide for
   one word, or for the name of a definition and one word beside it, and answers come in turn until a line
   was longer than its buffer. *)
THEOREM CommandLineIsRight == ArgSpec /\ WrapSpec /\ PromptSpec => []CommandLineRight
  <1>1. ArgumentsRight /\ LinesFit /\ AnswersInTurn => CommandLineRight
    BY DEF CommandLineRight
  <1> QED
    BY ArgumentsComeRight, WrappedLinesFit, AnswersComeInTurn, <1>1, PTL
=============================================================================
