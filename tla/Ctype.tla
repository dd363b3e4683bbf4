------------------------------- MODULE Ctype -------------------------------
(***************************************************************************)
(* Classes of characters: pf_ctype.h has them as strings and as functions, *)
(* and tells the length of a UTF-8 sequence from its first byte.           *)
(***************************************************************************)
EXTENDS Integers

VARIABLE char  \* an int: a byte, or a char that is signed

Chars == -128 .. 255

DIGIT == 48 .. 57
UPPER == 65 .. 90
LOWER == 97 .. 122
ALPHA == UPPER \cup LOWER
ALNUM == ALPHA \cup DIGIT
XDIGIT == DIGIT \cup 65 .. 70 \cup 97 .. 102
SPACE == {32, 9, 10, 13, 12, 11}
BLANK == {32, 9}
PUNCT == 33 .. 47 \cup 58 .. 64 \cup 91 .. 96 \cup 123 .. 126
GRAPH == 33 .. 47 \cup 48 .. 64 \cup 65 .. 90 \cup 91 .. 96 \cup 97 .. 126
PRINT == {32} \cup 33 .. 47 \cup 48 .. 64 \cup 65 .. 90 \cup 91 .. 96 \cup 97 .. 126
CNTRL == 1 .. 31 \cup {127} \cup {0}

isblank(c) == c = 9 \/ c = 32
isspace(c) == (c >= 9 /\ c <= 13) \/ c = 32
iscntrl(c) == (c >= 0 /\ c <= 31) \/ c = 127
isgraph(c) == c >= 33 /\ c <= 126
isprint(c) == c >= 32 /\ c <= 126
isdigit(c) == c >= 48 /\ c <= 57
islower(c) == c >= 97 /\ c <= 122
isupper(c) == c >= 65 /\ c <= 90
isalpha(c) == isupper(c) \/ islower(c)
isalnum(c) == isalpha(c) \/ isdigit(c)
ispunct(c) == isgraph(c) /\ ~isalnum(c)
isxdigit(c) == isdigit(c) \/ (c >= 97 /\ c <= 102) \/ (c >= 65 /\ c <= 70)
tolower(c) == IF ~isupper(c) THEN c ELSE c - (65 - 97)
toupper(c) == IF ~islower(c) THEN c ELSE c + (65 - 97)

\* c & 0xF8 == 0xF0 and so on: the upper bits of the low byte.
utf8_clen(c) ==
  LET byte == c % 256
  IN  CASE byte \div 8 = 30 -> 4 [] byte \div 16 = 14 -> 3 [] byte \div 32 = 6 -> 2
        [] byte < 128 -> 1 [] OTHER -> 0
isutf8(c) == utf8_clen(c) > 0

-----------------------------------------------------------------------------
CtypeInit == char \in Chars
Fold == char' \in {tolower(char), toupper(char)}
CtypeSpec == CtypeInit /\ [][Fold]_char

-----------------------------------------------------------------------------
\* The first byte of a code point in UTF-8.
Lead(n) == CASE n < 128 -> n
             [] n >= 128 /\ n < 2048 -> 192 + n \div 64
             [] n >= 2048 /\ n < 65536 -> 224 + n \div 4096
             [] OTHER -> 240 + n \div 262144
Octets8(n) == IF n < 128 THEN 1 ELSE IF n < 2048 THEN 2 ELSE IF n < 65536 THEN 3 ELSE 4

\* One code point of each first byte: the lowest.
Samples == 0 .. 127 \cup {64 * k : k \in 2 .. 31} \cup {4096 * k : k \in 1 .. 15}
           \cup {2048, 65536} \cup {262144 * k : k \in 1 .. 4}

\* The functions and the strings describe the same classes, also for a char that is
\* negative; a letter changes case and back and nothing else does; and the first byte
\* of every code point tells the length of its sequence, whether char is signed or not,
\* while a continuation byte tells 0.
ClassesAgree ==
  /\ isdigit(char) <=> char \in DIGIT
  /\ isxdigit(char) <=> char \in XDIGIT
  /\ isupper(char) <=> char \in UPPER
  /\ islower(char) <=> char \in LOWER
  /\ isalpha(char) <=> char \in ALPHA
  /\ isalnum(char) <=> char \in ALNUM
  /\ isspace(char) <=> char \in SPACE
  /\ isblank(char) <=> char \in BLANK
  /\ ispunct(char) <=> char \in PUNCT
  /\ isgraph(char) <=> char \in GRAPH
  /\ isprint(char) <=> char \in PRINT
  /\ iscntrl(char) <=> char \in CNTRL
  /\ (char # tolower(char)) <=> char \in UPPER
  /\ char \in UPPER => toupper(tolower(char)) = char
  /\ \A n \in Samples : Lead(n) = char % 256 => utf8_clen(char) = Octets8(n)
  /\ char % 256 \in 128 .. 191 => ~isutf8(char)
=============================================================================
