------------------------------ MODULE ArgParse ------------------------------
(* pf_argparse.h: pf_argparser_run() over one argv.  A word of argv is a parameter (a lone "-" is one
   too), the "--", a long option or a cluster of short ones; what stands behind the dashes is split
   here as the code splits it.  The callback is the application's: it knows five options, matched by
   the functions of the library, and reports an error for everything else. *)
EXTENDS Integers, Sequences, SequencesExt, FiniteSetsExt

CONSTANTS ArgWords,   \* the arguments: records with a kind
          MaxWords    \* bound: the length of argv behind the program's name

(* A cluster has a character; no character stands for a missing value. *)
ASSUME WordsAssumption ==
  \A w \in ArgWords :
    /\ w.kind \in {"param", "dashes", "long", "cluster"}
    /\ w.kind = "cluster" => /\ w.chars \in Seq(STRING) /\ w.chars # <<>>
                             /\ \A i \in DOMAIN w.chars : w.chars[i] # "none"

VARIABLES argv, silent,    \* the input, and p->silent
          index, at,       \* the word, and the character of its cluster, that comes next
          paused,          \* p->pauseOptions
          paramv,          \* p->paramv, p->paramc of them
          assigned,        \* the application's variables; assigned.help is p->help
          failed, status,  \* p->failed, and rc or what pf_argparser_run() returned
          stage,           \* "run", "returned" or "wild"
          delivered        \* history: the items the callback saw, with the word and the place in it

gvars == <<argv, silent, index, at, paused, paramv, assigned, failed, status, stage, delivered>>

Options == {"verbose", "level", "help", "color", "mask"}
Letter == [verbose |-> "v", level |-> "l", help |-> "h", color |-> "c", mask |-> "m"]
Letters == {"v", "l", "h", "c", "m", "x", "r", "e", "d", "s"}
Colors == <<<<"r", "e", "d">>, <<"r", "e", "s">>>>      \* a pf_option_enum_t
NoValue == <<"none">>
EINVAL == -22
StopCode == 1                                           \* an error code of the application

ArgInit ==
  /\ argv \in UNION {[1 .. n -> ArgWords] : n \in 0 .. MaxWords} /\ silent \in BOOLEAN
  /\ index = 1 /\ at = 1 /\ paused = FALSE /\ paramv = <<>>
  /\ assigned = [verbose |-> FALSE, level |-> 0, help |-> FALSE, color |-> 0, mask |-> 0]
  /\ failed = FALSE /\ status = 0 /\ stage = "run" /\ delivered = <<>>

-----------------------------------------------------------------------------
(* pf_option_bool(), pf_option_toggle(), pf_option_long() and pf_option_enum(): what they write, or
   nothing.  An empty value is the number 0, and of the constants it abbreviates the first. *)
Truth(value) ==
  IF value \in {NoValue, <<"1">>} THEN {TRUE} ELSE IF value = <<"0">> THEN {FALSE} ELSE {}

Toggled(item) ==
  IF item.type = "long" /\ item.negated THEN {FALSE}
  ELSE IF item.type = "short" THEN {TRUE} ELSE Truth(item.value)

Digit == "0" :> 0 @@ "1" :> 1 @@ "5" :> 5
Number(value) ==
  IF value = <<>> THEN {0} ELSE {Digit[d] : d \in {d \in DOMAIN Digit : value = <<d>>}}

Abbreviated(text) == {i \in DOMAIN Colors : IsPrefix(text, Colors[i])}
FirstAbbreviated(text) == IF Abbreviated(text) = {} THEN {} ELSE {Min(Abbreviated(text))}

(* The option an item names; only a toggle knows "no-". *)
Named(item) ==
  {o \in Options : \/ item.type = "short" /\ item.name = Letter[o]
                   \/ item.type = "long" /\ item.name = o /\ (item.negated => o = "verbose")}

Written(o, item) ==
  CASE o = "verbose" -> Toggled(item)
    [] o = "help" -> Truth(item.value)
    [] o = "level" -> Number(item.value)
    [] o = "color" -> FirstAbbreviated(item.value)
    [] OTHER -> {}

(* pf_option_flags() has its test the wrong way round: it gives up at the first constant that it
   knows, takes in a value that was never set for each one that it does not know, and behind the last
   of those goes on at the address NULL + 1. *)
Bars(value) == {0, Len(value) + 1} \cup {i \in DOMAIN value : value[i] = "|"}
KnownAt(value) ==
  {i \in Bars(value) \ {Len(value) + 1} :
     LET j == Min({k \in Bars(value) : k > i}) IN Abbreviated(SubSeq(value, i + 1, j - 1)) # {}}
IsMask(item) == "mask" \in Named(item) /\ item.value # NoValue
Undefined(item) == IsMask(item) /\ KnownAt(item.value) = {}
Garbage(item) == IF IsMask(item) /\ 0 \notin KnownAt(item.value) THEN {0, 1} ELSE {assigned["mask"]}

(* The callback on one item, and what it returns: 0, or an error of its own when it wants no more.
   pf_argparser_error() records nothing when p is silent or asked for help. *)
Deliver(item) ==
  LET understood == {o \in Named(item) : Written(o, item) # {}} IN
    /\ delivered' = Append(delivered, [item |-> item, word |-> index, place |-> at])
    /\ status' \in {0, StopCode}
    /\ stage' = IF Undefined(item) THEN "wild" ELSE stage
    /\ \E mask \in Garbage(item) :
         assigned' = [o \in Options |-> IF o \in understood THEN CHOOSE v \in Written(o, item) : TRUE
                                        ELSE IF o = "mask" THEN mask ELSE assigned[o]]
    /\ failed' = (failed \/ (item.type # "param" /\ understood = {} /\ ~silent /\ ~assigned.help))
    /\ UNCHANGED <<argv, silent>>

-----------------------------------------------------------------------------
(* The loop of pf_argparser_run().  Nothing but status is looked at within a cluster. *)
Turn(kinds) ==
  /\ stage = "run" /\ index \in DOMAIN argv
  /\ status = 0 /\ (at = 1 => ~failed)
  /\ argv[index].kind \in kinds

NextArgument == index' = index + 1 /\ at' = 1

Parameter ==
  /\ Turn(IF paused THEN {"param", "dashes", "long", "cluster"} ELSE {"param"})
  /\ NextArgument
  /\ paramv' = Append(paramv, index)
  /\ Deliver([type |-> "param", name |-> index, value |-> NoValue, negated |-> FALSE])
  /\ UNCHANGED paused

Dashes ==
  /\ ~paused /\ Turn({"dashes"})
  /\ NextArgument
  /\ paused' = TRUE
  /\ UNCHANGED <<argv, silent, paramv, assigned, failed, status, stage, delivered>>

LongOption ==
  /\ ~paused /\ Turn({"long"})
  /\ NextArgument
  /\ LET w == argv[index] IN
       Deliver([type |-> "long", name |-> w.name, value |-> w.value, negated |-> w.negated])
  /\ UNCHANGED <<paused, paramv>>

(* pf__ap_isvalue() and the value of a short option: the rest of the cluster from its first character
   that is no letter, or from behind an equals sign. *)
IsValue(c) == c \notin Letters \cup {"?"}
ValueWithEquals(chars, i) ==
  IF i > Len(chars) \/ ~IsValue(chars[i]) THEN NoValue ELSE SubSeq(chars, i, Len(chars))
ValueFrom(chars, i) ==
  IF i > Len(chars) \/ ~IsValue(chars[i]) THEN NoValue
  ELSE SubSeq(chars, IF chars[i] = "=" THEN i + 1 ELSE i, Len(chars))

ShortOption ==
  /\ ~paused /\ Turn({"cluster"})
  /\ LET chars == argv[index].chars
         value == ValueFrom(chars, at + 1)
     IN  /\ Deliver([type |-> "short", name |-> chars[at], value |-> value, negated |-> FALSE])
         /\ IF value # NoValue \/ at = Len(chars) \/ status' # 0 THEN NextArgument
            ELSE at' = at + 1 /\ UNCHANGED index
  /\ UNCHANGED <<paused, paramv>>

Return ==
  /\ stage = "run" /\ at = 1
  /\ (status # 0 \/ failed \/ index \notin DOMAIN argv)
  /\ stage' = "returned"
  /\ status' = IF status = 0 /\ failed THEN EINVAL ELSE status
  /\ UNCHANGED <<argv, silent, index, at, paused, paramv, assigned, failed, delivered>>

ArgNext == Parameter \/ Dashes \/ LongOption \/ ShortOption \/ Return
ArgSpec == ArgInit /\ [][ArgNext]_gvars

-----------------------------------------------------------------------------
(* What argv says, all at once: the items of each word, and their places in the order of argv. *)
Ends(n) == \E k \in 1 .. n - 1 : argv[k].kind = "dashes"
ShortItems(chars) ==
  LET first == Min({Len(chars) + 1} \cup {i \in 2 .. Len(chars) : chars[i] \notin Letters \cup {"?"}})
      rest == SubSeq(chars, first, Len(chars))
      text == IF rest = <<>> THEN NoValue ELSE IF Head(rest) = "=" THEN Tail(rest) ELSE rest
  IN  [i \in 1 .. first - 1 |->
         [type |-> "short", name |-> chars[i],
          value |-> IF i = first - 1 THEN text ELSE NoValue, negated |-> FALSE]]
Meant(n) ==
  LET w == argv[n] IN
    IF Ends(n) \/ w.kind = "param"
    THEN <<[type |-> "param", name |-> n, value |-> NoValue, negated |-> FALSE]>>
    ELSE IF w.kind = "dashes" THEN <<>>
    ELSE IF w.kind = "cluster" THEN ShortItems(w.chars)
    ELSE <<[type |-> "long", name |-> w.name, value |-> w.value, negated |-> w.negated]>>

Places == UNION {{n} \X DOMAIN Meant(n) : n \in DOMAIN argv}
Before(p, q) == p[1] < q[1] \/ (p[1] = q[1] /\ p[2] < q[2])

(* What the callback saw: where each item is from, and which of them decided on an option. *)
Seen == DOMAIN delivered
PlaceOf(k) == <<delivered[k].word, delivered[k].place>>
Handed(k) == delivered[k].item
Decides(o, item) == o \in Named(item) /\ Written(o, item) # {}
Understood(item) == item.type = "param" \/ \E o \in Options : Decides(o, item)
DecidesLast(o, k, n) ==
  Decides(o, Handed(k)) /\ \A j \in Seen : k < j /\ j < n => ~Decides(o, Handed(j))
HelpBefore(n) ==
  \E k \in Seen : k < n /\ DecidesLast("help", k, n) /\ Written("help", Handed(k)) = {TRUE}

(* Whatever argv and wherever the application breaks off: the callback sees the items of argv in their
   order, each once and none skipped, all of them when the run ends well; *)
ItemsInOrder ==
  /\ \A k \in Seen : PlaceOf(k) \in Places /\ Handed(k) = Meant(PlaceOf(k)[1])[PlaceOf(k)[2]]
  /\ \A j, k \in Seen : j < k => Before(PlaceOf(j), PlaceOf(k))
  /\ \A p \in Places :
       (stage = "returned" /\ status = 0) \/ (\E k \in Seen : Before(p, PlaceOf(k)))
       => \E k \in Seen : PlaceOf(k) = p

(* the parameters fit paramv and are numbered as they come; *)
ParametersNumbered ==
  /\ Len(paramv) <= Len(argv)
  /\ \A i, j \in DOMAIN paramv : i < j => paramv[i] < paramv[j]
  /\ \A n \in DOMAIN argv :
       (\E i \in DOMAIN paramv : paramv[i] = n)
       <=> \E k \in Seen : Handed(k).type = "param" /\ Handed(k).name = n

(* the last understood option decides; *)
LastDecides ==
  \A o \in Options, k \in Seen :
    DecidesLast(o, k, Len(delivered) + 1) => {assigned[o]} = Written(o, Handed(k))

(* and what is not understood ends the run with its argument and makes it fail, unless errors are
   silenced, or help was asked for, before. *)
ErrorsEndTheRun ==
  \A k \in Seen :
    ~Understood(Handed(k)) /\ ~silent /\ ~HelpBefore(k) =>
      /\ failed /\ (stage = "returned" => status # 0)
      /\ delivered[Len(delivered)].word = delivered[k].word

(* All of that, unless pf_option_flags() has gone on at a wild address. *)
ArgumentsRight ==
  stage # "wild" => ItemsInOrder /\ ParametersNumbered /\ LastDecides /\ ErrorsEndTheRun
=============================================================================
