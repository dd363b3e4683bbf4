------------------------------- MODULE TypeId -------------------------------
(***************************************************************************)
(* Type ids and what is computed from them: pf_typeid.h.  The id of an     *)
(* unsigned integer type is odd and follows that of its signed twin, and   *)
(* the functions rely on it with type & 1 and type | 1.                    *)
(***************************************************************************)
EXTENDS Integers, Powers

CONSTANT CharBits  \* CHAR_BIT, 8 in the code

ASSUME TypeIdConstantsOK == CharBits \in Nat \ {0, 1}

VARIABLES
  typeid,   \* the type
  memory,   \* the bytes of an object of that type, as an unsigned number
  abi,      \* data model of the machine
  weirdInt  \* PF_TYPE_WEIRD_INT

\* Ids of the signed integer types; the others are numbered around them.
SignedIds == [schar |-> 4, shrt |-> 6, int |-> 8, long |-> 10, llong |-> 12, ptrdiff |-> 14,
              intptr |-> 28, intmax |-> 30, int8 |-> 32, int16 |-> 34, int32 |-> 36,
              int64 |-> 38, fast8 |-> 40, fast16 |-> 42, fast32 |-> 44, fast64 |-> 46,
              least8 |-> 48, least16 |-> 50, least32 |-> 52, least64 |-> 54]
FloatIds == 21 .. 25
OtherIds == 0 .. 3 \cup 16 .. 18 \cup 100 .. 122 \cup 150 .. 187
SignedTypes == {SignedIds[n] : n \in DOMAIN SignedIds}
UnsignedTypes == {id + 1 : id \in SignedTypes}
TypeIds == SignedTypes \cup UnsignedTypes \cup FloatIds \cup OtherIds
ErrorId == -1
CharId == 2

\* sizeof, from the ABI.
DataModels == {"LP64", "LLP64", "ILP32"}
SizeOf(m, id) ==
  LET word == IF m = "ILP32" THEN 4 ELSE 8
      named == CHOOSE n \in DOMAIN SignedIds : SignedIds[n] = id - (id % 2)
  IN  CASE named \in {"schar", "int8", "fast8", "least8"} -> 1
        [] named \in {"shrt", "int16", "least16"} -> 2
        [] named \in {"int", "int32", "least32"} -> 4
        [] named \in {"long", "fast16", "fast32"} -> IF m = "LP64" THEN 8 ELSE 4
        [] named \in {"ptrdiff", "intptr"} -> word
        [] OTHER -> 8

Odd(id) == id % 2
WithOne(id) == id - (id % 2) + 1
Maximum(bytes) == Power[CharBits * bytes] - 1

-----------------------------------------------------------------------------
type_is_integer(id) == (id >= 4 /\ id <= 15) \/ (id >= 28 /\ id <= 55)
type_is_float(id) == id >= 21 /\ id <= 25
type_is_unsigned(id) == IF type_is_integer(id) THEN Odd(id) ELSE ErrorId
type_int_size(id) == IF type_is_integer(id) THEN SizeOf(abi, WithOne(id)) ELSE 0
\* The switch is on type | 1: the answer for a signed type is that for its twin.
type_int_max(id) == IF type_is_integer(id) THEN Maximum(SizeOf(abi, WithOne(id))) ELSE 0
\* Answers for a signed type: no case matches type | 1, and what comes is undefined.
type_int_min(id) == IF type_is_unsigned(id) # 0 THEN {0} ELSE -Maximum(8) .. Maximum(8)

\* Without PF_TYPE_WEIRD_INT the bytes are read as unsigned, of whatever type they are.
type_int_load(id, mem) ==
  LET top == Maximum(type_int_size(id))
  IN  IF weirdInt /\ Odd(id) = 0 /\ 2 * mem > top
      THEN (mem - top - 1) % (Maximum(8) + 1)
      ELSE mem
type_int_store(id, item) == item % (Maximum(type_int_size(id)) + 1)

type_int_as_base(id) ==
  LET max == IF Odd(id) = 1 THEN (type_int_max(id) * 2 + 1) % (Maximum(8) + 1)
             ELSE type_int_max(id)
  IN  IF ~type_is_integer(id) THEN ErrorId
      ELSE IF max = Maximum(1) THEN CharId + Odd(id)
      ELSE IF max = Maximum(2) THEN SignedIds.shrt + Odd(id)
      ELSE IF max = Maximum(4) THEN SignedIds.int + Odd(id)
      ELSE IF max = Maximum(SizeOf(abi, SignedIds.long)) THEN SignedIds.long + Odd(id)
      ELSE IF max = Maximum(8) THEN SignedIds.llong + Odd(id)
      ELSE ErrorId

type_int_as_fixed(id) ==
  IF ~type_is_integer(id) THEN ErrorId
  ELSE Odd(id) + CASE type_int_size(id) = 1 -> SignedIds.int8
                   [] type_int_size(id) = 2 -> SignedIds.int16
                   [] type_int_size(id) = 4 -> SignedIds.int32
                   [] type_int_size(id) = 8 -> SignedIds.int64

-----------------------------------------------------------------------------
TypeIdInit ==
  /\ typeid \in TypeIds /\ abi \in DataModels /\ weirdInt \in BOOLEAN
  /\ memory = 0

\* The program asks about a type.
Ask ==
  /\ memory = 0
  /\ typeid' \in TypeIds
  /\ UNCHANGED <<memory, abi, weirdInt>>

\* The program writes some pattern of bits into the object.
Patterns(id) == LET top == Maximum(type_int_size(id)) IN {0, 1, top \div 2, top \div 2 + 1, top}
Fill ==
  /\ type_is_integer(typeid)
  /\ memory' \in Patterns(typeid)
  /\ UNCHANGED <<typeid, abi, weirdInt>>

\* The types that the library takes for the same one.
Equivalents(id) ==
  {type_int_as_fixed(id), type_int_as_base(id)} \cap (SignedTypes \cup UnsignedTypes)

\* The object is copied into one of a type that should be the same.
Recast ==
  /\ type_is_integer(typeid)
  /\ typeid' \in Equivalents(typeid)
  /\ memory' = type_int_store(typeid', type_int_load(typeid, memory))
  /\ UNCHANGED <<abi, weirdInt>>

TypeIdNext == Ask \/ Fill \/ Recast
idvars == <<typeid, memory, abi, weirdInt>>
TypeIdSpec == TypeIdInit /\ [][TypeIdNext]_idvars

-----------------------------------------------------------------------------
\* The ranges of ids hold exactly the integer and the floating types of the table, a
\* size is found for every integer type from that of its unsigned twin, and an object
\* that is loaded and stored again, as its own type or as the fixed-width or basic type
\* that the library takes for the same, keeps its size, its bits and its sign, however a
\* build loads it.
IdsClassify ==
  /\ type_is_integer(typeid) <=> typeid \in SignedTypes \cup UnsignedTypes
  /\ type_is_float(typeid) <=> typeid \in FloatIds
  /\ type_is_unsigned(typeid) = 1 <=> typeid \in UnsignedTypes
  /\ type_is_integer(typeid) =>
       /\ type_int_size(typeid) = SizeOf(abi, typeid)
       /\ type_int_store(typeid, type_int_load(typeid, memory)) = memory
       /\ \A id \in Equivalents(typeid) :
            /\ SizeOf(abi, id) = SizeOf(abi, typeid) /\ Odd(id) = Odd(typeid)
            /\ type_int_store(id, type_int_load(typeid, memory)) = memory
=============================================================================
