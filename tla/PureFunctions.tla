--------------------------- MODULE PureFunctions ---------------------------
(* The parts of the library that compute a value from values. *)
EXTENDS Bits, Checked, Endian, Ctype, TypeId

(* Each part against the definition of what it promises: CountsAgree and WordsTransformed of Bits,
   OverflowDetected of Checked, ByteOrderRight of Endian, ClassesAgree of Ctype and IdsClassify of
   TypeId.  Three parts of the code are wrong and exempt, as those modules say: overflows of long long
   with MSVC, the portable product whose second operand is not above zero, and the conversions of byte
   order in place of <endian.h>. *)
PureFunctionsRight ==
  /\ CountsAgree /\ WordsTransformed
  /\ OverflowDetected
  /\ ByteOrderRight
  /\ ClassesAgree
  /\ IdsClassify
=============================================================================
