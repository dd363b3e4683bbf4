------------------------------- MODULE Endian -------------------------------
(***************************************************************************)
(* Byte order: pf_endian.h.  A word is the sequence of its bytes from the  *)
(* lowest to the highest, and memory is a sequence of bytes by address.    *)
(* Without <endian.h> the library defines the conversions of 16, 32 and 64 *)
(* bits itself.                                                            *)
(***************************************************************************)
EXTENDS Integers, Sequences

CONSTANTS
  Octets,    \* bytes that occur
  WordSizes  \* sizes, in bytes, of what is converted

ASSUME EndianConstantsOK == WordSizes \subseteq Nat \ {0}

VARIABLES
  image,      \* what memory holds before the conversion
  bigEndian,  \* PF_BIG_ENDIAN of the machine
  hasEndianH  \* __has_include(<endian.h>)

\* A union of an int and a char: the low byte is the first one on a little endian.
\* Both directions are the same function.
Memory(w) == IF bigEndian THEN [i \in DOMAIN w |-> w[Len(w) + 1 - i]] ELSE w
Load(mem) == Memory(mem)

\* Every byte is masked out and shifted by the distance to its mirror image.
Bswap(w) == [k \in DOMAIN w |-> w[Len(w) + 1 - k]]

\* htobe16(), be16toh(), htole16(), le16toh() and their like.
Conversion(swaps, w) == IF swaps THEN Bswap(w) ELSE w
SwapsForBig == hasEndianH # bigEndian
SwapsForLittle == hasEndianH = bigEndian
ToBig(w) == Conversion(SwapsForBig, w)
ToLittle(w) == Conversion(SwapsForLittle, w)

\* One byte after another: with out = in, the second half reads what was just written.
Mirror(out, in, same) ==
  LET written[i \in 0 .. Len(in)] ==
        IF i = 0 THEN out
        ELSE [written[i - 1] EXCEPT
                ![i] = IF same THEN written[i - 1][Len(in) + 1 - i] ELSE in[Len(in) + 1 - i]]
  IN  written[Len(in)]

\* htobex(), htolex(), bextoh() and lextoh(): the word first, then everything again.
ConvertX(swaps, copies, in, same) ==
  LET first == IF Len(in) \in {2, 4, 8} THEN Memory(Conversion(swaps, Load(in))) ELSE in
  IN  IF copies THEN (IF same THEN first ELSE in) ELSE Mirror(first, in, same)

Htobex(in, same) == ConvertX(SwapsForBig, bigEndian, in, same)
Htolex(in, same) == ConvertX(SwapsForLittle, ~bigEndian, in, same)
Bextoh(in, same) == ConvertX(SwapsForBig, bigEndian, in, same)
Lextoh(in, same) == ConvertX(SwapsForBig, ~bigEndian, in, same)

-----------------------------------------------------------------------------
EndianInit ==
  /\ image \in UNION {[1 .. n -> Octets] : n \in WordSizes}
  /\ bigEndian \in BOOLEAN /\ hasEndianH \in BOOLEAN

Convert ==
  /\ image' \in {Htobex(image, FALSE), Htolex(image, FALSE),
                 Bextoh(image, FALSE), Lextoh(image, FALSE)}
  /\ UNCHANGED <<bigEndian, hasEndianH>>

evars == <<image, bigEndian, hasEndianH>>
EndianSpec == EndianInit /\ [][Convert]_evars

-----------------------------------------------------------------------------
\* From one buffer to another, the conversions of any size put the bytes in the order
\* that their names say and back, on either machine, with or without <endian.h> and its
\* inverted substitutes; with <endian.h> those of a word do, and a conversion that has
\* nothing to change can be made in place.
ByteOrderRight ==
  LET w == Load(image)
      big == Bswap(w)
  IN  /\ hasEndianH /\ bigEndian => Htobex(image, TRUE) = big
      /\ Htobex(image, FALSE) = big /\ Htolex(image, FALSE) = w
      /\ Bextoh(Htobex(image, FALSE), FALSE) = image
      /\ Lextoh(Htolex(image, FALSE), FALSE) = image
      /\ hasEndianH => Memory(ToBig(w)) = big /\ Memory(ToLittle(w)) = w
=============================================================================
