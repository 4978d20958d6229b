---------------------------- MODULE UnicodeText ----------------------------
(***************************************************************************)
(* The encoding forms of the Unicode standard, the reference for Unicode:  *)
(* a code point is written in the least number of units that can hold it.  *)
(***************************************************************************)
EXTENDS Integers, SequencesExt

\* UTF-8: n bytes, the first of which says n, six bits in each of the others.
Utf8(c) ==
  LET n     == 1 + Cardinality({limit \in {128, 2048, 65536} : c >= limit})
      marks == <<0, 192, 224, 240>>
      sixes == <<1, 64, 4096, 262144>>
  IN  [i \in 1 .. n |-> (IF i = 1 THEN marks[n] + (c \div sixes[n])
                                  ELSE 128 + ((c \div sixes[n - i + 1]) % 64))]

\* UTF-16: a code unit, or one of the 2^20 pairs of surrogates, and the order of its bytes.
Units(c) == IF c < 65536 THEN <<c>> ELSE <<55296 + ((c - 65536) \div 1024), 56320 + ((c - 65536) % 1024)>>
Utf16(c, be) ==
  FlattenSeq([i \in DOMAIN Units(c) |->
    LET bytes == <<Units(c)[i] \div 256, Units(c)[i] % 256>> IN IF be THEN bytes ELSE Reverse(bytes)])

\* Character c in encoding e; a BYTES file is taken for Latin-1.
EncodedChar(e, c) ==
  CASE e = "UTF8"     -> Utf8(c)
    [] e = "UTF16_LE" -> Utf16(c, FALSE)
    [] e = "UTF16_BE" -> Utf16(c, TRUE)
    [] OTHER          -> <<c>>

Encoded(e, t) == FlattenSeq([i \in DOMAIN t |-> EncodedChar(e, t[i])])
WithBom(e, t) == Encoded(e, <<65279>> \o t)
=============================================================================
