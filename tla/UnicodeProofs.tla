--------------------------- MODULE UnicodeProofs ---------------------------
(***************************************************************************)
(* For files of any length and any options: the bytes of a file are given  *)
(* back, and no character of it is dropped.  The invariant says of each    *)
(* character read that it lies between two places of the file, that the    *)
(* decoder's encoding can hold it, and that its encoding is the bytes      *)
(* between them unless they were more than it needs.  What is written is   *)
(* laid out behind the BOM, character by character, and the next run goes  *)
(* over it the same way, or gives up where the first one did.  A file of a *)
(* text in an encoding of the standard is read as that text, character by  *)
(* character, and the output of a text is the standard's encoding of it.   *)
(***************************************************************************)
EXTENDS UnicodeFiles, SequenceTheorems, FiniteSetTheorems, WellFoundedInduction, TLAPS

-----------------------------------------------------------------------------
(* Numbers                                                                 *)

LEMMA LeastNumber ==
  ASSUME NEW S \in SUBSET Nat, S # {}
  PROVE  \E n \in S : \A m \in S : n <= m
<1> DEFINE less == OpToRel(<, Nat)
<1>1. IsWellFoundedOn(less, Nat)
  BY NatLessThanWellFounded
<1>2. \A x, y \in Nat : x < y => <<x, y>> \in less
  BY DEF OpToRel
<1> HIDE DEF less
<1>3. PICK n \in S : \A m \in S : ~(<<m, n>> \in less)
  BY <1>1, WFMin
<1>4. \A m \in S : ~(m < n)
  BY <1>2, <1>3
<1> QED
  BY <1>4

\* Induction: what holds of a number is membership in a set.
LEMMA InductiveSet ==
  ASSUME NEW S, 0 \in S, \A n \in Nat : n \in S => n + 1 \in S
  PROVE  Nat \subseteq S
<1> SUFFICES ASSUME Nat \ S # {}
             PROVE  FALSE
  OBVIOUS
<1>1. PICK n \in Nat \ S : \A m \in Nat \ S : n <= m
  BY LeastNumber
<1>2. n # 0 /\ n - 1 \in Nat
  BY <1>1
<1>3. n - 1 \in S
  BY <1>1, <1>2
<1> QED
  BY <1>1, <1>2, <1>3

-----------------------------------------------------------------------------
(* Characters                                                              *)

\* The arms of encode_utf8(), by the size of the code point.
LEMMA EncodeOne == ASSUME NEW ch \in Nat, ch < 128 PROVE encode_utf8(ch) = <<ch>>
  BY SMTT(120) DEF encode_utf8, LastCodePoint

\* The code points of two, three and four bytes, and those bytes.
In2 == {ch \in Nat : 128 <= ch /\ ch < 2048}
In3 == {ch \in Nat : 2048 <= ch /\ ch < 65536}
In4 == {ch \in Nat : 65536 <= ch /\ ch <= LastCodePoint}
Last6(ch)  == 128 + (ch % 64)
Third6(ch) == 128 + ((ch \div 64) % 64)
Second6(ch) == 128 + ((ch \div 4096) % 64)
First2(ch) == 192 + (ch \div 64)
First3(ch) == 224 + (ch \div 4096)
First4(ch) == 240 + (ch \div 262144)

LEMMA EncodeTwo == \A ch \in In2 : encode_utf8(ch) = <<First2(ch), Last6(ch)>>
  BY SMTT(120) DEF In2, First2, Last6, encode_utf8, LastCodePoint

LEMMA EncodeThree == \A ch \in In3 : encode_utf8(ch) = <<First3(ch), Third6(ch), Last6(ch)>>
  BY SMTT(120) DEF In3, First3, Third6, Last6, encode_utf8, LastCodePoint

LEMMA EncodeFour ==
  \A ch \in In4 : encode_utf8(ch) = <<First4(ch), Second6(ch), Third6(ch), Last6(ch)>>
  BY SMTT(120) DEF In4, First4, Second6, Third6, Last6, encode_utf8, LastCodePoint
\* A shift by twelve or eighteen bits is one by six, again and again.
LEMMA Divided ==
  ASSUME NEW c \in Nat
  PROVE  /\ c \div 4096 = (c \div 64) \div 64
         /\ c \div 262144 = ((c \div 64) \div 64) \div 64
  OBVIOUS

\* The bytes a sequence may begin and go on with, and what they are decoded to.
Following == {b \in Nat : 128 <= b /\ b < 192}
Lead2 == {a \in Nat : 192 <= a /\ a < 224}
Lead3 == {a \in Nat : 224 <= a /\ a < 240}
Lead4 == {a \in Nat : 240 <= a /\ a < 248}
Two(a, b)         == (a - 192) * 64 + (b - 128)
Three(a, b, c)    == ((a - 224) * 64 + (b - 128)) * 64 + (c - 128)
Four(a, b, c, d)  == (((a - 240) * 64 + (b - 128)) * 64 + (c - 128)) * 64 + (d - 128)

\* What a sequence of two, three and four bytes is decoded to is encoded as that sequence,
\* if it needs as many bytes.
LEMMA TwoBytes ==
  ASSUME NEW a \in Lead2, NEW b \in Following, NEW ch, ch = Two(a, b)
  PROVE  ch \in CodePoint /\ (ShortestIn(2, ch) => encode_utf8(ch) = <<a, b>>)
<1>1. PICK x \in Nat : x = a - 192 /\ x < 32 /\ 192 + x = a
  BY DEF Lead2
<1>2. PICK y \in Nat : y = b - 128 /\ y < 64 /\ 128 + y = b
  BY DEF Following
<1>3. ch = x * 64 + y
  BY <1>1, <1>2 DEF Two
<1>4. ch \in Nat /\ ch < 2048
  BY <1>1, <1>2, <1>3
<1>5. ch \div 64 = x /\ ch % 64 = y
  BY ONLY x \in Nat, y \in Nat, <1>2, <1>3
<1>6. First2(ch) = a /\ Last6(ch) = b
  BY <1>1, <1>2, <1>5 DEF First2, Last6
<1>7. ch \in CodePoint /\ (ShortestIn(2, ch) => ch \in In2)
  BY <1>4 DEF CodePoint, ShortestIn, In2
<1> QED  BY ONLY <1>6, <1>7, EncodeTwo, Zenon

LEMMA ThreeBytes ==
  ASSUME NEW a \in Lead3, NEW b \in Following, NEW c \in Following, NEW ch, ch = Three(a, b, c)
  PROVE  ch \in CodePoint /\ (ShortestIn(3, ch) => encode_utf8(ch) = <<a, b, c>>)
<1>1. PICK x \in Nat : x = a - 224 /\ x < 16 /\ 224 + x = a
  BY DEF Lead3
<1>2. PICK y \in Nat : y = b - 128 /\ y < 64 /\ 128 + y = b
  BY DEF Following
<1>3. PICK z \in Nat : z = c - 128 /\ z < 64 /\ 128 + z = c
  BY DEF Following
<1>4. PICK q \in Nat : q = x * 64 + y /\ q < 1024
  BY <1>1, <1>2
<1>5. ch = q * 64 + z
  BY <1>1, <1>2, <1>3, <1>4 DEF Three
<1>6. ch \in Nat /\ ch < 65536
  BY <1>3, <1>4, <1>5
<1>7. ch \div 64 = q /\ ch % 64 = z
  BY ONLY q \in Nat, z \in Nat, <1>3, <1>5
<1>8. q \div 64 = x /\ q % 64 = y
  BY ONLY x \in Nat, y \in Nat, <1>2, <1>4
<1>9. ch \div 4096 = x
  BY <1>6, <1>7, <1>8, Divided
<1>10. First3(ch) = a /\ Third6(ch) = b /\ Last6(ch) = c
  BY <1>1, <1>2, <1>3, <1>7, <1>8, <1>9 DEF First3, Third6, Last6
<1>11. ch \in CodePoint /\ (ShortestIn(3, ch) => ch \in In3)
  BY <1>6 DEF CodePoint, ShortestIn, In3
<1> QED  BY ONLY <1>10, <1>11, EncodeThree, Zenon

LEMMA FourBytes ==
  ASSUME NEW a \in Lead4, NEW b \in Following, NEW c \in Following, NEW d \in Following, NEW ch, ch = Four(a, b, c, d)
  PROVE  ch \in CodePoint /\ (ShortestIn(4, ch) => encode_utf8(ch) = <<a, b, c, d>>)
<1>1. PICK x \in Nat : x = a - 240 /\ x < 8 /\ 240 + x = a
  BY DEF Lead4
<1>2. PICK y \in Nat : y = b - 128 /\ y < 64 /\ 128 + y = b
  BY DEF Following
<1>3. PICK z \in Nat : z = c - 128 /\ z < 64 /\ 128 + z = c
  BY DEF Following
<1>4. PICK w \in Nat : w = d - 128 /\ w < 64 /\ 128 + w = d
  BY DEF Following
<1>5. PICK p \in Nat : p = x * 64 + y /\ p < 512
  BY <1>1, <1>2
<1>6. PICK q \in Nat : q = p * 64 + z /\ q < 32768
  BY <1>3, <1>5
<1>7. ch = q * 64 + w
  BY <1>1, <1>2, <1>3, <1>4, <1>5, <1>6 DEF Four
<1>8. ch \in Nat /\ ch < 2097152
  BY <1>4, <1>6, <1>7
<1>9. ch \div 64 = q /\ ch % 64 = w
  BY ONLY q \in Nat, w \in Nat, <1>4, <1>7
<1>10. q \div 64 = p /\ q % 64 = z
  BY ONLY p \in Nat, z \in Nat, <1>3, <1>6
<1>11. p \div 64 = x /\ p % 64 = y
  BY ONLY x \in Nat, y \in Nat, <1>2, <1>5
<1>12. ch \div 4096 = p /\ ch \div 262144 = x
  BY <1>8, <1>9, <1>10, <1>11, Divided
<1>13. First4(ch) = a /\ Second6(ch) = b /\ Third6(ch) = c /\ Last6(ch) = d
  BY <1>1, <1>2, <1>3, <1>4, <1>9, <1>10, <1>11, <1>12 DEF First4, Second6, Third6, Last6
<1>14. ch \in CodePoint /\ (ShortestIn(4, ch) => ch \in In4)
  BY <1>8 DEF CodePoint, ShortestIn, In4
<1> QED  BY ONLY <1>13, <1>14, EncodeFour, Zenon

\* get_word() and the two bytes of write_utf16() undo one another.
LEMMA OneWord ==
  ASSUME NEW a \in Nat, a < 256, NEW b \in Nat, b < 256, NEW w, w = a * 256 + b, NEW e
  PROVE  WordBytes(w, e) = IF e = "UTF16_BE" THEN <<a, b>> ELSE <<b, a>>
<1>1. w \div 256 = a /\ w % 256 = b
  OBVIOUS
<1> QED  BY ONLY <1>1 DEF WordBytes

\* A pair of surrogates is a code point above U+FFFF, and is written as the pair.
LEMMA Pair ==
  ASSUME NEW v \in Nat, High(v), NEW w \in Nat, Low(w), NEW e,
         NEW ch, ch = (v - 55296) * 1024 + (w - 56320) + 65536
  PROVE  /\ ch \in Nat /\ 65536 <= ch /\ ch <= LastCodePoint
         /\ write_utf16(ch, e) = WordBytes(v, e) \o WordBytes(w, e)
<1> DEFINE x == v - 55296  y == w - 56320
<1>0. ch = x * 1024 + y + 65536
  OBVIOUS
<1>1. x \in Nat /\ x < 1024 /\ y \in Nat /\ y < 1024
  BY DEF High, Low
<1>2. ch - 65536 = x * 1024 + y
  BY <1>0, <1>1
<1>3. (x * 1024 + y) \div 1024 = x /\ (x * 1024 + y) % 1024 = y
  BY <1>1
<1>4. ch \in Nat /\ 65536 <= ch /\ ch <= LastCodePoint
  BY <1>0, <1>1 DEF LastCodePoint
<1>5. 55296 + x = v /\ 56320 + y = w
  OBVIOUS
<1> HIDE DEF x, y
<1>6. (ch - 65536) \div 1024 = x /\ (ch - 65536) % 1024 = y
  BY <1>2, <1>3
<1>7. write_utf16(ch, e) = WordBytes(55296 + ((ch - 65536) \div 1024), e)
                            \o WordBytes(56320 + ((ch - 65536) % 1024), e)
  <2>1. ~(ch < 55296 \/ (57344 <= ch /\ ch < 65536)) /\ 65536 <= ch /\ ch <= LastCodePoint
    BY <1>4
  <2> QED  BY ONLY <2>1, SMTT(120) DEF write_utf16
<1>8. write_utf16(ch, e) = WordBytes(v, e) \o WordBytes(w, e)
  <2>1. write_utf16(ch, e) = WordBytes(55296 + x, e) \o WordBytes(56320 + y, e)
    BY ONLY <1>6, <1>7
  <2> QED  BY ONLY <2>1, <1>5
<1> QED  BY <1>4, <1>8

\* A unit that is no surrogate is a code point of its own.
LEMMA Units16 ==
  ASSUME NEW w \in Nat, w < 65536, ~High(w), ~Low(w), NEW e
  PROVE  write_utf16(w, e) = WordBytes(w, e)
<1>1. w < 55296 \/ (57344 <= w /\ w < 65536)
  BY DEF High, Low
<1>2. ~(65536 <= w /\ w <= LastCodePoint)
  OBVIOUS
<1> HIDE DEF High, Low
<1> QED  BY ONLY <1>1, <1>2, SMTT(120) DEF write_utf16

-----------------------------------------------------------------------------
(* Parts of a file                                                         *)

\* A short sequence is the tuple of its elements.
LEMMA Short ==
  /\ \A t \in Seq(Byte) : Len(t) = 1 => t = <<t[1]>>
  /\ \A t \in Seq(Byte) : Len(t) = 2 => t = <<t[1], t[2]>>
  /\ \A t \in Seq(Byte) : Len(t) = 3 => t = <<t[1], t[2], t[3]>>
  /\ \A t \in Seq(Byte) : Len(t) = 4 => t = <<t[1], t[2], t[3], t[4]>>
  OBVIOUS

\* Some bytes of a file behind another.
LEMMA Cut ==
  ASSUME NEW s \in Seq(Byte), NEW k \in Nat
  PROVE  /\ k + 1 <= Len(s) => SubSeq(s, k + 1, k + 1) = <<s[k + 1]>>
         /\ k + 2 <= Len(s) => SubSeq(s, k + 1, k + 2) = <<s[k + 1], s[k + 2]>>
         /\ k + 3 <= Len(s) => SubSeq(s, k + 1, k + 3) = <<s[k + 1], s[k + 2], s[k + 3]>>
         /\ k + 4 <= Len(s) => SubSeq(s, k + 1, k + 4) = <<s[k + 1], s[k + 2], s[k + 3], s[k + 4]>>
<1>1. ASSUME NEW n \in Nat, k + n <= Len(s)
      PROVE  /\ SubSeq(s, k + 1, k + n) \in Seq(Byte)
             /\ Len(SubSeq(s, k + 1, k + n)) = n
             /\ \A i \in 1 .. n : SubSeq(s, k + 1, k + n)[i] = s[k + i]
  <2>1. \A i \in k + 1 .. k + n : s[i] \in Byte
    BY <1>1, ElementOfSeq
  <2>2. /\ SubSeq(s, k + 1, k + n) \in Seq(Byte)
        /\ Len(SubSeq(s, k + 1, k + n)) = IF k + 1 <= k + n THEN k + n - (k + 1) + 1 ELSE 0
        /\ \A i \in 1 .. k + n - (k + 1) + 1 : SubSeq(s, k + 1, k + n)[i] = s[k + 1 + i - 1]
    BY <2>1, SubSeqProperties
  <2> QED  BY <2>2
<1>2. ASSUME k + 1 <= Len(s) PROVE SubSeq(s, k + 1, k + 1) = <<s[k + 1]>>
  <2> DEFINE t == SubSeq(s, k + 1, k + 1)
  <2>1. t \in Seq(Byte) /\ Len(t) = 1 /\ t[1] = s[k + 1]
    BY <1>1, <1>2
  <2> HIDE DEF t
  <2>2. t = <<t[1]>>
    BY <2>1, Short
  <2> QED  BY <2>1, <2>2 DEF t
<1>3. ASSUME k + 2 <= Len(s) PROVE SubSeq(s, k + 1, k + 2) = <<s[k + 1], s[k + 2]>>
  <2> DEFINE t == SubSeq(s, k + 1, k + 2)
  <2>1. t \in Seq(Byte) /\ Len(t) = 2 /\ t[1] = s[k + 1] /\ t[2] = s[k + 2]
    BY <1>1, <1>3
  <2> HIDE DEF t
  <2>2. t = <<t[1], t[2]>>
    BY <2>1, Short
  <2> QED  BY <2>1, <2>2 DEF t
<1>4. ASSUME k + 3 <= Len(s) PROVE SubSeq(s, k + 1, k + 3) = <<s[k + 1], s[k + 2], s[k + 3]>>
  <2> DEFINE t == SubSeq(s, k + 1, k + 3)
  <2>0. t \in Seq(Byte) /\ Len(t) = 3 /\ \A i \in 1 .. 3 : t[i] = s[k + i]
    BY <1>1, <1>4
  <2> HIDE DEF t
  <2>1. t \in Seq(Byte) /\ Len(t) = 3 /\ t[1] = s[k + 1] /\ t[2] = s[k + 2] /\ t[3] = s[k + 3]
    BY <2>0
  <2>2. t = <<t[1], t[2], t[3]>>
    BY <2>1, Short
  <2> QED  BY <2>1, <2>2 DEF t
<1>5. ASSUME k + 4 <= Len(s) PROVE SubSeq(s, k + 1, k + 4) = <<s[k + 1], s[k + 2], s[k + 3], s[k + 4]>>
  <2> DEFINE t == SubSeq(s, k + 1, k + 4)
  <2>0. t \in Seq(Byte) /\ Len(t) = 4 /\ \A i \in 1 .. 4 : t[i] = s[k + i]
    BY <1>1, <1>5
  <2> HIDE DEF t
  <2>1. t \in Seq(Byte) /\ Len(t) = 4 /\ t[1] = s[k + 1] /\ t[2] = s[k + 2] /\ t[3] = s[k + 3] /\ t[4] = s[k + 4]
    BY <2>0
  <2>2. t = <<t[1], t[2], t[3], t[4]>>
    BY <2>1, Short
  <2> QED  BY <2>1, <2>2 DEF t
<1> QED  BY <1>2, <1>3, <1>4, <1>5

-----------------------------------------------------------------------------
(* The inductive invariant                                                 *)

\* The encoding the decoder that is under way takes the file for.
Reader == IF place = "utf8" THEN "UTF8" ELSE encoding

\* What a decoder of encoding e can store.
Legible(e, ch) ==
  CASE e = "UTF8" -> ch \in CodePoint
    [] e \in {"UTF16_LE", "UTF16_BE"} -> ch \in CodePoint /\ ch <= LastCodePoint /\ ~High(ch) /\ ~Low(ch)
    [] OTHER -> ch \in Byte

\* Writing ch gives back the bytes of s behind from up to to, if it needs as many.
GivenBack(s, e, ch, from, to) ==
  (e = "UTF8" => ShortestIn(to - from, ch)) => write_char(e, ch) = SubSeq(s, from + 1, to)

\* Every character lies between two places of the file, which follow each other up to idx.
Reading ==
  /\ Len(ends) = Len(data) /\ idx = Upto(Len(data))
  /\ \A i \in 0 .. Len(data) : skipped <= Upto(i) /\ Upto(i) <= Len(raw)
  /\ \A i \in 1 .. Len(data) : /\ Upto(i - 1) < Upto(i)
                               /\ Legible(Reader, data[i])
                               /\ GivenBack(raw, Reader, data[i], Upto(i - 1), Upto(i))

\* Where the run is, and what it has done by then.
Places ==
  /\ place = "utf16" => encoding \in {"UTF16_LE", "UTF16_BE"} /\ Len(raw) % 2 = 0 /\ idx % 2 = 0
  /\ place \in {"loaded", "write"} => idx = Len(raw)
  /\ place = "write" =>
       /\ outEncoding \in {encoding, "UTF8"}
       /\ written <= Len(text) /\ Len(data) <= Len(text)
       /\ \A i \in 1 .. Len(data) : text[Len(text) - Len(data) + i] = data[i]

Inv == TypeOK /\ Reading /\ Places /\ SameBytes

-----------------------------------------------------------------------------
(* What a decoder reads                                                    *)

\* The bounds of the numbers, in the form the provers can use.
LEMMA ByteBounds == \A b : b \in Byte <=> b \in Nat /\ b < 256
  BY DEF Byte

LEMMA CodePointBounds == \A c : c \in CodePoint <=> c \in Nat /\ c < 2097152
  BY DEF CodePoint

\* One turn of the loop of decode_utf8().
LEMMA ReadsOneUtf8 ==
  ASSUME raw \in Seq(Byte), idx \in Nat, idx < Len(raw), NEW n, n = CharCnt(raw[idx + 1]), ValidUtf8(n)
  PROVE  /\ n \in Nat /\ n > 0 /\ idx + n <= Len(raw) /\ Utf8At(n) \in CodePoint
         /\ GivenBack(raw, "UTF8", Utf8At(n), idx, idx + n)
<1>0. PICK ch : ch = Utf8At(n)
  OBVIOUS
<1>1. raw[idx + 1] \in Nat /\ raw[idx + 1] < 256
  BY ElementOfSeq, ByteBounds
<1>2. \/ n = 1 /\ raw[idx + 1] < 128
      \/ n = 2 /\ raw[idx + 1] \in Lead2
      \/ n = 3 /\ raw[idx + 1] \in Lead3
      \/ n = 4 /\ raw[idx + 1] \in Lead4
  <2>1. n > 0
    BY DEF ValidUtf8
  <2> QED  BY <1>1, <2>1 DEF CharCnt, Lead2, Lead3, Lead4
<1>3. n \in 1 .. 4 /\ idx + n <= Len(raw)
  BY <1>2 DEF ValidUtf8
<1>4. \A i \in 2 .. n : raw[idx + i] \in Following
  <2>1. ASSUME NEW i \in 2 .. n PROVE raw[idx + i] \in Following
    <3>1. idx + i \in idx + 2 .. idx + n /\ idx + i \in 1 .. Len(raw)
      BY <1>3
    <3>2. raw[idx + i] >= 128 /\ raw[idx + i] < 192
      BY <3>1 DEF ValidUtf8
    <3>3. raw[idx + i] \in Nat
      BY <3>1, ElementOfSeq, ByteBounds
    <3> QED  BY <3>2, <3>3 DEF Following
  <2> QED  BY <2>1
<1>5. ch \in CodePoint /\ (ShortestIn(n, ch) => encode_utf8(ch) = SubSeq(raw, idx + 1, idx + n))
  <2>1. CASE n = 1
    <3>1. ch = raw[idx + 1] /\ ch \in Nat /\ ch < 128
      BY <1>0, <1>1, <1>2, <2>1 DEF Utf8At
    <3>2. ch \in CodePoint
      BY <3>1, CodePointBounds
    <3>3. encode_utf8(ch) = <<ch>>
      BY <3>1, EncodeOne
    <3>4. SubSeq(raw, idx + 1, idx + 1) = <<raw[idx + 1]>>
      BY <1>3, <2>1, Cut
    <3>5. ch = raw[idx + 1]
      BY <3>1
    <3> QED  BY ONLY <2>1, <3>2, <3>3, <3>4, <3>5, Zenon
  <2>2. CASE n = 2
    <3>1. ch = Two(raw[idx + 1], raw[idx + 2])
      BY <1>0, <2>2 DEF Utf8At, Tail6, Two
    <3>2. raw[idx + 1] \in Lead2 /\ raw[idx + 2] \in Following
      BY <1>2, <1>4, <2>2
    <3>3. SubSeq(raw, idx + 1, idx + 2) = <<raw[idx + 1], raw[idx + 2]>>
      BY <1>3, <2>2, Cut
    <3> QED  BY ONLY <2>2, <3>1, <3>2, <3>3, TwoBytes, Zenon
  <2>3. CASE n = 3
    <3>1. ch = Three(raw[idx + 1], raw[idx + 2], raw[idx + 3])
      BY <1>0, <2>3 DEF Utf8At, Tail6, Three
    <3>2. raw[idx + 1] \in Lead3 /\ raw[idx + 2] \in Following /\ raw[idx + 3] \in Following
      BY <1>2, <1>4, <2>3
    <3>3. SubSeq(raw, idx + 1, idx + 3) = <<raw[idx + 1], raw[idx + 2], raw[idx + 3]>>
      BY <1>3, <2>3, Cut
    <3>4. ch \in CodePoint /\ (ShortestIn(3, ch) =>
            encode_utf8(ch) = <<raw[idx + 1], raw[idx + 2], raw[idx + 3]>>)
      BY ONLY <3>1, <3>2, ThreeBytes
    <3> QED  BY ONLY <2>3, <3>3, <3>4, Zenon
  <2>4. CASE n = 4
    <3>1. ch = Four(raw[idx + 1], raw[idx + 2], raw[idx + 3], raw[idx + 4])
      BY <1>0, <2>4 DEF Utf8At, Tail6, Four
    <3>2. raw[idx + 1] \in Lead4 /\ raw[idx + 2] \in Following /\ raw[idx + 3] \in Following /\ raw[idx + 4] \in Following
      BY <1>2, <1>4, <2>4
    <3>3. SubSeq(raw, idx + 1, idx + 4) = <<raw[idx + 1], raw[idx + 2], raw[idx + 3], raw[idx + 4]>>
      BY <1>3, <2>4, Cut
    <3>4. ch \in CodePoint /\ (ShortestIn(4, ch) =>
            encode_utf8(ch) = <<raw[idx + 1], raw[idx + 2], raw[idx + 3], raw[idx + 4]>>)
      BY ONLY <3>1, <3>2, FourBytes
    <3> QED  BY ONLY <2>4, <3>3, <3>4, Zenon
  <2> QED  BY <1>2, <2>1, <2>2, <2>3, <2>4
<1>6. (idx + n) - idx = n
  BY <1>3
<1>7. GivenBack(raw, "UTF8", ch, idx, idx + n)
  <2>1. write_char("UTF8", ch) = encode_utf8(ch)
    BY DEF write_char
  <2>2. ShortestIn((idx + n) - idx, ch) => write_char("UTF8", ch) = SubSeq(raw, idx + 1, idx + n)
    BY ONLY <1>5, <1>6, <2>1, Zenon
  <2> QED  BY ONLY <2>2, Zenon DEF GivenBack
<1>8. n \in Nat /\ n > 0
  BY <1>3
<1> QED  BY ONLY <1>0, <1>3, <1>5, <1>7, <1>8, Zenon

\* One turn of the loop of decode_utf16().
LEMMA ReadsOneUtf16 ==
  ASSUME raw \in Seq(Byte), idx \in Nat, idx + 2 <= Len(raw), encoding \in {"UTF16_LE", "UTF16_BE"},
         NEW w, w = Word(idx), NEW tmp, tmp = Word(idx + 2)
  PROVE  /\ ~High(w) /\ ~Low(w) =>
              /\ w \in CodePoint /\ Legible(encoding, w)
              /\ GivenBack(raw, encoding, w, idx, idx + 2)
         /\ \A ch : High(w) /\ Low(tmp) /\ ch = (w - 55296) * 1024 + (tmp - 56320) + 65536 =>
              /\ idx + 4 <= Len(raw) /\ ch \in CodePoint /\ Legible(encoding, ch)
              /\ GivenBack(raw, encoding, ch, idx, idx + 4)
<1>1. \A ch : write_char(encoding, ch) = write_utf16(ch, encoding)
  BY DEF write_char
<1>2. ASSUME NEW k \in Nat, k + 2 <= Len(raw)
      PROVE  /\ Word(k) \in Nat /\ Word(k) < 65536
             /\ WordBytes(Word(k), encoding) = SubSeq(raw, k + 1, k + 2)
  <2>1. /\ raw[k + 1] \in Nat /\ raw[k + 1] < 256
        /\ raw[k + 2] \in Nat /\ raw[k + 2] < 256
    BY <1>2, ElementOfSeq, ByteBounds
  <2>0. SubSeq(raw, k + 1, k + 2) = <<raw[k + 1], raw[k + 2]>>
    BY <1>2, Cut
  <2>2. CASE encoding = "UTF16_BE"
    <3>1. Word(k) = raw[k + 1] * 256 + raw[k + 2]
      BY <1>2, <2>2 DEF Word
    <3>2. Word(k) \in Nat /\ Word(k) < 65536
      BY ONLY <2>1, <3>1
    <3>3. WordBytes(Word(k), encoding) = <<raw[k + 1], raw[k + 2]>>
      BY ONLY <2>1, <2>2, <3>1, OneWord
    <3>4. WordBytes(Word(k), encoding) = SubSeq(raw, k + 1, k + 2)
      BY ONLY <2>0, <3>3, Zenon
    <3> QED  BY ONLY <3>2, <3>4
  <2>3. CASE encoding = "UTF16_LE"
    <3>1. Word(k) = raw[k + 2] * 256 + raw[k + 1]
      BY <1>2, <2>3 DEF Word
    <3>2. Word(k) \in Nat /\ Word(k) < 65536
      BY ONLY <2>1, <3>1
    <3>3. WordBytes(Word(k), encoding) = <<raw[k + 1], raw[k + 2]>>
      BY ONLY <2>1, <2>3, <3>1, OneWord
    <3>4. WordBytes(Word(k), encoding) = SubSeq(raw, k + 1, k + 2)
      BY ONLY <2>0, <3>3, Zenon
    <3> QED  BY ONLY <3>2, <3>4
  <2> QED  BY <2>2, <2>3
<1>3. ASSUME ~High(w), ~Low(w)
      PROVE  /\ w \in CodePoint /\ Legible(encoding, w)
             /\ GivenBack(raw, encoding, w, idx, idx + 2)
  <2>1. w \in Nat /\ w < 65536 /\ WordBytes(w, encoding) = SubSeq(raw, idx + 1, idx + 2)
    BY <1>2
  <2>2. w \in CodePoint /\ w <= LastCodePoint
    BY <2>1, CodePointBounds DEF LastCodePoint
  <2>4. write_char(encoding, w) = SubSeq(raw, idx + 1, idx + 2)
    BY <1>1, <1>3, <2>1, Units16
  <2> QED  BY <1>3, <2>2, <2>4, Zenon DEF Legible, GivenBack
<1>4. ASSUME NEW ch, High(w), Low(tmp), ch = (w - 55296) * 1024 + (tmp - 56320) + 65536
      PROVE  /\ idx + 4 <= Len(raw) /\ ch \in CodePoint /\ Legible(encoding, ch)
             /\ GivenBack(raw, encoding, ch, idx, idx + 4)
  <2>1. idx + 4 <= Len(raw)
    <3>1. ~Low(-1)
      BY DEF Low
    <3>2. ASSUME idx + 2 + 2 > Len(raw) PROVE tmp = -1
      BY ONLY <3>2, tmp = Word(idx + 2) DEF Word
    <3> QED  BY <1>4, <3>1, <3>2
  <2>2. w \in Nat /\ w < 65536 /\ WordBytes(w, encoding) = SubSeq(raw, idx + 1, idx + 2)
    BY <1>2
  <2>3. tmp \in Nat /\ tmp < 65536 /\ WordBytes(tmp, encoding) = SubSeq(raw, idx + 2 + 1, idx + 4)
    <3>1. PICK k \in Nat : k = idx + 2
      OBVIOUS
    <3>2. k + 2 <= Len(raw) /\ k + 2 = idx + 4 /\ k + 1 = idx + 2 + 1
      BY <2>1, <3>1
    <3>3. tmp = Word(k)
      BY ONLY <3>1, tmp = Word(idx + 2), Zenon
    <3>4. tmp \in Nat /\ tmp < 65536
      BY <1>2, <3>2, <3>3
    <3>5. WordBytes(Word(k), encoding) = SubSeq(raw, k + 1, k + 2)
      BY <1>2, <3>2
    <3>6. WordBytes(tmp, encoding) = SubSeq(raw, idx + 2 + 1, idx + 4)
      BY ONLY <3>2, <3>3, <3>5, Zenon
    <3> QED  BY <3>4, <3>6
  <2>4. /\ ch \in Nat /\ 65536 <= ch /\ ch <= LastCodePoint
        /\ write_utf16(ch, encoding) = WordBytes(w, encoding) \o WordBytes(tmp, encoding)
    <3>1. w \in Nat /\ tmp \in Nat
      BY ONLY <2>2, <2>3
    <3> QED  BY ONLY High(w), Low(tmp), ch = (w - 55296) * 1024 + (tmp - 56320) + 65536, <3>1, Pair, SMTT(60)
  <2>5. ch \in CodePoint /\ ~High(ch) /\ ~Low(ch)
    BY <2>4, CodePointBounds DEF LastCodePoint, High, Low
  <2>7. SubSeq(raw, idx + 1, idx + 2) \o SubSeq(raw, idx + 2 + 1, idx + 4) = SubSeq(raw, idx + 1, idx + 4)
    <3>1. /\ idx + 1 \in 1 .. Len(raw) + 1 /\ idx + 2 \in idx + 1 - 1 .. Len(raw)
          /\ idx + 4 \in idx + 2 .. Len(raw)
      BY <2>1
    <3> QED  BY <3>1, ConcatAdjacentSubSeq
  <2>8. write_char(encoding, ch) = SubSeq(raw, idx + 1, idx + 4)
    <3>1. write_char(encoding, ch) = WordBytes(w, encoding) \o WordBytes(tmp, encoding)
      BY ONLY <1>1, <2>4
    <3>2. /\ WordBytes(w, encoding) = SubSeq(raw, idx + 1, idx + 2)
          /\ WordBytes(tmp, encoding) = SubSeq(raw, idx + 2 + 1, idx + 4)
      BY ONLY <2>2, <2>3
    <3> QED  BY ONLY <3>1, <3>2, <2>7, Zenon
  <2> QED  BY <2>1, <2>4, <2>5, <2>8 DEF Legible, GivenBack
<1> QED  BY <1>3, <1>4

-----------------------------------------------------------------------------
(* What is written                                                         *)

\* Tuples of bytes.
LEMMA Bytes ==
  /\ \A a \in Byte : <<a>> \in Seq(Byte) /\ Len(<<a>>) = 1
  /\ \A a, b \in Byte : <<a, b>> \in Seq(Byte) /\ Len(<<a, b>>) = 2
  /\ \A a, b, c \in Byte : <<a, b, c>> \in Seq(Byte) /\ Len(<<a, b, c>>) = 3
  /\ \A a, b, c, d \in Byte : <<a, b, c, d>> \in Seq(Byte) /\ Len(<<a, b, c, d>>) = 4
  OBVIOUS

\* The output of each encoder is bytes, and some for a character it can hold.
LEMMA Utf8Bytes ==
  ASSUME NEW ch \in Nat
  PROVE  encode_utf8(ch) \in Seq(Byte) /\ (ch <= LastCodePoint => Len(encode_utf8(ch)) > 0)
<1>0. /\ ch \div 64 \in Nat /\ ch \div 4096 \in Nat /\ ch \div 262144 \in Nat
      /\ ch % 64 \in Nat /\ ch % 64 < 64
      /\ (ch \div 64) % 64 \in Nat /\ (ch \div 64) % 64 < 64
      /\ (ch \div 4096) % 64 \in Nat /\ (ch \div 4096) % 64 < 64
  OBVIOUS
<1>1. Last6(ch) \in Byte /\ Third6(ch) \in Byte /\ Second6(ch) \in Byte
  BY <1>0, ByteBounds DEF Last6, Third6, Second6
<1>2. CASE ch < 128
  <2>1. ch \in Byte
    BY <1>2, ByteBounds
  <2>2. encode_utf8(ch) = <<ch>>
    BY <1>2, EncodeOne
  <2> QED  BY ONLY <2>1, <2>2, Bytes
<1>3. CASE 128 <= ch /\ ch < 2048
  <2>1. First2(ch) \in Byte
    <3>1. ch \div 64 < 32
      BY <1>3
    <3> QED  BY <3>1, <1>0, ByteBounds DEF First2
  <2>2. ch \in In2
    BY <1>3 DEF In2
  <2>3. encode_utf8(ch) = <<First2(ch), Last6(ch)>>
    BY ONLY <2>2, EncodeTwo, Zenon
  <2> QED  BY ONLY <1>1, <2>1, <2>3, Bytes
<1>4. CASE 2048 <= ch /\ ch < 65536
  <2>1. First3(ch) \in Byte
    <3>1. ch \div 4096 < 16
      BY <1>4
    <3> QED  BY <3>1, <1>0, ByteBounds DEF First3
  <2>2. ch \in In3
    BY <1>4 DEF In3
  <2>3. encode_utf8(ch) = <<First3(ch), Third6(ch), Last6(ch)>>
    BY ONLY <2>2, EncodeThree, Zenon
  <2> QED  BY ONLY <1>1, <2>1, <2>3, Bytes
<1>5. CASE 65536 <= ch /\ ch <= LastCodePoint
  <2>1. First4(ch) \in Byte
    <3>1. ch \div 262144 < 5
      BY <1>5 DEF LastCodePoint
    <3> QED  BY <3>1, <1>0, ByteBounds DEF First4
  <2>2. ch \in In4
    BY <1>5 DEF In4
  <2>3. encode_utf8(ch) = <<First4(ch), Second6(ch), Third6(ch), Last6(ch)>>
    BY ONLY <2>2, EncodeFour, Zenon
  <2> QED  BY ONLY <1>1, <2>1, <2>3, Bytes
<1>6. CASE ~(ch <= LastCodePoint)
  <2>1. ~(ch < 128) /\ ~(ch < 2048) /\ ~(ch < 65536) /\ ~(ch <= LastCodePoint)
    BY <1>6 DEF LastCodePoint
  <2>2. encode_utf8(ch) = <<>>
    BY ONLY <2>1, SMTT(60) DEF encode_utf8
  <2> QED  BY <1>6, <2>2, EmptySeq
<1>7. ch < 128 \/ (128 <= ch /\ ch < 2048) \/ (2048 <= ch /\ ch < 65536)
        \/ (65536 <= ch /\ ch <= LastCodePoint) \/ ~(ch <= LastCodePoint)
  OBVIOUS
<1> QED  BY <1>2, <1>3, <1>4, <1>5, <1>6, <1>7

LEMMA Utf16Bytes ==
  ASSUME NEW ch \in Nat, NEW e
  PROVE  /\ write_utf16(ch, e) \in Seq(Byte)
         /\ ch <= LastCodePoint /\ ~High(ch) /\ ~Low(ch) => Len(write_utf16(ch, e)) > 0
<1>1. ASSUME NEW w \in Nat, w < 65536 PROVE WordBytes(w, e) \in Seq(Byte) /\ Len(WordBytes(w, e)) = 2
  <2>1. w \div 256 \in Nat /\ w \div 256 < 256 /\ w % 256 \in Nat /\ w % 256 < 256
    BY <1>1
  <2>2. w \div 256 \in Byte /\ w % 256 \in Byte
    BY <2>1, ByteBounds
  <2> QED  BY ONLY <2>2, Bytes DEF WordBytes
<1>2. CASE ch < 55296 \/ (57344 <= ch /\ ch < 65536)
  <2>1. ~(65536 <= ch /\ ch <= LastCodePoint) /\ ch < 65536
    BY <1>2
  <2>2. write_utf16(ch, e) = WordBytes(ch, e)
    BY ONLY <1>2, <2>1, SMTT(60) DEF write_utf16
  <2> QED  BY <1>1, <2>1, <2>2
<1>3. CASE 65536 <= ch /\ ch <= LastCodePoint
  <2>1. ~(ch < 55296 \/ (57344 <= ch /\ ch < 65536))
    BY <1>3
  <2>2. write_utf16(ch, e) = WordBytes(55296 + ((ch - 65536) \div 1024), e) \o WordBytes(56320 + ((ch - 65536) % 1024), e)
    BY ONLY <1>3, <2>1, SMTT(60) DEF write_utf16
  <2>3. PICK u \in Nat : u = ch - 65536 /\ u < 1048576
    BY <1>3 DEF LastCodePoint
  <2>4. u \div 1024 \in Nat /\ u \div 1024 < 1024 /\ u % 1024 \in Nat /\ u % 1024 < 1024
    BY <2>3
  <2>5. PICK x \in Nat, y \in Nat : x = 55296 + (u \div 1024) /\ y = 56320 + (u % 1024) /\ x < 65536 /\ y < 65536
    BY <2>4
  <2>6. write_utf16(ch, e) = WordBytes(x, e) \o WordBytes(y, e)
    BY ONLY <2>2, <2>3, <2>5
  <2>7. PICK s \in Seq(Byte), t \in Seq(Byte) :
          s = WordBytes(x, e) /\ t = WordBytes(y, e) /\ Len(s) = 2 /\ Len(t) = 2
    <3>1. /\ WordBytes(x, e) \in Seq(Byte) /\ Len(WordBytes(x, e)) = 2
          /\ WordBytes(y, e) \in Seq(Byte) /\ Len(WordBytes(y, e)) = 2
      BY <1>1, <2>5
    <3> QED  BY ONLY <3>1, Zenon
  <2>8. s \o t \in Seq(Byte) /\ Len(s \o t) = 4
    <3>1. Len(s) = 2 /\ Len(t) = 2
      BY ONLY <2>7, Zenon
    <3>2. s \o t \in Seq(Byte) /\ Len(s \o t) = Len(s) + Len(t)
      BY ONLY ConcatProperties
    <3> QED  BY ONLY <3>1, <3>2
  <2>9. write_utf16(ch, e) = s \o t
    BY ONLY <2>6, <2>7, Zenon
  <2> QED  BY ONLY <2>8, <2>9
<1>4. CASE ~(ch < 55296 \/ (57344 <= ch /\ ch < 65536)) /\ ~(65536 <= ch /\ ch <= LastCodePoint)
  <2>1. write_utf16(ch, e) = <<>>
    BY ONLY <1>4, SMTT(60) DEF write_utf16
  <2>2. ~(ch <= LastCodePoint /\ ~High(ch) /\ ~Low(ch))
    BY <1>4 DEF High, Low
  <2> QED  BY <2>1, <2>2, EmptySeq
<1> QED  BY <1>2, <1>3, <1>4

\* No encoder writes what is no code point.
LEMMA TooLarge ==
  ASSUME NEW ch \in Nat, ch > LastCodePoint
  PROVE  Len(encode_utf8(ch)) = 0 /\ \A e \in Encodings : write_char(e, ch) = <<>>
<1>1. ~(ch < 128) /\ ~(ch < 2048) /\ ~(ch < 55296) /\ ~(ch < 65536) /\ ~(ch <= LastCodePoint) /\ ch \notin Byte
  BY ByteBounds DEF LastCodePoint
<1>2. encode_utf8(ch) = <<>>
  BY ONLY <1>1, SMTT(60) DEF encode_utf8
<1>3. ASSUME NEW e PROVE write_utf16(ch, e) = <<>>
  BY ONLY <1>1, SMTT(60) DEF write_utf16
<1>4. write_byte(ch) = <<>>
  BY ONLY <1>1 DEF write_byte
<1>5. \A e \in Encodings : write_char(e, ch) = <<>>
  BY ONLY <1>2, <1>3, <1>4 DEF write_char, Encodings
<1> QED  BY <1>2, <1>5

LEMMA CharBytes ==
  ASSUME NEW ch \in CodePoint, NEW e \in Encodings
  PROVE  /\ write_char(e, ch) \in Seq(Byte)
         /\ ch <= LastCodePoint /\ Legible(e, ch) => Len(write_char(e, ch)) > 0
<1>0. ch \in Nat
  BY CodePointBounds
<1>1. CASE e = "UTF8"
  <2>1. write_char(e, ch) = encode_utf8(ch)
    BY <1>1 DEF write_char
  <2> QED  BY <1>0, <2>1, Utf8Bytes
<1>2. CASE e \in {"UTF16_LE", "UTF16_BE"}
  <2>1. write_char(e, ch) = write_utf16(ch, e)
    BY <1>2 DEF write_char
  <2>2. Legible(e, ch) => ~High(ch) /\ ~Low(ch)
    BY <1>2 DEF Legible
  <2> QED  BY <1>0, <2>1, <2>2, Utf16Bytes
<1>3. CASE e \in {"ASCII", "BYTES"}
  <2>1. write_char(e, ch) = IF ch \in Byte THEN <<ch>> ELSE <<>>
    BY <1>3 DEF write_char, write_byte
  <2>2. Legible(e, ch) => ch \in Byte
    BY <1>3 DEF Legible
  <2> QED  BY ONLY <2>1, <2>2, Bytes, EmptySeq
<1> QED  BY <1>1, <1>2, <1>3 DEF Encodings

\* A byte order mark is bytes.
LEMMA BomBytes ==
  ASSUME NEW e \in Encodings
  PROVE  write_bom(e) \in Seq(Byte)
<1>1. 65279 \in CodePoint
  BY CodePointBounds
<1> QED  BY <1>1, CharBytes, EmptySeq DEF write_bom

-----------------------------------------------------------------------------
(* The steps of the decoders                                               *)

\* Before the first character.
LEMMA NoReading ==
  ASSUME TypeOK, data' = <<>>, ends' = <<>>, NEW n \in Nat, idx' = n, skipped' = n, n <= Len(raw')
  PROVE  Reading'
<1>1. Len(data') = 0 /\ Len(ends') = 0
  OBVIOUS
<1>2. Upto(0)' = skipped'
  BY DEF Upto
<1>3. \A i \in 0 .. Len(data') : i = 0
  BY <1>1
<1> QED  BY <1>1, <1>2, <1>3 DEF Reading

\* One character more.
LEMMA PushKeeps ==
  ASSUME TypeOK, Reading, place \in {"utf8", "utf16"}, NEW ch \in CodePoint, NEW n \in Nat, n > 0, Push(ch, n),
         idx + n <= Len(raw), Legible(Reader, ch), GivenBack(raw, Reader, ch, idx, idx + n)
  PROVE  TypeOK' /\ Reading'
<1>0. PICK k \in Nat : k = Len(data)
  BY LenProperties DEF TypeOK
<1>1. /\ data \in Seq(CodePoint) /\ ends \in Seq(Nat) /\ idx \in Nat /\ skipped \in Nat /\ Len(raw) \in Nat
      /\ Len(ends) = k
  BY <1>0 DEF TypeOK, Reading
<1>2. /\ data' \in Seq(CodePoint) /\ Len(data') = k + 1 /\ data'[k + 1] = ch
      /\ \A i \in 1 .. k : data'[i] = data[i]
  BY <1>0, <1>1, AppendProperties DEF Push
<1>3. /\ ends' \in Seq(Nat) /\ Len(ends') = k + 1 /\ ends'[k + 1] = idx + n
      /\ \A i \in 1 .. k : ends'[i] = ends[i]
  BY <1>0, <1>1, AppendProperties DEF Push
<1>4. raw' = raw /\ skipped' = skipped /\ idx' = idx + n /\ place' = place /\ encoding' = encoding
  BY DEF Push
<1>5. TypeOK'
  <2>1. UNCHANGED <<options, raw, text, out, encoding, outEncoding, hasBom, outBom, skipped, written, place, earlier>>
    BY DEF Push, output
  <2> QED  BY ONLY TypeOK, <1>1, <1>2, <1>3, <1>4, <2>1, n \in Nat DEF TypeOK
<1>6. \A i \in 0 .. k : Upto(i)' = Upto(i)
  BY <1>1, <1>3, <1>4 DEF Upto
<1>7. Upto(k + 1)' = idx + n /\ Upto(k) = idx
  BY <1>0, <1>1, <1>3 DEF Upto, Reading
<1>8. Reader' = Reader
  BY <1>4 DEF Reader
<1>9. \A i \in 0 .. k : skipped <= Upto(i) /\ Upto(i) <= Len(raw)
  BY <1>0 DEF Reading
<1>10. ASSUME NEW i \in 0 .. k + 1 PROVE skipped' <= Upto(i)' /\ Upto(i)' <= Len(raw')
  <2>1. CASE i \in 0 .. k
    BY <2>1, <1>4, <1>6, <1>9
  <2>2. CASE i = k + 1
    <3>1. k \in 0 .. k
      BY <1>1
    <3>2. skipped <= idx
      BY <3>1, <1>7, <1>9
    <3> QED  BY <2>2, <3>2, <1>1, <1>4, <1>7
  <2> QED  BY <1>1, <2>1, <2>2
<1>11. ASSUME NEW i \in 1 .. k + 1
       PROVE  /\ Upto(i - 1)' < Upto(i)' /\ Legible(Reader', data'[i])
              /\ GivenBack(raw', Reader', data'[i], Upto(i - 1)', Upto(i)')
  <2>1. CASE i \in 1 .. k
    <3>1. /\ Upto(i - 1) < Upto(i) /\ Legible(Reader, data[i])
          /\ GivenBack(raw, Reader, data[i], Upto(i - 1), Upto(i))
      BY <1>0, <2>1 DEF Reading
    <3>2. Upto(i - 1)' = Upto(i - 1) /\ Upto(i)' = Upto(i) /\ data'[i] = data[i]
      BY <1>1, <1>2, <1>6, <2>1
    <3> QED  BY <1>4, <1>8, <3>1, <3>2 
  <2>2. CASE i = k + 1
    <3>1. i - 1 = k /\ k \in 0 .. k
      BY <1>1, <2>2
    <3>2. Upto(i - 1)' = idx /\ Upto(i)' = idx + n /\ data'[i] = ch
      BY <1>2, <1>6, <1>7, <2>2, <3>1
    <3> QED  BY <1>1, <1>4, <1>8, <3>2 
  <2> QED  BY <1>1, <2>1, <2>2
<1>12. idx' = Upto(k + 1)' /\ Len(ends') = Len(data') /\ Len(data') = k + 1
  BY <1>2, <1>3, <1>4, <1>7
<1>13. Reading'
  BY <1>10, <1>11, <1>12 DEF Reading
<1> QED  BY <1>5, <1>13

\* decode_bytes(): every byte is a character.
LEMMA DecodesBytes ==
  ASSUME TypeOK, NEW e \in {"ASCII", "BYTES"}, DecodeBytes(e)
  PROVE  TypeOK' /\ Reading' /\ Places' /\ SameBytes'
<1>0. PICK n \in Nat : n = Len(raw)
  BY LenProperties DEF TypeOK
<1>1. /\ raw \in Seq(Byte) /\ data' = raw /\ ends' = [i \in DOMAIN raw |-> i] /\ DOMAIN raw = 1 .. n
      /\ raw' = raw /\ idx' = n /\ skipped' = 0 /\ encoding' = e /\ place' = "loaded"
  BY <1>0, LenProperties DEF TypeOK, DecodeBytes
<1>2. ends' \in Seq(Nat) /\ Len(ends') = n /\ \A i \in 1 .. n : ends'[i] = i
  BY <1>0, <1>1
<1>3. data' \in Seq(CodePoint) /\ Len(data') = n /\ \A i \in 1 .. n : data'[i] \in Byte /\ data'[i] = raw[i]
  <2>1. \A b \in Byte : b \in CodePoint
    BY ByteBounds, CodePointBounds
  <2>2. \A i \in 1 .. n : raw[i] \in Byte
    BY <1>0, <1>1, ElementOfSeq
  <2>3. raw \in Seq(CodePoint)
    BY <1>0, <1>1, <2>1, <2>2
  <2> QED  BY <1>0, <1>1, <2>2, <2>3
<1>4. TypeOK'
  <2>1. UNCHANGED <<options, raw, text, out, outEncoding, hasBom, outBom, written, earlier>>
    BY DEF DecodeBytes, output
  <2>2. e \in Encodings
    BY DEF Encodings
  <2>3. 0 \in Nat
    OBVIOUS
  <2> QED  BY ONLY TypeOK, <1>0, <1>1, <1>2, <1>3, <2>1, <2>2, <2>3 DEF TypeOK
<1>5. \A i \in 0 .. n : Upto(i)' = i
  BY <1>1, <1>2 DEF Upto
<1>6. Reader' = e
  BY <1>1 DEF Reader
<1>7. ASSUME NEW i \in 1 .. n
      PROVE  /\ Upto(i - 1)' < Upto(i)' /\ Legible(Reader', data'[i])
             /\ GivenBack(raw', Reader', data'[i], Upto(i - 1)', Upto(i)')
  <2>1. Upto(i - 1)' = i - 1 /\ Upto(i)' = i
    BY <1>5
  <2>2. data'[i] \in Byte /\ data'[i] = raw[i]
    BY <1>3
  <2>3. Legible(e, data'[i])
    BY <2>2 DEF Legible
  <2>4. write_char(e, data'[i]) = <<raw[i]>>
    BY <2>2 DEF write_char, write_byte
  <2>5. SubSeq(raw, (i - 1) + 1, i) = <<raw[i]>>
    <3>1. PICK k \in Nat : k = i - 1 /\ k + 1 = i /\ k + 1 <= Len(raw)
      BY <1>0
    <3> QED  BY ONLY <1>1, <3>1, Cut
  <2>6. GivenBack(raw, e, data'[i], i - 1, i)
    BY ONLY <2>4, <2>5, Zenon DEF GivenBack
  <2>7. i - 1 < i
    OBVIOUS
  <2> QED  BY ONLY <1>1, <1>6, <2>1, <2>3, <2>6, <2>7
<1>8. Reading'
  <2>1. \A i \in 0 .. n : skipped' <= Upto(i)' /\ Upto(i)' <= Len(raw')
    BY <1>0, <1>1, <1>5
  <2>2. idx' = Upto(n)' /\ Len(ends') = Len(data') /\ Len(data') = n
    BY <1>1, <1>2, <1>3, <1>5
  <2> QED  BY <1>7, <2>1, <2>2 DEF Reading
<1>9. Places' /\ SameBytes'
  BY <1>0, <1>1 DEF Places, SameBytes
<1> QED  BY <1>4, <1>8, <1>9

\* A decoder begins with nothing.
LEMMA DecodeBegins ==
  ASSUME TypeOK, NEW d \in {"guess", "utf8", "utf16", "error"}, NEW n \in Nat, n <= Len(raw), Decode(d, n),
         encoding' \in Encodings, hasBom' \in BOOLEAN,
         d = "utf16" => encoding' \in {"UTF16_LE", "UTF16_BE"} /\ Len(raw) % 2 = 0 /\ n % 2 = 0
  PROVE  TypeOK' /\ Reading' /\ Places' /\ SameBytes'
<1>1. /\ data' = <<>> /\ ends' = <<>> /\ idx' = n /\ skipped' = n /\ place' = d
      /\ UNCHANGED <<options, raw, text, out, outEncoding, outBom, written, earlier>>
  BY DEF Decode, output
<1>2. <<>> \in Seq(CodePoint) /\ <<>> \in Seq(Nat)
  BY EmptySeq
<1>3. d \in {"bom", "guess", "utf8", "utf16", "loaded", "write", "error"}
  OBVIOUS
<1>4. TypeOK'
  BY ONLY TypeOK, <1>1, <1>2, <1>3, n \in Nat, encoding' \in Encodings, hasBom' \in BOOLEAN DEF TypeOK
<1>5. Reading'
  BY <1>1, NoReading
<1>6. Places' /\ SameBytes'
  BY <1>1 DEF Places, SameBytes
<1> QED  BY <1>4, <1>5, <1>6

\* Each step keeps the invariant.
LEMMA DetectBomKeeps ==
  ASSUME Inv, DetectBom
  PROVE  Inv'
<1>0. raw \in Seq(Byte) /\ Len(raw) \in Nat /\ TypeOK
  BY DEF Inv, TypeOK
<1>1. /\ encoding' = decode_bom /\ hasBom' \in BOOLEAN
      /\ decode_bom \in {"UTF16_BE", "UTF16_LE", "UTF8", "ASCII"}
  BY DEF DetectBom, decode_bom
<1>2. CASE decode_bom = "ASCII"
  <2>1. Decode("guess", 0)
    BY <1>2 DEF DetectBom
  <2>2. encoding' \in Encodings
    BY <1>1, <1>2 DEF Encodings
  <2> QED  BY <1>0, <1>1, <2>1, <2>2, DecodeBegins DEF Inv
<1>3. CASE decode_bom = "UTF8"
  <2>1. Decode("utf8", 3)
    BY <1>3 DEF DetectBom
  <2>2. encoding' \in Encodings
    BY <1>1, <1>3 DEF Encodings
  <2>3. 3 <= Len(raw)
    <3>1. Len(<<239, 187, 191>>) = 3
      OBVIOUS
    <3> QED  BY <1>0, <1>3, <3>1 DEF decode_bom, StartsWith
  <2> QED  BY <1>0, <1>1, <2>1, <2>2, <2>3, DecodeBegins DEF Inv
<1>4. CASE decode_bom \in {"UTF16_BE", "UTF16_LE"}
  <2>1. IF Len(raw) % 2 = 1 THEN Decode("error", 0) ELSE Decode("utf16", 2)
    BY <1>4 DEF DetectBom
  <2>2. encoding' \in Encodings /\ encoding' \in {"UTF16_LE", "UTF16_BE"}
    BY <1>1, <1>4 DEF Encodings
  <2>3. 2 <= Len(raw)
    <3>1. Len(<<254, 255>>) = 2 /\ Len(<<255, 254>>) = 2
      OBVIOUS
    <3> QED  BY <1>0, <1>4, <3>1 DEF decode_bom, StartsWith
  <2>4. CASE Len(raw) % 2 = 1
    BY <1>0, <1>1, <2>1, <2>2, <2>4, DecodeBegins DEF Inv
  <2>5. CASE Len(raw) % 2 # 1
    <3>1. Len(raw) % 2 = 0 /\ 2 % 2 = 0 /\ 2 \in Nat
      BY <1>0, <2>5
    <3> QED  BY <1>0, <1>1, <2>1, <2>2, <2>3, <2>5, <3>1, DecodeBegins DEF Inv
  <2> QED  BY <2>4, <2>5
<1> QED  BY <1>1, <1>2, <1>3, <1>4

LEMMA GuessKeeps ==
  ASSUME Inv, Guess
  PROVE  Inv'
<1>0. raw \in Seq(Byte) /\ Len(raw) \in Nat /\ TypeOK
  BY DEF Inv, TypeOK
<1>1. CASE is_ascii
  <2>1. DecodeBytes("ASCII")
    BY <1>1 DEF Guess
  <2> QED  BY <1>0, <2>1, DecodesBytes DEF Inv
<1>2. CASE ~is_ascii /\ GuessUtf16 # "ASCII"
  <2>1. encoding' = GuessUtf16 /\ UNCHANGED hasBom /\ Decode("utf16", 0)
    BY <1>2 DEF Guess
  <2>2. /\ GuessUtf16 \in {"UTF16_LE", "UTF16_BE"} /\ Len(raw) % 2 = 0
    BY <1>2 DEF GuessUtf16, LooksLike
  <2>3. encoding' \in Encodings /\ hasBom' \in BOOLEAN
    BY <1>0, <2>1, <2>2 DEF Encodings, TypeOK
  <2>4. 0 % 2 = 0 /\ 0 \in Nat /\ 0 <= Len(raw)
    BY <1>0
  <2> QED  BY <1>0, <2>1, <2>2, <2>3, <2>4, DecodeBegins DEF Inv
<1>3. CASE ~is_ascii /\ GuessUtf16 = "ASCII"
  <2>1. UNCHANGED <<encoding, hasBom>> /\ Decode("utf8", 0)
    BY <1>3 DEF Guess
  <2>2. encoding' \in Encodings /\ hasBom' \in BOOLEAN
    BY <1>0, <2>1 DEF TypeOK
  <2> QED  BY <1>0, <2>1, <2>2, DecodeBegins DEF Inv
<1> QED  BY <1>1, <1>2, <1>3

LEMMA ReadUtf8Keeps ==
  ASSUME Inv, ReadUtf8
  PROVE  Inv'
<1>0. /\ raw \in Seq(Byte) /\ Len(raw) \in Nat /\ TypeOK /\ Reading /\ idx \in Nat
      /\ place = "utf8" /\ idx < Len(raw) /\ Reader = "UTF8"
  BY DEF Inv, TypeOK, ReadUtf8, Reader
<1>1. PICK n : n = CharCnt(raw[idx + 1])
  OBVIOUS
<1>2. CASE ValidUtf8(n)
  <2>1. Push(Utf8At(n), n)
    BY <1>1, <1>2 DEF ReadUtf8
  <2>2. /\ n \in Nat /\ n > 0 /\ idx + n <= Len(raw) /\ Utf8At(n) \in CodePoint
        /\ GivenBack(raw, "UTF8", Utf8At(n), idx, idx + n)
    BY ONLY <1>0, <1>1, <1>2, ReadsOneUtf8
  <2>3. Legible("UTF8", Utf8At(n))
    BY <2>2 DEF Legible
  <2>4. TypeOK' /\ Reading'
    BY ONLY <1>0, <2>1, <2>2, <2>3, PushKeeps
  <2>5. place' = "utf8"
    BY <1>0, <2>1 DEF Push
  <2>6. Places' /\ SameBytes'
    BY <2>5 DEF Places, SameBytes
  <2> QED  BY <2>4, <2>6 DEF Inv
<1>3. CASE ~ValidUtf8(n) /\ hasBom
  <2>1. UNCHANGED <<encoding, hasBom>> /\ Decode("error", 0)
    BY <1>1, <1>3 DEF ReadUtf8
  <2>2. encoding' \in Encodings /\ hasBom' \in BOOLEAN
    BY <1>0, <2>1 DEF TypeOK
  <2> QED  BY <1>0, <2>1, <2>2, DecodeBegins DEF Inv
<1>4. CASE ~ValidUtf8(n) /\ ~hasBom
  <2>1. DecodeBytes("BYTES")
    BY <1>1, <1>4 DEF ReadUtf8
  <2> QED  BY <1>0, <2>1, DecodesBytes DEF Inv
<1> QED  BY <1>2, <1>3, <1>4

LEMMA ReadUtf16Keeps ==
  ASSUME Inv, ReadUtf16
  PROVE  Inv'
<1>0. /\ raw \in Seq(Byte) /\ Len(raw) \in Nat /\ TypeOK /\ Reading /\ idx \in Nat
      /\ place = "utf16" /\ idx < Len(raw) /\ Reader = encoding
      /\ encoding \in {"UTF16_LE", "UTF16_BE"} /\ Len(raw) % 2 = 0 /\ idx % 2 = 0
  BY DEF Inv, TypeOK, ReadUtf16, Reader, Places
<1>1. idx + 2 <= Len(raw) /\ (idx + 2) % 2 = 0 /\ (idx + 4) % 2 = 0
  BY <1>0
<1>2. PICK w : w = Word(idx)
  OBVIOUS
<1>3. PICK tmp : tmp = Word(idx + 2)
  OBVIOUS
<1>4. ASSUME NEW ch \in CodePoint, NEW n \in {2, 4}, Push(ch, n), idx + n <= Len(raw),
             Legible(encoding, ch), GivenBack(raw, encoding, ch, idx, idx + n)
      PROVE  Inv'
  <2>1. TypeOK' /\ Reading'
    BY <1>0, <1>4, PushKeeps
  <2>2. place' = "utf16" /\ encoding' = encoding /\ raw' = raw /\ idx' = idx + n
    BY <1>0, <1>4 DEF Push
  <2>3. idx' % 2 = 0
    BY <1>1, <2>2
  <2>4. Places' /\ SameBytes'
    BY <1>0, <2>2, <2>3 DEF Places, SameBytes
  <2> QED  BY <2>1, <2>4 DEF Inv
<1>5. CASE High(w) /\ Low(tmp)
  <2>1. PICK ch : ch = (w - 55296) * 1024 + (tmp - 56320) + 65536
    OBVIOUS
  <2>2. Push(ch, 4)
    BY <1>2, <1>3, <1>5, <2>1 DEF ReadUtf16
  <2>3. /\ idx + 4 <= Len(raw) /\ ch \in CodePoint /\ Legible(encoding, ch)
        /\ GivenBack(raw, encoding, ch, idx, idx + 4)
    BY ONLY <1>0, <1>1, <1>2, <1>3, <1>5, <2>1, ReadsOneUtf16
  <2> QED  BY <1>4, <2>2, <2>3
<1>6. CASE ~High(w) /\ ~Low(w)
  <2>1. Push(w, 2)
    BY <1>2, <1>3, <1>6 DEF ReadUtf16
  <2>2. w \in CodePoint /\ Legible(encoding, w) /\ GivenBack(raw, encoding, w, idx, idx + 2)
    BY ONLY <1>0, <1>1, <1>2, <1>3, <1>6, ReadsOneUtf16
  <2> QED  BY <1>1, <1>4, <2>1, <2>2
<1>7. CASE ~(High(w) /\ Low(tmp)) /\ ~(~High(w) /\ ~Low(w))
  <2>1. UNCHANGED <<encoding, hasBom>> /\ (Decode("error", 0) \/ Decode("utf8", 0))
    BY <1>2, <1>3, <1>7 DEF ReadUtf16
  <2>2. encoding' \in Encodings /\ hasBom' \in BOOLEAN
    BY <1>0, <2>1 DEF TypeOK
  <2> QED  BY <1>0, <2>1, <2>2, DecodeBegins DEF Inv
<1> QED  BY <1>5, <1>6, <1>7

LEMMA EndOfFileKeeps ==
  ASSUME Inv, EndOfFile
  PROVE  Inv'
<1>0. TypeOK /\ Reading /\ place \in {"utf8", "utf16"} /\ idx = Len(raw)
  BY DEF Inv, EndOfFile
<1>1. /\ encoding' = Reader /\ place' = "loaded" /\ Reader' = Reader
      /\ UNCHANGED <<options, raw, data, hasBom, idx, ends, skipped, outEncoding, outBom, text, written, out, earlier>>
  BY <1>0 DEF EndOfFile, Reader, output
<1>2. Reader \in Encodings
  BY <1>0 DEF Reader, TypeOK, Encodings
<1>3. TypeOK'
  BY ONLY <1>0, <1>1, <1>2 DEF TypeOK
<1>4. \A i : Upto(i)' = Upto(i)
  BY <1>1 DEF Upto
<1>5. Reading'
  BY <1>0, <1>1, <1>4 DEF Reading
<1>6. Places' /\ SameBytes'
  BY <1>0, <1>1 DEF Places, SameBytes
<1> QED  BY <1>3, <1>5, <1>6 DEF Inv

-----------------------------------------------------------------------------
(* The steps of the output                                                 *)

\* What is written begins with the BOM and the header.
LEMMA BeginKeeps ==
  ASSUME Inv, Begin
  PROVE  Inv'
<1> DEFINE h == IF earlier = <<>> THEN options.header ELSE <<>>
<1>0. /\ TypeOK /\ Reading /\ place = "loaded" /\ idx = Len(raw) /\ Len(raw) \in Nat
      /\ data \in Seq(CodePoint) /\ Len(data) \in Nat /\ skipped \in Nat
  BY DEF Inv, Begin, Places, TypeOK
<1>1. UNCHANGED <<options, raw, data, encoding, hasBom, idx, ends, skipped, earlier>> /\ written' = 0
  BY DEF Begin, file
<1>2. outEncoding' \in {encoding, "UTF8"} /\ outEncoding' \in Encodings /\ outBom' \in BOOLEAN
  BY <1>0 DEF Begin, OutEncoding, OutBom, TypeOK, Encodings
<1>3. h \in Seq(CodePoint)
  BY <1>0, EmptySeq DEF TypeOK
<1>4. CASE EmbeddedZero
  <2>1. place' = "error" /\ UNCHANGED <<text, out>>
    BY <1>4 DEF Begin
  <2>2. TypeOK'
    BY ONLY <1>0, <1>1, <1>2, <2>1, 0 \in Nat DEF TypeOK
  <2>3. Reader' = Reader /\ \A i : Upto(i)' = Upto(i)
    BY <1>0, <1>1, <2>1 DEF Reader, Upto
  <2>4. Reading'
    BY <1>0, <1>1, <2>3 DEF Reading
  <2>5. Places' /\ SameBytes'
    BY <2>1 DEF Places, SameBytes
  <2> QED  BY <2>2, <2>4, <2>5 DEF Inv
<1>5. CASE ~EmbeddedZero
  <2>1. place' = "write" /\ text' = h \o data /\ out' = IF outBom' THEN write_bom(outEncoding') ELSE <<>>
    BY <1>5 DEF Begin
  <2>2. out' \in Seq(Byte)
    BY <1>2, <2>1, BomBytes, EmptySeq
  <2>3. /\ text' \in Seq(CodePoint) /\ Len(text') = Len(h) + Len(data)
        /\ \A i \in 1 .. Len(h) + Len(data) : text'[i] = IF i <= Len(h) THEN h[i] ELSE data[i - Len(h)]
    BY <1>0, <1>3, <2>1, ConcatProperties
  <2>4. Len(h) \in Nat
    BY <1>3, LenProperties
  <2> HIDE DEF h
  <2>5. TypeOK'
    BY ONLY <1>0, <1>1, <1>2, <2>1, <2>2, <2>3, 0 \in Nat DEF TypeOK
  <2>6. Reader' = Reader /\ \A i : Upto(i)' = Upto(i)
    BY <1>0, <1>1, <2>1 DEF Reader, Upto
  <2>7. Reading'
    BY <1>0, <1>1, <2>6 DEF Reading
  <2>8. Places'
    <3>1. ASSUME NEW i \in 1 .. Len(data) PROVE text'[Len(text') - Len(data) + i] = data[i]
      <4>1. PICK k \in Nat : k = Len(h) + i
        BY <2>4
      <4>2. k \in 1 .. Len(h) + Len(data) /\ ~(k <= Len(h)) /\ k - Len(h) = i
        BY <1>0, <2>4, <4>1
      <4>3. Len(text') - Len(data) + i = k
        BY <1>0, <2>3, <2>4, <4>1
      <4> QED  BY <2>3, <4>2, <4>3
    <3>2. written' <= Len(text') /\ Len(data') <= Len(text')
      BY <1>0, <1>1, <2>3, <2>4
    <3> QED  BY <1>0, <1>1, <1>2, <2>1, <3>1, <3>2 DEF Places
  <2>9. SameBytes'
    <3>1. SUFFICES ASSUME text' = data'
          PROVE  /\ out' = (IF outBom THEN write_bom(outEncoding) ELSE <<>>)'
                             \o SubSeq(raw', skipped' + 1, Upto(written)')
                 /\ written' = Len(text') => Upto(written)' = Len(raw')
      BY DEF SameBytes
    <3>2. Upto(written)' = skipped'
      BY <1>1 DEF Upto
    <3>3. SubSeq(raw', skipped' + 1, Upto(written)') = <<>>
      <4>1. skipped + 1 \in Int /\ skipped \in Int /\ skipped < skipped + 1
        BY <1>0
      <4> QED  BY <1>1, <3>2, <4>1, SubSeqEmpty
    <3>4. out' = out' \o <<>>
      BY <2>2, ConcatEmptySeq
    <3>5. out' = (IF outBom THEN write_bom(outEncoding) ELSE <<>>)'
      BY <2>1
    <3>6. written' = Len(text') => Upto(written)' = Len(raw')
      <4>1. Len(data) = 0 => Upto(0) = Len(raw)
        BY <1>0 DEF Reading
      <4> QED  BY <1>1, <3>1, <3>2, <4>1 DEF Upto
    <3> QED  BY ONLY <3>3, <3>4, <3>5, <3>6, Zenon
  <2> QED  BY <2>5, <2>7, <2>8, <2>9 DEF Inv
<1> QED  BY <1>4, <1>5

\* The character that is written is one that was read, if it is not of the header.
LEMMA Written ==
  ASSUME Inv, WriteChar
  PROVE  /\ written \in Nat /\ written + 1 \in 1 .. Len(text) /\ text[written + 1] \in CodePoint
         /\ written >= Len(text) - Len(data) =>
              \E i \in 1 .. Len(data) :
                 /\ i = written + 1 - (Len(text) - Len(data)) /\ text[written + 1] = data[i]
                 /\ Legible(encoding, data[i]) /\ outEncoding \in {encoding, "UTF8"}
                 /\ GivenBack(raw, encoding, data[i], Upto(i - 1), Upto(i))
                 /\ skipped <= Upto(i - 1) /\ Upto(i - 1) < Upto(i) /\ Upto(i) <= Len(raw)
<1>1. /\ TypeOK /\ Reading /\ place = "write" /\ written \in Nat /\ written < Len(text)
      /\ Len(text) \in Nat /\ Len(data) \in Nat /\ text \in Seq(CodePoint) /\ Len(data) <= Len(text)
      /\ outEncoding \in {encoding, "UTF8"} /\ Reader = encoding
  BY DEF Inv, WriteChar, TypeOK, Places, Reader
<1>2. written + 1 \in 1 .. Len(text)
  BY <1>1
<1>3. text[written + 1] \in CodePoint
  BY <1>1, <1>2, ElementOfSeq
<1>4. ASSUME written >= Len(text) - Len(data)
      PROVE  \E i \in 1 .. Len(data) :
               /\ i = written + 1 - (Len(text) - Len(data)) /\ text[written + 1] = data[i]
               /\ Legible(encoding, data[i]) /\ outEncoding \in {encoding, "UTF8"}
               /\ GivenBack(raw, encoding, data[i], Upto(i - 1), Upto(i))
               /\ skipped <= Upto(i - 1) /\ Upto(i - 1) < Upto(i) /\ Upto(i) <= Len(raw)
  <2>1. PICK i \in 1 .. Len(data) : i = written + 1 - (Len(text) - Len(data)) /\ written + 1 = Len(text) - Len(data) + i
    <3>1. PICK k : k = written + 1 - (Len(text) - Len(data))
      OBVIOUS
    <3>2. k \in 1 .. Len(data) /\ written + 1 = Len(text) - Len(data) + k
      BY ONLY <1>1, <1>4, <3>1
    <3> QED  BY ONLY <3>1, <3>2, Zenon
  <2>2. text[written + 1] = data[i]
    BY <1>1, <2>1 DEF Inv, Places
  <2>3. /\ Legible(encoding, data[i]) /\ GivenBack(raw, encoding, data[i], Upto(i - 1), Upto(i))
        /\ Upto(i - 1) < Upto(i)
    BY <1>1 DEF Reading
  <2>4. i \in 0 .. Len(data) /\ i - 1 \in 0 .. Len(data)
    BY <1>1
  <2>5. skipped <= Upto(i - 1) /\ Upto(i) <= Len(raw)
    BY <1>1, <2>4 DEF Reading
  <2> QED  BY ONLY <1>1, <2>1, <2>2, <2>3, <2>5, Zenon
<1> QED  BY ONLY <1>1, <1>2, <1>3, <1>4, Zenon

\* A sequence that is not the shortest, or no code point, is not written with as many bytes.
LEMMA NotShortest ==
  ASSUME NEW ch \in CodePoint, NEW n \in Nat, n > 0, ~ShortestIn(n, ch)
  PROVE  Len(encode_utf8(ch)) # n
<1>0. ch \in Nat
  BY CodePointBounds
<1>1. CASE ch < 128
  <2>1. Len(encode_utf8(ch)) = 1
    BY <1>0, <1>1, EncodeOne
  <2>2. n # 1
    BY <1>1 DEF ShortestIn
  <2> QED  BY <2>1, <2>2
<1>2. CASE 128 <= ch /\ ch < 2048
  <2>1. Len(encode_utf8(ch)) = 2
    BY <1>0, <1>2, EncodeTwo DEF In2
  <2>2. n # 2
    BY <1>2 DEF ShortestIn
  <2> QED  BY <2>1, <2>2
<1>3. CASE 2048 <= ch /\ ch < 65536
  <2>1. Len(encode_utf8(ch)) = 3
    BY <1>0, <1>3, EncodeThree DEF In3
  <2>2. n # 3
    BY <1>3 DEF ShortestIn
  <2> QED  BY <2>1, <2>2
<1>4. CASE 65536 <= ch /\ ch <= LastCodePoint
  <2>1. Len(encode_utf8(ch)) = 4
    BY <1>0, <1>4, EncodeFour DEF In4
  <2>2. n # 4
    BY <1>4 DEF ShortestIn
  <2> QED  BY <2>1, <2>2
<1>5. CASE ch > LastCodePoint
  <2>1. Len(encode_utf8(ch)) = 0
    BY <1>0, <1>5, TooLarge
  <2> QED  BY <2>1
<1>6. ch < 128 \/ (128 <= ch /\ ch < 2048) \/ (2048 <= ch /\ ch < 65536) \/ (65536 <= ch /\ ch <= LastCodePoint)
        \/ ch > LastCodePoint
  BY <1>0 DEF LastCodePoint
<1> QED  BY <1>1, <1>2, <1>3, <1>4, <1>5, <1>6

\* One character more is written: its bytes are those behind the bytes written so far.
LEMMA WriteCharKeeps ==
  ASSUME Inv, WriteChar
  PROVE  Inv'
<1> DEFINE more == write_char(outEncoding, text[written + 1])
<1>0. /\ TypeOK /\ Reading /\ Places /\ SameBytes /\ place = "write" /\ written \in Nat /\ written < Len(text)
      /\ Len(text) \in Nat /\ Len(data) \in Nat /\ out \in Seq(Byte) /\ outEncoding \in Encodings
      /\ raw \in Seq(Byte) /\ Len(raw) \in Nat /\ skipped \in Nat /\ Reader = encoding /\ idx = Len(raw)
  BY DEF Inv, WriteChar, TypeOK, Places, Reader
<1>1. /\ UNCHANGED <<options, raw, data, encoding, hasBom, idx, ends, skipped, earlier, place, outEncoding, outBom, text>>
      /\ written' = written + 1 /\ out' = out \o more
  BY DEF WriteChar, file
<1>2. more \in Seq(Byte)
  BY <1>0, Written, CharBytes
<1> HIDE DEF more
<1>3. out' \in Seq(Byte) /\ written' \in Nat /\ written' <= Len(text)
  BY <1>0, <1>1, <1>2, ConcatProperties
<1>4. TypeOK'
  BY ONLY <1>0, <1>1, <1>3 DEF TypeOK
<1>5. Reader' = Reader /\ \A i : Upto(i)' = Upto(i)
  BY <1>1 DEF Reader, Upto
<1>6. Reading'
  BY <1>0, <1>1, <1>5 DEF Reading
<1>7. Places'
  BY <1>0, <1>1, <1>3 DEF Places
<1>8. SameBytes'
  <2> DEFINE bom == IF outBom THEN write_bom(outEncoding) ELSE <<>>
  <2>1. SUFFICES ASSUME outEncoding = encoding, text = data, Shortest
        PROVE  /\ out' = bom \o SubSeq(raw, skipped + 1, Upto(written'))
               /\ written' = Len(text) => Upto(written') = Len(raw)
    BY <1>1, <1>5 DEF SameBytes, Shortest, Upto
  <2>2. bom \in Seq(Byte)
    BY <1>0, BomBytes, EmptySeq
  <2>3. PICK k \in 1 .. Len(data) : k = written + 1 /\ k - 1 = written /\ written' = k
    BY <1>0, <1>1, <2>1
  <2>4. out = bom \o SubSeq(raw, skipped + 1, Upto(written))
    BY <1>0, <2>1 DEF SameBytes
  <2> HIDE DEF bom
  <2>5. more = SubSeq(raw, Upto(written) + 1, Upto(k))
    <3>1. GivenBack(raw, Reader, data[k], Upto(k - 1), Upto(k))
      BY <1>0 DEF Reading
    <3>2. encoding = "UTF8" => ShortestIn(Upto(k) - Upto(k - 1), data[k])
      BY <1>0, <2>1 DEF Shortest, TypeOK
    <3>3. write_char(encoding, data[k]) = SubSeq(raw, Upto(k - 1) + 1, Upto(k))
      BY ONLY <1>0, <3>1, <3>2 DEF GivenBack
    <3>4. more = write_char(encoding, data[k])
      BY ONLY <2>1, <2>3, Zenon DEF more
    <3> QED  BY ONLY <2>3, <3>3, <3>4, Zenon
  <2>6. /\ skipped <= Upto(written) /\ Upto(written) <= Upto(k) /\ Upto(k) <= Len(raw)
        /\ Upto(written) \in Nat /\ Upto(k) \in Nat
    <3>1. written \in 0 .. Len(data) /\ k \in 0 .. Len(data)
      BY <1>0, <2>3
    <3>2. /\ skipped <= Upto(written) /\ Upto(k) <= Len(raw) /\ Upto(k - 1) < Upto(k)
      BY <1>0, <3>1 DEF Reading
    <3>3. Upto(written) \in Nat /\ Upto(k) \in Nat
      BY <1>0, <2>3, <3>1, SMTT(30) DEF Upto, TypeOK, Reading
    <3> QED  BY ONLY <2>3, <3>2, <3>3, SMTT(30)
  <2>7. /\ SubSeq(raw, skipped + 1, Upto(written)) \o SubSeq(raw, Upto(written) + 1, Upto(k))
             = SubSeq(raw, skipped + 1, Upto(k))
    <3>1. /\ skipped + 1 \in 1 .. Len(raw) + 1 /\ Upto(written) \in (skipped + 1) - 1 .. Len(raw)
          /\ Upto(k) \in Upto(written) .. Len(raw)
      BY <1>0, <2>6
    <3> QED  BY <1>0, <3>1, ConcatAdjacentSubSeq
  <2>8. SubSeq(raw, skipped + 1, Upto(written)) \in Seq(Byte)
    <3>1. \A i \in skipped + 1 .. Upto(written) : raw[i] \in Byte
      BY <1>0, <2>6, ElementOfSeq
    <3>2. skipped + 1 \in Int /\ Upto(written) \in Int
      BY <1>0, <2>6, SMTT(30)
    <3> QED  BY <3>1, <3>2, SubSeqProperties
  <2>9. (bom \o SubSeq(raw, skipped + 1, Upto(written))) \o more
          = bom \o (SubSeq(raw, skipped + 1, Upto(written)) \o more)
    <3>1. PICK m \in Seq(Byte) : m = SubSeq(raw, skipped + 1, Upto(written))
      BY ONLY <2>8, Zenon
    <3>2. (bom \o m) \o more = bom \o (m \o more)
      BY ONLY <1>2, <2>2, ConcatAssociative, SMTT(30)
    <3> QED  BY ONLY <3>1, <3>2, Zenon
  <2>10. out' = bom \o SubSeq(raw, skipped + 1, Upto(written'))
    <3>1. out' = (bom \o SubSeq(raw, skipped + 1, Upto(written))) \o more
      BY ONLY <1>1, <2>4, Zenon
    <3>2. Upto(written') = Upto(k)
      BY ONLY <2>3, Zenon
    <3> QED  BY ONLY <3>1, <3>2, <2>5, <2>7, <2>9, Zenon
  <2>11. written' = Len(text) => Upto(written') = Len(raw)
    <3>1. Upto(Len(data)) = Len(raw)
      BY <1>0 DEF Reading
    <3> QED  BY <2>1, <3>1
  <2> QED  BY <2>10, <2>11
<1> QED  BY <1>4, <1>6, <1>7, <1>8 DEF Inv

\* The output is the next file.
LEMMA RunAgainKeeps ==
  ASSUME Inv, RunAgain
  PROVE  Inv'
<1>0. TypeOK
  BY DEF Inv
<1>1. /\ raw' = out /\ data' = <<>> /\ encoding' = "ASCII" /\ hasBom' = FALSE /\ idx' = 0 /\ ends' = <<>>
      /\ skipped' = 0 /\ place' = "bom" /\ earlier' = <<[text |-> text, encoding |-> outEncoding]>>
      /\ UNCHANGED <<options, outEncoding, outBom, text, written, out>>
  BY DEF RunAgain, output
<1>2. /\ "ASCII" \in Encodings /\ <<>> \in Seq(CodePoint) /\ <<>> \in Seq(Nat)
      /\ earlier' \in Seq([text : Seq(CodePoint), encoding : Encodings]) /\ Len(earlier') <= 1
  BY <1>0, <1>1 DEF TypeOK, Encodings
<1>3. TypeOK'
  BY ONLY <1>0, <1>1, <1>2, 0 \in Nat DEF TypeOK
<1>4. 0 <= Len(raw')
  BY <1>0, <1>1 DEF TypeOK
<1>5. Reading'
  BY <1>0, <1>1, <1>4, 0 \in Nat, NoReading
<1>6. Places' /\ SameBytes'
  BY <1>1 DEF Places, SameBytes
<1> QED  BY <1>3, <1>5, <1>6 DEF Inv

-----------------------------------------------------------------------------
(* The theorems                                                            *)

\* The invariant holds at the start, and every step keeps it.
LEMMA Starts == Init => Inv
<1> SUFFICES ASSUME Init PROVE Inv
  OBVIOUS
<1>1. PICK given \in Inputs : \E f \in given.files : options \in given.options /\ raw = f.raw
  BY DEF Init
<1>2. raw \in Seq(Byte) /\ options.header \in Seq(CodePoint)
  BY <1>1, InputsAssumption
<1>3. /\ data = <<>> /\ encoding = "ASCII" /\ hasBom = FALSE /\ idx = 0 /\ place = "bom" /\ ends = <<>> /\ skipped = 0
      /\ outEncoding = "ASCII" /\ outBom = FALSE /\ text = <<>> /\ written = 0 /\ out = <<>> /\ earlier = <<>>
  BY DEF Init
<1>4. TypeOK
  <2>1. /\ <<>> \in Seq(CodePoint) /\ <<>> \in Seq(Nat) /\ <<>> \in Seq(Byte) /\ "ASCII" \in Encodings
        /\ <<>> \in Seq([text : Seq(CodePoint), encoding : Encodings]) /\ Len(<<>>) <= 1
    BY EmptySeq DEF Encodings
  <2> QED  BY ONLY <1>2, <1>3, <2>1, 0 \in Nat DEF TypeOK
<1>5. Reading
  <2>1. Len(data) = 0 /\ Len(ends) = 0 /\ Upto(0) = 0 /\ 0 <= Len(raw)
    BY <1>2, <1>3 DEF Upto
  <2>2. \A i \in 0 .. Len(data) : i = 0
    BY <2>1
  <2> QED  BY <1>3, <2>1, <2>2 DEF Reading
<1>6. Places /\ SameBytes
  BY <1>3 DEF Places, SameBytes
<1> QED  BY <1>4, <1>5, <1>6 DEF Inv

LEMMA Continues == Inv /\ [Next]_vars => Inv'
<1> SUFFICES ASSUME Inv, [Next]_vars PROVE Inv'
  OBVIOUS
<1>1. CASE DetectBom  BY <1>1, DetectBomKeeps
<1>2. CASE Guess      BY <1>2, GuessKeeps
<1>3. CASE ReadUtf8   BY <1>3, ReadUtf8Keeps
<1>4. CASE ReadUtf16  BY <1>4, ReadUtf16Keeps
<1>5. CASE EndOfFile  BY <1>5, EndOfFileKeeps
<1>6. CASE Begin      BY <1>6, BeginKeeps
<1>7. CASE WriteChar  BY <1>7, WriteCharKeeps
<1>8. CASE RunAgain   BY <1>8, RunAgainKeeps
<1>9. CASE UNCHANGED vars
  <2>1. /\ UNCHANGED <<options, raw, data, encoding, hasBom, idx, ends, skipped, place>>
        /\ UNCHANGED <<outEncoding, outBom, text, written, out, earlier>>
    BY <1>9 DEF vars, file, output
  <2>2. TypeOK'
    BY <2>1 DEF Inv, TypeOK
  <2>3. Reader' = Reader /\ \A i : Upto(i)' = Upto(i)
    BY <2>1 DEF Reader, Upto
  <2>4. Reading'
    BY <2>1, <2>3 DEF Inv, Reading
  <2>5. Places'
    BY <2>1 DEF Inv, Places
  <2>6. SameBytes'
    BY <2>1 DEF Inv, SameBytes, Shortest, Upto
  <2> QED  BY <2>2, <2>4, <2>5, <2>6 DEF Inv
<1> QED  BY <1>1, <1>2, <1>3, <1>4, <1>5, <1>6, <1>7, <1>8, <1>9 DEF Next

\* The variables have their types, for every file and all options.
THEOREM TypeCorrect == Spec => []TypeOK
<1>1. Inv => TypeOK
  BY DEF Inv
<1> QED  BY Starts, Continues, <1>1, PTL DEF Spec

\* Whatever decode_unicode() takes the bytes for, they are given back as long as the
\* encoding is kept: all of them, in order, behind the BOM.  Excepted are files read as UTF-8
\* with an overlong sequence or a code point above U+10FFFF (src/unicode.cpp).
THEOREM BytesGivenBack == Spec => []SameBytes
<1>1. Inv => SameBytes
  BY DEF Inv
<1> QED  BY Starts, Continues, <1>1, PTL DEF Spec

\* Of the characters of a file write_char() drops exactly those above U+10FFFF, and where the
\* encoding is kept exactly those and the overlong sequences come back as other bytes than
\* they were read from (src/unicode.cpp).
THEOREM LossesKnown == Spec => OnlyIllegalLost
<1> DEFINE Kept(i) == outEncoding = encoding =>
                        (out' = out \o SubSeq(raw, Upto(i - 1) + 1, Upto(i))
                           <=> (encoding = "UTF8" => ShortestIn(Upto(i) - Upto(i - 1), data[i])))
           Exact == WriteChar /\ written >= Len(text) - Len(data) =>
                      LET i == written + 1 - (Len(text) - Len(data))
                      IN  /\ out' = out <=> data[i] > LastCodePoint
                          /\ Kept(i)
<1>1. ASSUME Inv PROVE Exact
  <2>0. SUFFICES ASSUME WriteChar, written >= Len(text) - Len(data),
                        NEW i, i = written + 1 - (Len(text) - Len(data))
                 PROVE  /\ out' = out <=> data[i] > LastCodePoint
                        /\ Kept(i)
    OBVIOUS
  <2>1. /\ i \in 1 .. Len(data) /\ text[written + 1] = data[i] /\ text[written + 1] \in CodePoint
        /\ Legible(encoding, data[i]) /\ outEncoding \in {encoding, "UTF8"}
        /\ GivenBack(raw, encoding, data[i], Upto(i - 1), Upto(i))
        /\ skipped <= Upto(i - 1) /\ Upto(i - 1) < Upto(i) /\ Upto(i) <= Len(raw)
    BY <1>1, <2>0, Written
  <2>2. PICK ch \in CodePoint : ch = data[i] /\ Legible(encoding, ch)
    BY ONLY <2>1, Zenon
  <2>3. PICK w : w = write_char(outEncoding, ch)
    OBVIOUS
  <2>4. /\ out \in Seq(Byte) /\ outEncoding \in Encodings /\ raw \in Seq(Byte) /\ Len(raw) \in Nat
        /\ Len(out) \in Nat /\ skipped \in Nat /\ Len(data) \in Nat /\ Len(ends) = Len(data) /\ ends \in Seq(Nat)
    BY <1>1 DEF Inv, TypeOK, Reading
  <2>5. out' = out \o w
    <3>1. out' = out \o write_char(outEncoding, text[written + 1])
      BY <2>0 DEF WriteChar
    <3> QED  BY ONLY <2>1, <2>2, <2>3, <3>1, Zenon
  <2>6. Legible(outEncoding, ch)
    BY ONLY <2>1, <2>2 DEF Legible
  <2>7. w \in Seq(Byte) /\ Len(w) \in Nat /\ (ch <= LastCodePoint => Len(w) > 0)
    BY ONLY <2>2, <2>3, <2>4, <2>6, CharBytes, LenProperties
  <2>8. ch \in Nat
    BY ONLY <2>2, CodePointBounds
  <2>9. Len(out \o w) = Len(out) + Len(w)
    BY ONLY <2>4, <2>7, ConcatProperties
  <2>10. out' = out <=> ch > LastCodePoint
    <3>1. ASSUME ch > LastCodePoint PROVE out \o w = out
      <4>1. w = <<>>
        BY ONLY <2>3, <2>4, <2>8, <3>1, TooLarge
      <4> QED  BY ONLY <2>4, <4>1, ConcatEmptySeq
    <3>2. ASSUME ~(ch > LastCodePoint) PROVE out \o w # out
      <4>1. Len(w) > 0
        BY <2>7, <2>8, <3>2 DEF LastCodePoint
      <4>2. Len(out \o w) # Len(out)
        BY ONLY <2>4, <2>7, <2>9, <4>1
      <4> QED  BY ONLY <4>2, Zenon
    <3> QED  BY ONLY <2>5, <3>1, <3>2, Zenon
  <2>11. Kept(i)
    <3>0. SUFFICES ASSUME outEncoding = encoding
                   PROVE  out' = out \o SubSeq(raw, Upto(i - 1) + 1, Upto(i))
                            <=> (encoding = "UTF8" => ShortestIn(Upto(i) - Upto(i - 1), data[i]))
      OBVIOUS
    <3>1. PICK from \in Nat, to \in Nat : from = Upto(i - 1) /\ to = Upto(i) /\ from < to /\ to <= Len(raw)
      <4>1. Upto(i - 1) \in Nat /\ Upto(i) \in Nat
        BY ONLY <2>1, <2>4, SMTT(30) DEF Upto
      <4> QED  BY ONLY <2>1, <4>1, Zenon
    <3>2. PICK own : own = SubSeq(raw, from + 1, to)
      OBVIOUS
    <3>3. own \in Seq(Byte) /\ Len(own) = to - from
      <4>1. \A j \in from + 1 .. to : raw[j] \in Byte
        BY <2>4, <3>1, ElementOfSeq
      <4>2. from + 1 \in Int /\ to \in Int /\ from + 1 <= to + 1 /\ to - (from + 1) + 1 = to - from
        BY <3>1
      <4> QED  BY <3>2, <4>1, <4>2, SubSeqProperties
    <3>4. GivenBack(raw, encoding, ch, from, to) /\ w = write_char(encoding, ch)
      BY ONLY <2>1, <2>2, <2>3, <3>0, <3>1, Zenon
    <3>5. ASSUME encoding = "UTF8" => ShortestIn(to - from, ch) PROVE out \o w = out \o own
      <4>1. w = own
        BY ONLY <3>2, <3>4, <3>5, Zenon DEF GivenBack
      <4> QED  BY ONLY <4>1, Zenon
    <3>6. ASSUME encoding = "UTF8", ~ShortestIn(to - from, ch) PROVE out \o w # out \o own
      <4>1. PICK n \in Nat : n = to - from /\ n > 0
        BY <3>1
      <4>2. ~ShortestIn(n, ch)
        BY ONLY <3>6, <4>1, Zenon
      <4>3. w = encode_utf8(ch)
        BY ONLY <3>4, <3>6 DEF write_char
      <4>4. Len(w) # n
        BY ONLY ch \in CodePoint, <4>1, <4>2, <4>3, NotShortest
      <4>5. Len(own) = n
        BY ONLY <3>3, <4>1, Zenon
      <4>6. Len(out \o own) = Len(out) + Len(own)
        BY ONLY <2>4, <3>3, ConcatProperties
      <4>7. PICK a \in Nat, b \in Nat : a = Len(out) /\ b = Len(w)
        BY ONLY <2>4, <2>7, Zenon
      <4>8. Len(out \o w) = a + b /\ Len(out \o own) = a + n /\ b # n
        BY ONLY <2>9, <4>4, <4>5, <4>6, <4>7, Zenon
      <4>9. Len(out \o w) # Len(out \o own)
        BY ONLY <4>1, <4>7, <4>8
      <4> QED  BY ONLY <4>9, Zenon
    <3>7. out \o w = out \o own <=> (encoding = "UTF8" => ShortestIn(to - from, ch))
      BY ONLY <3>5, <3>6, Zenon
    <3> QED  BY ONLY <2>2, <2>5, <3>1, <3>2, <3>7, Zenon
  <2> HIDE DEF Kept
  <2> QED  BY ONLY <2>2, <2>10, <2>11, Zenon
<1>2. Inv => [Exact]_vars
  BY <1>1
<1> QED  BY Starts, Continues, <1>2, PTL DEF Spec, OnlyIllegalLost

-----------------------------------------------------------------------------
(* What a run writes, and how the next one goes over it                    *)

Utf16s == {"UTF16_LE", "UTF16_BE"}
Bom(e, b) == IF b THEN write_bom(e) ELSE <<>>

\* The bytes are in s, behind byte k.
LiesAt(s, k, bytes) == k + Len(bytes) <= Len(s) /\ \A j \in 1 .. Len(bytes) : s[k + j] = bytes[j]

\* Behind the BOM the first n characters of t lie in s, encoded, each behind the one
\* before: character i begins behind byte at[i - 1].
Laid(s, e, b, t, n, at) ==
  /\ at \in [0 .. n -> Nat] /\ at[0] = Len(Bom(e, b)) /\ LiesAt(s, 0, Bom(e, b))
  /\ \A i \in 1 .. n : /\ at[i] = at[i - 1] + Len(write_char(e, t[i]))
                       /\ LiesAt(s, at[i - 1], write_char(e, t[i]))

OutputOf(s, e, b, t, n) == \E at : Laid(s, e, b, t, n, at) /\ at[n] = Len(s)

\* write_char() writes bytes, also of the characters it drops.
AllWrite(e, t) == \A i \in 1 .. Len(t) : write_char(e, t[i]) \in Seq(Byte)

LEMMA WritesBytes ==
  ASSUME NEW e \in Encodings, NEW t \in Seq(CodePoint)
  PROVE  AllWrite(e, t)
<1> SUFFICES ASSUME NEW i \in 1 .. Len(t) PROVE write_char(e, t[i]) \in Seq(Byte)
  BY DEF AllWrite
<1>1. t[i] \in CodePoint
  BY ElementOfSeq
<1> QED  BY <1>1, CharBytes

LEMMA LaidFacts ==
  ASSUME NEW s \in Seq(Byte), NEW e \in Encodings, NEW b, NEW t \in Seq(CodePoint), NEW n \in Nat, n <= Len(t),
         NEW at, Laid(s, e, b, t, n, at)
  PROVE  /\ \A i \in 0 .. n : at[i] \in Nat /\ at[i] <= Len(s)
         /\ \A i \in 1 .. n : /\ at[i - 1] \in Nat /\ at[i - 1] <= at[i] /\ at[i] <= Len(s)
                              /\ at[i] = at[i - 1] + Len(write_char(e, t[i]))
                              /\ write_char(e, t[i]) \in Seq(Byte) /\ Len(write_char(e, t[i])) \in Nat
                              /\ LiesAt(s, at[i - 1], write_char(e, t[i]))
         /\ at[0] = Len(Bom(e, b)) /\ Bom(e, b) \in Seq(Byte) /\ LiesAt(s, 0, Bom(e, b))
<1>1. Len(s) \in Nat /\ Len(t) \in Nat
  BY LenProperties
<1>2. Bom(e, b) \in Seq(Byte) /\ Len(Bom(e, b)) \in Nat
  <2>1. Bom(e, b) \in Seq(Byte)
    BY BomBytes, EmptySeq DEF Bom
  <2> QED  BY <2>1, LenProperties
<1>3. ASSUME NEW i \in 0 .. n PROVE at[i] \in Nat
  BY <1>3 DEF Laid
<1>4. at[0] = Len(Bom(e, b)) /\ LiesAt(s, 0, Bom(e, b)) /\ at[0] <= Len(s)
  BY <1>2 DEF Laid, LiesAt
<1>5. ASSUME NEW i \in 1 .. n
      PROVE  /\ at[i - 1] \in Nat /\ at[i - 1] <= at[i] /\ at[i] <= Len(s)
             /\ at[i] = at[i - 1] + Len(write_char(e, t[i]))
             /\ write_char(e, t[i]) \in Seq(Byte) /\ Len(write_char(e, t[i])) \in Nat
             /\ LiesAt(s, at[i - 1], write_char(e, t[i]))
  <2>1. i \in 1 .. Len(t) /\ i - 1 \in 0 .. n /\ i \in 0 .. n
    BY <1>1
  <2>2. write_char(e, t[i]) \in Seq(Byte) /\ Len(write_char(e, t[i])) \in Nat
    BY <2>1, WritesBytes, LenProperties DEF AllWrite
  <2>3. at[i - 1] \in Nat /\ at[i] \in Nat
    BY <2>1, <1>3
  <2>4. at[i] = at[i - 1] + Len(write_char(e, t[i])) /\ LiesAt(s, at[i - 1], write_char(e, t[i]))
    BY DEF Laid
  <2>5. at[i - 1] + Len(write_char(e, t[i])) <= Len(s)
    BY <2>4 DEF LiesAt
  <2> QED  BY <1>1, <2>2, <2>3, <2>4, <2>5
<1>6. ASSUME NEW i \in 0 .. n PROVE at[i] <= Len(s)
  <2>1. i = 0 \/ i \in 1 .. n
    OBVIOUS
  <2> QED  BY <2>1, <1>4, <1>5
<1> QED  BY <1>2, <1>3, <1>4, <1>5, <1>6

\* Where a character lies, without the quantifier.
LEMMA LaidAt ==
  ASSUME NEW s \in Seq(Byte), NEW e \in Encodings, NEW b, NEW t \in Seq(CodePoint), NEW n \in Nat, n <= Len(t),
         NEW at, Laid(s, e, b, t, n, at), NEW i \in 1 .. n
  PROVE  /\ at[i - 1] \in Nat /\ at[i - 1] <= at[i] /\ at[i] <= Len(s)
         /\ at[i] = at[i - 1] + Len(write_char(e, t[i]))
         /\ write_char(e, t[i]) \in Seq(Byte) /\ Len(write_char(e, t[i])) \in Nat
         /\ LiesAt(s, at[i - 1], write_char(e, t[i]))
<1>1. \A m \in 1 .. n : /\ at[m - 1] \in Nat /\ at[m - 1] <= at[m] /\ at[m] <= Len(s)
                        /\ at[m] = at[m - 1] + Len(write_char(e, t[m]))
                        /\ write_char(e, t[m]) \in Seq(Byte) /\ Len(write_char(e, t[m])) \in Nat
                        /\ LiesAt(s, at[m - 1], write_char(e, t[m]))
  BY LaidFacts
<1> QED  BY <1>1

\* One more character.
LEMMA OutputGrows ==
  ASSUME NEW s \in Seq(Byte), NEW e \in Encodings, NEW b, NEW t \in Seq(CodePoint), NEW n \in Nat, n + 1 <= Len(t),
         OutputOf(s, e, b, t, n)
  PROVE  OutputOf(s \o write_char(e, t[n + 1]), e, b, t, n + 1)
<1> DEFINE c == write_char(e, t[n + 1])
           new == s \o c
<1>1. PICK at : Laid(s, e, b, t, n, at) /\ at[n] = Len(s)
  BY DEF OutputOf
<1>2. Len(s) \in Nat /\ Len(t) \in Nat /\ n <= Len(t) /\ n + 1 \in 1 .. Len(t)
  BY LenProperties
<1>3. c \in Seq(Byte) /\ Len(c) \in Nat
  BY <1>2, WritesBytes, LenProperties DEF AllWrite
<1>4. /\ new \in Seq(Byte) /\ Len(new) = Len(s) + Len(c)
      /\ \A j \in 1 .. Len(s) : new[j] = s[j]
      /\ \A j \in 1 .. Len(c) : new[Len(s) + j] = c[j]
  <2> HIDE DEF c
  <2>1. /\ s \o c \in Seq(Byte) /\ Len(s \o c) = Len(s) + Len(c)
        /\ \A j \in 1 .. Len(s) + Len(c) : (s \o c)[j] = IF j <= Len(s) THEN s[j] ELSE c[j - Len(s)]
    BY <1>3, ConcatProperties
  <2>2. ASSUME NEW j \in 1 .. Len(c) PROVE (s \o c)[Len(s) + j] = c[j]
    <3>1. Len(s) + j \in 1 .. Len(s) + Len(c) /\ ~(Len(s) + j <= Len(s)) /\ Len(s) + j - Len(s) = j
      BY <1>2, <1>3
    <3> QED  BY <2>1, <3>1
  <2>3. ASSUME NEW j \in 1 .. Len(s) PROVE (s \o c)[j] = s[j]
    <3>1. j \in 1 .. Len(s) + Len(c) /\ j <= Len(s)
      BY <1>2, <1>3
    <3> QED  BY <2>1, <3>1
  <2> QED  BY <2>1, <2>2, <2>3
<1> DEFINE more == [i \in 0 .. n + 1 |-> IF i <= n THEN at[i] ELSE Len(s) + Len(c)]
<1>5. ASSUME NEW k \in Nat, NEW x \in Seq(Byte), LiesAt(s, k, x)
      PROVE  LiesAt(new, k, x)
  <2>1. Len(x) \in Nat /\ k + Len(x) <= Len(s) /\ \A j \in 1 .. Len(x) : s[k + j] = x[j]
    BY <1>5, LenProperties DEF LiesAt
  <2>2. ASSUME NEW j \in 1 .. Len(x) PROVE new[k + j] = x[j]
    <3>1. k + j \in 1 .. Len(s)
      BY <1>2, <2>1
    <3> QED  BY <1>4, <2>1, <3>1
  <2>3. k + Len(x) <= Len(new)
    BY <1>2, <1>3, <1>4, <2>1
  <2> QED  BY <2>2, <2>3 DEF LiesAt
<1>6. LiesAt(new, Len(s), c)
  BY <1>2, <1>3, <1>4 DEF LiesAt
<1>7. /\ \A i \in 0 .. n : at[i] \in Nat
      /\ \A i \in 1 .. n : /\ at[i - 1] \in Nat /\ at[i] = at[i - 1] + Len(write_char(e, t[i]))
                           /\ write_char(e, t[i]) \in Seq(Byte)
                           /\ LiesAt(s, at[i - 1], write_char(e, t[i]))
      /\ at[0] = Len(Bom(e, b)) /\ Bom(e, b) \in Seq(Byte) /\ LiesAt(s, 0, Bom(e, b))
  BY <1>1, <1>2, LaidFacts
<1> HIDE DEF new
<1>8. /\ more \in [0 .. n + 1 -> Nat] /\ more[n + 1] = Len(s) + Len(c)
      /\ \A i \in 0 .. n : more[i] = at[i]
  <2> HIDE DEF c
  <2> QED  BY <1>2, <1>3, <1>7
<1> HIDE DEF more
<1>9. more[0] = Len(Bom(e, b)) /\ LiesAt(new, 0, Bom(e, b))
  BY <1>5, <1>7, <1>8
<1>10. ASSUME NEW i \in 1 .. n + 1
       PROVE  more[i] = more[i - 1] + Len(write_char(e, t[i])) /\ LiesAt(new, more[i - 1], write_char(e, t[i]))
  <2>1. CASE i = n + 1
    <3>1. n \in 0 .. n /\ more[n] = Len(s) /\ i - 1 = n
      BY <1>1, <1>8, <2>1
    <3> QED  BY <1>6, <1>8, <2>1, <3>1
  <2>2. CASE i # n + 1
    <3>1. i \in 1 .. n /\ i - 1 \in 0 .. n /\ i \in 0 .. n
      BY <2>2
    <3> QED  BY <1>5, <1>7, <1>8, <3>1
  <2> QED  BY <2>1, <2>2
<1>11. Laid(new, e, b, t, n + 1, more)
  BY <1>8, <1>9, <1>10 DEF Laid
<1> QED  BY <1>4, <1>8, <1>11 DEF OutputOf, new

\* Every byte behind the BOM belongs to a character.
LEMMA Located ==
  ASSUME NEW n \in Nat, NEW at \in [0 .. n -> Nat], NEW j \in Nat, at[0] < j, j <= at[n]
  PROVE  \E i \in 1 .. n : at[i - 1] < j /\ j <= at[i]
<1> DEFINE S == {i \in 0 .. n : j <= at[i]}
<1>1. S \in SUBSET Nat /\ n \in S
  OBVIOUS
<1>2. PICK i \in S : \A m \in S : i <= m
  <2> HIDE DEF S
  <2> QED  BY <1>1, LeastNumber
<1>3. i \in 0 .. n /\ j <= at[i] /\ i # 0
  OBVIOUS
<1>4. i \in 1 .. n /\ i - 1 \in 0 .. n /\ i - 1 \notin S
  <2>1. i \in 1 .. n /\ i - 1 \in 0 .. n /\ ~(i <= i - 1)
    BY <1>3
  <2> QED  BY <1>2, <2>1
<1>5. at[i - 1] \in Nat /\ ~(j <= at[i - 1])
  BY <1>4
<1> QED  BY <1>3, <1>4, <1>5

\* The text and its encoding say what the output is.
LEMMA OneOutput ==
  ASSUME NEW r \in Seq(Byte), NEW s \in Seq(Byte), NEW e \in Encodings, NEW b, NEW t \in Seq(CodePoint),
         OutputOf(r, e, b, t, Len(t)), OutputOf(s, e, b, t, Len(t))
  PROVE  r = s
<1> DEFINE n == Len(t)
<1>1. n \in Nat /\ n <= Len(t) /\ Len(r) \in Nat /\ Len(s) \in Nat
  BY LenProperties
<1> HIDE DEF n
<1>2. PICK at : Laid(r, e, b, t, n, at) /\ at[n] = Len(r)
  BY DEF OutputOf, n
<1>3. PICK bt : Laid(s, e, b, t, n, bt) /\ bt[n] = Len(s)
  BY DEF OutputOf, n
<1>4. /\ \A i \in 0 .. n : at[i] \in Nat
      /\ \A i \in 1 .. n : /\ at[i] = at[i - 1] + Len(write_char(e, t[i])) /\ LiesAt(r, at[i - 1], write_char(e, t[i]))
                           /\ Len(write_char(e, t[i])) \in Nat
      /\ at[0] = Len(Bom(e, b)) /\ LiesAt(r, 0, Bom(e, b))
  BY <1>1, <1>2, LaidFacts
<1>5. /\ \A i \in 1 .. n : bt[i] = bt[i - 1] + Len(write_char(e, t[i])) /\ LiesAt(s, bt[i - 1], write_char(e, t[i]))
      /\ bt[0] = Len(Bom(e, b)) /\ LiesAt(s, 0, Bom(e, b))
  BY <1>3 DEF Laid
<1>6. \A i \in 0 .. n : at[i] = bt[i]
  <2> DEFINE Same == {i \in Nat : i <= n => at[i] = bt[i]}
  <2>1. 0 \in Same
    BY <1>4, <1>5
  <2>2. ASSUME NEW i \in Nat, i \in Same PROVE i + 1 \in Same
    <3> SUFFICES ASSUME i + 1 <= n PROVE at[i + 1] = bt[i + 1]
      OBVIOUS
    <3>1. i + 1 \in 1 .. n /\ i + 1 - 1 = i /\ i <= n
      BY <1>1
    <3>2. at[i] = bt[i]
      BY <2>2, <3>1
    <3> QED  BY <1>4, <1>5, <3>1, <3>2
  <2>3. Nat \subseteq Same
    <3> HIDE DEF Same
    <3> QED  BY <2>1, <2>2, InductiveSet
  <2> QED  BY <1>1, <2>3
<1>7. Len(r) = Len(s)
  BY <1>1, <1>2, <1>3, <1>6
<1>8. ASSUME NEW j \in 1 .. Len(r) PROVE r[j] = s[j]
  <2>1. CASE j <= at[0]
    <3>1. j \in 1 .. Len(Bom(e, b)) /\ 0 + j = j
      BY <1>1, <1>4, <2>1
    <3> QED  BY <1>4, <1>5, <3>1 DEF LiesAt
  <2>2. CASE ~(j <= at[0])
    <3>1. at \in [0 .. n -> Nat] /\ at[0] < j /\ j <= at[n] /\ j \in Nat
      BY <1>1, <1>2, <1>4, <2>2 DEF Laid
    <3>2. PICK i \in 1 .. n : at[i - 1] < j /\ j <= at[i]
      BY <1>1, <3>1, Located
    <3> DEFINE c == write_char(e, t[i])
               k == j - at[i - 1]
    <3>3. i - 1 \in 0 .. n /\ i \in 0 .. n
      BY <1>1
    <3>4. at[i - 1] \in Nat /\ at[i] = at[i - 1] + Len(c) /\ Len(c) \in Nat /\ at[i - 1] = bt[i - 1]
      BY <1>4, <1>6, <3>3
    <3>5. k \in 1 .. Len(c) /\ at[i - 1] + k = j
      <4> HIDE DEF c
      <4> QED  BY <3>1, <3>2, <3>4
    <3>6. LiesAt(r, at[i - 1], c) /\ LiesAt(s, at[i - 1], c)
      BY <1>4, <1>5, <3>4
    <3> HIDE DEF c, k
    <3> QED  BY <3>5, <3>6 DEF LiesAt
  <2> QED  BY <2>1, <2>2
<1> QED  BY <1>7, <1>8, SeqEqual

\* What is written depends on the bytes of each character only.
LEMMA WrittenAlike ==
  ASSUME NEW s, NEW e, NEW f, NEW b, NEW t, NEW n \in Nat, OutputOf(s, e, b, t, n), Bom(e, b) = Bom(f, b),
         \A i \in 1 .. n : write_char(e, t[i]) = write_char(f, t[i])
  PROVE  OutputOf(s, f, b, t, n)
<1>1. PICK at : Laid(s, e, b, t, n, at) /\ at[n] = Len(s)
  BY DEF OutputOf
<1>2. Laid(s, f, b, t, n, at)
  BY <1>1 DEF Laid
<1> QED  BY <1>1, <1>2 DEF OutputOf

\* A file of one byte per character.
LEMMA OneByteEach ==
  ASSUME NEW s \in Seq(Byte), NEW e \in Encodings, NEW t \in Seq(CodePoint), OutputOf(s, e, FALSE, t, Len(t)),
         \A i \in 1 .. Len(t) : t[i] < 256 /\ write_char(e, t[i]) = <<t[i]>>
  PROVE  s = t
<1>1. Len(t) \in Nat
  BY LenProperties
<1>2. t \in Seq(Byte)
  <2>1. \A i \in 1 .. Len(t) : t[i] \in Byte
    BY ElementOfSeq, ByteBounds, CodePointBounds
  <2>2. t \in [1 .. Len(t) -> CodePoint]
    BY LenProperties
  <2>3. t \in [1 .. Len(t) -> Byte]
    BY <2>1, <2>2
  <2> QED  BY <1>1, <2>3, SeqDef
<1> DEFINE at == [i \in 0 .. Len(t) |-> i]
<1>3. at \in [0 .. Len(t) -> Nat] /\ at[0] = 0 /\ at[Len(t)] = Len(t)
  BY <1>1
<1>4. Bom(e, FALSE) = <<>> /\ Len(<<>>) = 0
  BY EmptySeq DEF Bom
<1>5. ASSUME NEW i \in 1 .. Len(t)
      PROVE  at[i] = at[i - 1] + Len(write_char(e, t[i])) /\ LiesAt(t, at[i - 1], write_char(e, t[i]))
  <2>1. write_char(e, t[i]) = <<t[i]>> /\ Len(<<t[i]>>) = 1 /\ <<t[i]>>[1] = t[i]
    OBVIOUS
  <2>2. at[i] = i /\ at[i - 1] = i - 1
    BY <1>1
  <2> HIDE DEF at
  <2> QED  BY <1>1, <2>1, <2>2 DEF LiesAt
<1>6. LiesAt(t, 0, <<>>)
  BY <1>1, <1>4 DEF LiesAt
<1>7. Laid(t, e, FALSE, t, Len(t), at)
  <2> HIDE DEF at
  <2> QED  BY <1>3, <1>4, <1>5, <1>6 DEF Laid
<1>8. OutputOf(t, e, FALSE, t, Len(t))
  <2> HIDE DEF at
  <2> QED  BY <1>3, <1>7 DEF OutputOf
<1> QED  BY <1>2, <1>8, OneOutput

\* The bytes of a code point are decoded to it.
Form1(ch) == ch < 128 /\ encode_utf8(ch) = <<ch>>
Form2(ch) == \E a \in Lead2, b \in Following : encode_utf8(ch) = <<a, b>> /\ ch = Two(a, b) /\ ch >= 128
Form3(ch) ==
  \E a \in Lead3, b, c \in Following : encode_utf8(ch) = <<a, b, c>> /\ ch = Three(a, b, c) /\ ch >= 128
Form4(ch) ==
  \E a \in Lead4, b, c, d \in Following :
    encode_utf8(ch) = <<a, b, c, d>> /\ ch = Four(a, b, c, d) /\ ch >= 128 /\ a < 245

LEMMA Utf8Form ==
  ASSUME NEW ch \in Nat, ch <= LastCodePoint
  PROVE  Form1(ch) \/ Form2(ch) \/ Form3(ch) \/ Form4(ch)
<1> DEFINE p == ch \div 64
           q == p \div 64
           r == q \div 64
<1>1. p \in Nat /\ q \in Nat /\ r \in Nat
  OBVIOUS
<1>2. ch \div 4096 = q /\ ch \div 262144 = r
  BY Divided
<1>3. ch = 64 * p + (ch % 64) /\ ch % 64 \in 0 .. 63
  OBVIOUS
<1>4. p = 64 * q + (p % 64) /\ p % 64 \in 0 .. 63
  BY <1>1
<1>5. q = 64 * r + (q % 64) /\ q % 64 \in 0 .. 63
  BY <1>1
<1>6. (ch \div 64) % 64 = p % 64 /\ (ch \div 4096) % 64 = q % 64
  BY <1>2
<1>7. ch \div 64 = p
  OBVIOUS
<1> DEFINE l == ch % 64
           m == p % 64
           n == q % 64
<1>8. Last6(ch) = 128 + l /\ Third6(ch) = 128 + m /\ Second6(ch) = 128 + n
  BY <1>6 DEF Last6, Third6, Second6
<1>9. First2(ch) = 192 + p /\ First3(ch) = 224 + q /\ First4(ch) = 240 + r
  BY <1>2, <1>7 DEF First2, First3, First4
<1>10. ch = 64 * p + l /\ p = 64 * q + m /\ q = 64 * r + n /\ l \in 0 .. 63 /\ m \in 0 .. 63 /\ n \in 0 .. 63
  BY <1>3, <1>4, <1>5
<1> HIDE DEF p, q, r, l, m, n
<1>11. /\ 128 + l \in Following /\ 128 + m \in Following /\ 128 + n \in Following
       /\ (128 + l) - 128 = l /\ (128 + m) - 128 = m /\ (128 + n) - 128 = n
  BY <1>10 DEF Following
<1>12. (192 + p) - 192 = p /\ (224 + q) - 224 = q /\ (240 + r) - 240 = r
  BY <1>1
<1>13. CASE ch < 128
  BY <1>13, EncodeOne DEF Form1
<1>14. CASE 128 <= ch /\ ch < 2048
  <2>1. 192 + p \in Lead2
    BY <1>1, <1>10, <1>14 DEF Lead2
  <2>2. ch = Two(192 + p, 128 + l)
    BY <1>1, <1>10, <1>11, <1>12 DEF Two
  <2>3. ch \in In2
    BY <1>14 DEF In2
  <2>4. encode_utf8(ch) = <<192 + p, 128 + l>>
    BY ONLY <1>8, <1>9, <2>3, EncodeTwo
  <2> QED  BY <1>11, <1>14, <2>1, <2>2, <2>4 DEF Form2
<1>15. CASE 2048 <= ch /\ ch < 65536
  <2>1. 224 + q \in Lead3
    BY <1>1, <1>10, <1>15 DEF Lead3
  <2>2. ch = Three(224 + q, 128 + m, 128 + l)
    BY <1>1, <1>10, <1>11, <1>12 DEF Three
  <2>3. ch \in In3
    BY <1>15 DEF In3
  <2>4. encode_utf8(ch) = <<224 + q, 128 + m, 128 + l>>
    BY ONLY <1>8, <1>9, <2>3, EncodeThree
  <2> QED  BY <1>11, <1>15, <2>1, <2>2, <2>4 DEF Form3
<1>16. CASE 65536 <= ch
  <2>1. 240 + r \in Lead4 /\ 240 + r < 245
    BY <1>1, <1>10, <1>16 DEF Lead4, LastCodePoint
  <2>2. ch = Four(240 + r, 128 + n, 128 + m, 128 + l)
    BY <1>1, <1>10, <1>11, <1>12 DEF Four
  <2>3. ch \in In4
    BY <1>16 DEF In4
  <2>4. encode_utf8(ch) = <<240 + r, 128 + n, 128 + m, 128 + l>>
    BY ONLY <1>8, <1>9, <2>3, EncodeFour
  <2> QED  BY <1>11, <1>16, <2>1, <2>2, <2>4 DEF Form4
<1> QED  BY <1>13, <1>14, <1>15, <1>16

\* The bytes of s behind byte k, in the words of ValidUtf8.
ValidAt(s, k, n) == n > 0 /\ k + n <= Len(s) /\ \A i \in k + 2 .. k + n : s[i] >= 128 /\ s[i] < 192

LEMMA DecodesUtf8 ==
  ASSUME raw \in Seq(Byte), idx \in Nat, NEW ch \in Nat, ch <= LastCodePoint, LiesAt(raw, idx, encode_utf8(ch)),
         NEW n, n = Len(encode_utf8(ch))
  PROVE  /\ n \in 1 .. 4 /\ idx + n <= Len(raw) /\ CharCnt(raw[idx + 1]) = n
         /\ ValidUtf8(n) /\ Utf8At(n) = ch
<1>1. Len(raw) \in Nat
  BY LenProperties
<1>2. CASE Form1(ch)
  <2>1. n = 1 /\ raw[idx + 1] = ch /\ idx + 1 <= Len(raw)
    BY <1>2 DEF LiesAt, Form1
  <2>2. CharCnt(raw[idx + 1]) = 1
    BY <1>2, <2>1 DEF CharCnt, Form1
  <2>3. ValidUtf8(1)
    BY <1>1, <2>1 DEF ValidUtf8
  <2>4. Utf8At(1) = ch
    BY <2>1 DEF Utf8At
  <2> QED  BY <2>1, <2>2, <2>3, <2>4
<1>3. CASE Form2(ch)
  <2>1. PICK a \in Lead2, b \in Following : encode_utf8(ch) = <<a, b>> /\ ch = Two(a, b)
    BY <1>3 DEF Form2
  <2>2. n = 2 /\ raw[idx + 1] = a /\ raw[idx + 2] = b /\ idx + 2 <= Len(raw)
    BY <2>1 DEF LiesAt
  <2>3. CharCnt(a) = 2
    BY DEF CharCnt, Lead2
  <2>4. ValidUtf8(2)
    BY <1>1, <2>2 DEF ValidUtf8, Following
  <2>5. Utf8At(2) = ch
    BY <2>1, <2>2 DEF Utf8At, Tail6, Two
  <2> QED  BY <2>2, <2>3, <2>4, <2>5
<1>4. CASE Form3(ch)
  <2>1. PICK a \in Lead3, b \in Following, c \in Following : encode_utf8(ch) = <<a, b, c>> /\ ch = Three(a, b, c)
    BY <1>4 DEF Form3
  <2>2. n = 3 /\ raw[idx + 1] = a /\ raw[idx + 2] = b /\ raw[idx + 3] = c /\ idx + 3 <= Len(raw)
    BY <2>1 DEF LiesAt
  <2>3. CharCnt(a) = 3
    BY DEF CharCnt, Lead3
  <2>4. ValidUtf8(3)
    <3>1. \A i \in idx + 2 .. idx + 3 : i = idx + 2 \/ i = idx + 3
      OBVIOUS
    <3> QED  BY <1>1, <2>2, <3>1 DEF ValidUtf8, Following
  <2>5. Utf8At(3) = ch
    BY <2>1, <2>2 DEF Utf8At, Tail6, Three
  <2> QED  BY <2>2, <2>3, <2>4, <2>5
<1>5. CASE Form4(ch)
  <2>1. PICK a \in Lead4, b \in Following, c \in Following, d \in Following :
               encode_utf8(ch) = <<a, b, c, d>> /\ ch = Four(a, b, c, d)
    BY <1>5 DEF Form4
  <2>2. /\ n = 4 /\ raw[idx + 1] = a /\ raw[idx + 2] = b /\ raw[idx + 3] = c /\ raw[idx + 4] = d
        /\ idx + 4 <= Len(raw)
    BY <2>1 DEF LiesAt
  <2>3. CharCnt(a) = 4
    BY DEF CharCnt, Lead4
  <2>4. ValidUtf8(4)
    <3>1. \A i \in idx + 2 .. idx + 4 : i = idx + 2 \/ i = idx + 3 \/ i = idx + 4
      OBVIOUS
    <3>2. /\ raw[idx + 2] >= 128 /\ raw[idx + 2] < 192 /\ raw[idx + 3] >= 128 /\ raw[idx + 3] < 192
          /\ raw[idx + 4] >= 128 /\ raw[idx + 4] < 192
      BY <2>2 DEF Following
    <3>3. \A i \in idx + 2 .. idx + 4 : raw[i] >= 128 /\ raw[i] < 192
      BY <3>1, <3>2
    <3> QED  BY <2>2, <3>3 DEF ValidUtf8
  <2>5. Utf8At(4) = ch
    BY <2>1, <2>2 DEF Utf8At, Tail6, Four
  <2> QED  BY <2>2, <2>3, <2>4, <2>5
<1> QED  BY <1>2, <1>3, <1>4, <1>5, Utf8Form

\* Its first byte says whether it is ASCII, and is no BOM of UTF-16; no byte of it is 0
\* unless it is the character 0.
LEMMA Utf8FirstByte ==
  ASSUME NEW ch \in Nat, ch <= LastCodePoint
  PROVE  LET bytes == encode_utf8(ch)
         IN  /\ bytes \in Seq(Byte) /\ Len(bytes) >= 1
             /\ bytes[1] < 128 <=> ch < 128
             /\ bytes[1] < 245
             /\ ch < 128 => bytes = <<ch>>
             /\ ch # 0 => \A i \in 1 .. Len(bytes) : bytes[i] # 0
<1> DEFINE bytes == encode_utf8(ch)
<1>1. bytes \in Seq(Byte)
  BY Utf8Bytes
<1>2. CASE Form1(ch)
  BY <1>1, <1>2 DEF Form1
<1>3. CASE Form2(ch)
  <2>1. PICK a \in Lead2, b \in Following : bytes = <<a, b>>
    BY <1>3 DEF Form2
  <2>2. a >= 192 /\ a < 224 /\ b >= 128 /\ a \in Nat /\ b \in Nat
    BY DEF Lead2, Following
  <2>3. Len(bytes) = 2 /\ bytes[1] = a /\ bytes[2] = b
    BY <2>1
  <2> HIDE DEF bytes
  <2> QED  BY <1>1, <1>3, <2>2, <2>3 DEF bytes, Form2
<1>4. CASE Form3(ch)
  <2>1. PICK a \in Lead3, b \in Following, c \in Following : bytes = <<a, b, c>>
    BY <1>4 DEF Form3
  <2>2. a >= 224 /\ a < 240 /\ b >= 128 /\ c >= 128 /\ a \in Nat /\ b \in Nat /\ c \in Nat
    BY DEF Lead3, Following
  <2>3. Len(bytes) = 3 /\ bytes[1] = a /\ bytes[2] = b /\ bytes[3] = c
    BY <2>1
  <2>4. \A i \in 1 .. 3 : i = 1 \/ i = 2 \/ i = 3
    OBVIOUS
  <2> HIDE DEF bytes
  <2> QED  BY <1>1, <1>4, <2>2, <2>3, <2>4 DEF bytes, Form3
<1>5. CASE Form4(ch)
  <2>1. PICK a \in Lead4, b \in Following, c \in Following, d \in Following : bytes = <<a, b, c, d>> /\ a < 245
    BY <1>5 DEF Form4
  <2>2. a >= 240 /\ b >= 128 /\ c >= 128 /\ d >= 128 /\ a \in Nat /\ b \in Nat /\ c \in Nat /\ d \in Nat
    BY DEF Lead4, Following
  <2>3. Len(bytes) = 4 /\ bytes[1] = a /\ bytes[2] = b /\ bytes[3] = c /\ bytes[4] = d
    BY <2>1
  <2>4. \A i \in 1 .. 4 : i = 1 \/ i = 2 \/ i = 3 \/ i = 4
    OBVIOUS
  <2> HIDE DEF bytes
  <2> QED  BY <1>1, <1>5, <2>1, <2>2, <2>3, <2>4 DEF bytes, Form4
<1> QED  BY <1>2, <1>3, <1>4, <1>5, Utf8Form

\* Two bytes are the word they were written for.
LEMMA WordAt ==
  ASSUME raw \in Seq(Byte), NEW k \in Nat, NEW w \in Nat, w < 65536, encoding \in Utf16s,
         LiesAt(raw, k, WordBytes(w, encoding))
  PROVE  Word(k) = w /\ k + 2 <= Len(raw)
<1> DEFINE a == w \div 256
           b == w % 256
<1>1. a \in Nat /\ b \in Nat /\ w = a * 256 + b
  OBVIOUS
<1>2. WordBytes(w, encoding) = IF encoding = "UTF16_BE" THEN <<a, b>> ELSE <<b, a>>
  BY DEF WordBytes
<1> HIDE DEF a, b
<1>3. Len(raw) \in Nat
  BY LenProperties
<1>4. CASE encoding = "UTF16_BE"
  <2>1. raw[k + 1] = a /\ raw[k + 2] = b /\ k + 2 <= Len(raw)
    BY <1>2, <1>4 DEF LiesAt
  <2> QED  BY <1>1, <1>3, <1>4, <2>1 DEF Word
<1>5. CASE encoding # "UTF16_BE"
  <2>1. raw[k + 1] = b /\ raw[k + 2] = a /\ k + 2 <= Len(raw)
    BY <1>2, <1>5 DEF LiesAt
  <2> QED  BY <1>1, <1>3, <1>5, <2>1 DEF Word
<1> QED  BY <1>4, <1>5

LEMMA TwoOfBytes ==
  ASSUME NEW w \in Nat, w < 65536, NEW e
  PROVE  WordBytes(w, e) \in Seq(Byte) /\ Len(WordBytes(w, e)) = 2
<1>1. w \div 256 \in Nat /\ w \div 256 < 256 /\ w % 256 \in Nat /\ w % 256 < 256
  OBVIOUS
<1>2. w \div 256 \in Byte /\ w % 256 \in Byte
  BY <1>1, ByteBounds
<1> QED  BY <1>2, Bytes DEF WordBytes

LEMMA LiesInParts ==
  ASSUME NEW s \in Seq(Byte), NEW k \in Nat, NEW x \in Seq(Byte), NEW y \in Seq(Byte), LiesAt(s, k, x \o y)
  PROVE  LiesAt(s, k, x) /\ LiesAt(s, k + Len(x), y)
<1>1. Len(x) \in Nat /\ Len(y) \in Nat /\ Len(s) \in Nat
  BY LenProperties
<1>2. /\ Len(x \o y) = Len(x) + Len(y)
      /\ \A j \in 1 .. Len(x) + Len(y) : (x \o y)[j] = IF j <= Len(x) THEN x[j] ELSE y[j - Len(x)]
  BY ConcatProperties
<1>3. /\ k + (Len(x) + Len(y)) <= Len(s)
      /\ \A j \in 1 .. Len(x) + Len(y) : s[k + j] = (x \o y)[j]
  BY <1>2 DEF LiesAt
<1>4. ASSUME NEW j \in 1 .. Len(x) PROVE s[k + j] = x[j]
  <2>1. j \in 1 .. Len(x) + Len(y) /\ j <= Len(x)
    BY <1>1
  <2> QED  BY <1>2, <1>3, <2>1
<1>5. ASSUME NEW j \in 1 .. Len(y) PROVE s[k + Len(x) + j] = y[j]
  <2>1. Len(x) + j \in 1 .. Len(x) + Len(y) /\ ~(Len(x) + j <= Len(x)) /\ Len(x) + j - Len(x) = j
        /\ k + (Len(x) + j) = k + Len(x) + j
    BY <1>1
  <2> DEFINE i == Len(x) + j
  <2>2. s[k + i] = (x \o y)[i] /\ (x \o y)[i] = y[i - Len(x)]
    <3> HIDE DEF i
    <3> QED  BY <1>2, <1>3, <2>1 DEF i
  <2> QED  BY <2>1, <2>2
<1>6. k + Len(x) <= Len(s) /\ k + Len(x) + Len(y) <= Len(s)
  BY <1>1, <1>3
<1> QED  BY <1>4, <1>5, <1>6 DEF LiesAt

\* The words of a code point are decoded to it.
LEMMA DecodesUtf16 ==
  ASSUME raw \in Seq(Byte), idx \in Nat, encoding \in Utf16s, NEW ch \in Nat,
         write_utf16(ch, encoding) # <<>>, LiesAt(raw, idx, write_utf16(ch, encoding))
  PROVE  LET w == Word(idx)
             tmp == Word(idx + 2)
             n == Len(write_utf16(ch, encoding))
         IN  \/ /\ High(w) /\ Low(tmp) /\ n = 4 /\ idx + 4 <= Len(raw)
                /\ ch = (w - 55296) * 1024 + (tmp - 56320) + 65536
             \/ ~High(w) /\ ~Low(w) /\ n = 2 /\ idx + 2 <= Len(raw) /\ ch = w
<1>1. CASE ch < 55296 \/ (57344 <= ch /\ ch < 65536)
  <2>1. write_utf16(ch, encoding) = WordBytes(ch, encoding)
    BY ONLY <1>1, SMTT(60) DEF write_utf16
  <2>2. ch < 65536 /\ ~High(ch) /\ ~Low(ch)
    BY <1>1 DEF High, Low
  <2>3. Word(idx) = ch /\ idx + 2 <= Len(raw)
    BY <2>1, <2>2, WordAt
  <2>4. Len(WordBytes(ch, encoding)) = 2
    BY <2>2, TwoOfBytes
  <2> QED  BY <2>1, <2>2, <2>3, <2>4
<1>2. CASE 65536 <= ch /\ ch <= LastCodePoint
  <2> DEFINE x == (ch - 65536) \div 1024
             y == (ch - 65536) % 1024
             v == 55296 + x
             u == 56320 + y
  <2>1. x \in Nat /\ x < 1024 /\ y \in Nat /\ y < 1024 /\ ch = x * 1024 + y + 65536
    BY <1>2 DEF LastCodePoint
  <2>2. write_utf16(ch, encoding) = WordBytes(v, encoding) \o WordBytes(u, encoding)
    <3>1. ~(ch < 55296 \/ (57344 <= ch /\ ch < 65536))
      BY <1>2
    <3> QED  BY ONLY <1>2, <3>1, SMTT(60) DEF write_utf16
  <2> HIDE DEF x, y
  <2>3. v \in Nat /\ u \in Nat /\ v < 65536 /\ u < 65536 /\ High(v) /\ Low(u)
    BY <2>1 DEF High, Low
  <2>4. ch = (v - 55296) * 1024 + (u - 56320) + 65536
    BY <2>1
  <2> HIDE DEF v, u
  <2>5. /\ WordBytes(v, encoding) \in Seq(Byte) /\ Len(WordBytes(v, encoding)) = 2
        /\ WordBytes(u, encoding) \in Seq(Byte) /\ Len(WordBytes(u, encoding)) = 2
    BY <2>3, TwoOfBytes
  <2>6. LiesAt(raw, idx, WordBytes(v, encoding)) /\ LiesAt(raw, idx + 2, WordBytes(u, encoding))
    BY <2>2, <2>5, LiesInParts
  <2>7. Len(write_utf16(ch, encoding)) = 4
    <3> DEFINE p == WordBytes(v, encoding)
               q == WordBytes(u, encoding)
    <3>1. p \in Seq(Byte) /\ q \in Seq(Byte) /\ Len(p) = 2 /\ Len(q) = 2 /\ write_utf16(ch, encoding) = p \o q
      BY <2>2, <2>5
    <3> HIDE DEF p, q
    <3>2. Len(p \o q) = Len(p) + Len(q)
      BY <3>1, ConcatProperties
    <3> QED  BY <3>1, <3>2
  <2>8. Word(idx) = v /\ Word(idx + 2) = u /\ idx + 2 + 2 <= Len(raw)
    BY <2>3, <2>6, WordAt
  <2>9. idx + 4 <= Len(raw)
    BY <2>8, LenProperties
  <2> QED  BY <2>3, <2>4, <2>7, <2>8, <2>9
<1>3. CASE ~(ch < 55296 \/ (57344 <= ch /\ ch < 65536)) /\ ~(65536 <= ch /\ ch <= LastCodePoint)
  <2>1. write_utf16(ch, encoding) = <<>>
    BY ONLY <1>3, SMTT(60) DEF write_utf16
  <2> QED  BY <2>1
<1> QED  BY <1>1, <1>2, <1>3

\* The BOM of an encoding is taken for it.
LEMMA BomIs ==
  /\ write_bom("UTF8") = <<239, 187, 191>>
  /\ write_bom("UTF16_BE") = <<254, 255>> /\ write_bom("UTF16_LE") = <<255, 254>>
<1>1. /\ 65279 \div 4096 = 15 /\ 65279 \div 64 = 1019 /\ 1019 % 64 = 59 /\ 65279 % 64 = 63
      /\ 65279 \div 256 = 254 /\ 65279 % 256 = 255
  OBVIOUS
<1>2. 65279 \in In3
  BY DEF In3
<1>3. encode_utf8(65279) = <<239, 187, 191>>
  <2>1. First3(65279) = 239 /\ Third6(65279) = 187 /\ Last6(65279) = 191
    BY <1>1 DEF First3, Third6, Last6
  <2>2. encode_utf8(65279) = <<First3(65279), Third6(65279), Last6(65279)>>
    BY <1>2, EncodeThree
  <2> QED  BY ONLY <2>1, <2>2
<1>4. ASSUME NEW e \in Utf16s PROVE write_bom(e) = WordBytes(65279, e)
  <2>1. write_utf16(65279, e) = WordBytes(65279, e)
    BY SMTT(60) DEF write_utf16
  <2> QED  BY <2>1 DEF write_bom, write_char, Utf16s
<1>5. WordBytes(65279, "UTF16_BE") = <<254, 255>> /\ WordBytes(65279, "UTF16_LE") = <<255, 254>>
  BY <1>1 DEF WordBytes
<1>6. write_bom("UTF8") = encode_utf8(65279)
  BY DEF write_bom, write_char
<1> QED  BY <1>3, <1>4, <1>5, <1>6 DEF Utf16s

\* The first bytes of a file.
LEMMA FirstTwoBytes ==
  ASSUME NEW s, NEW a, NEW b, LiesAt(s, 0, <<a, b>>)
  PROVE  s[1] = a /\ s[2] = b /\ 2 <= Len(s)
<1>1. Len(<<a, b>>) = 2 /\ <<a, b>>[1] = a /\ <<a, b>>[2] = b /\ 1 \in 1 .. 2 /\ 2 \in 1 .. 2
  OBVIOUS
<1>2. 0 + 2 <= Len(s) /\ s[0 + 1] = a /\ s[0 + 2] = b
  BY <1>1 DEF LiesAt
<1> QED  BY <1>2

LEMMA FirstThreeBytes ==
  ASSUME NEW s, NEW a, NEW b, NEW c, LiesAt(s, 0, <<a, b, c>>)
  PROVE  s[1] = a /\ s[2] = b /\ s[3] = c /\ 3 <= Len(s)
<1> DEFINE t == <<a, b, c>>
<1>1. Len(t) = 3 /\ t[1] = a /\ t[2] = b /\ t[3] = c /\ 1 \in 1 .. 3 /\ 2 \in 1 .. 3 /\ 3 \in 1 .. 3
  OBVIOUS
<1>2. LiesAt(s, 0, t)
  OBVIOUS
<1> HIDE DEF t
<1>3. 0 + 3 <= Len(s) /\ s[0 + 1] = t[1] /\ s[0 + 2] = t[2] /\ s[0 + 3] = t[3]
  BY <1>1, <1>2 DEF LiesAt
<1> QED  BY <1>1, <1>3

LEMMA BomFound ==
  ASSUME raw \in Seq(Byte), NEW e \in Utf16s \cup {"UTF8"}, LiesAt(raw, 0, write_bom(e))
  PROVE  decode_bom = e
<1>0. Len(raw) \in Nat
  BY LenProperties
<1>1. CASE e = "UTF16_BE"
  <2>1. raw[1] = 254 /\ raw[2] = 255 /\ 2 <= Len(raw)
    <3>1. LiesAt(raw, 0, <<254, 255>>)
      BY <1>1, BomIs
    <3> QED  BY ONLY <3>1, FirstTwoBytes
  <2>2. StartsWith(<<254, 255>>) /\ ~StartsWith(<<255, 254>>) /\ ~StartsWith(<<239, 187, 191>>)
    BY <1>0, <2>1 DEF StartsWith
  <2> QED  BY <1>1, <2>2 DEF decode_bom
<1>2. CASE e = "UTF16_LE"
  <2>1. raw[1] = 255 /\ raw[2] = 254 /\ 2 <= Len(raw)
    <3>1. LiesAt(raw, 0, <<255, 254>>)
      BY <1>2, BomIs
    <3> QED  BY ONLY <3>1, FirstTwoBytes
  <2>2. StartsWith(<<255, 254>>) /\ ~StartsWith(<<254, 255>>) /\ ~StartsWith(<<239, 187, 191>>)
    BY <1>0, <2>1 DEF StartsWith
  <2> QED  BY <1>2, <2>2 DEF decode_bom
<1>3. CASE e = "UTF8"
  <2>1. raw[1] = 239 /\ raw[2] = 187 /\ raw[3] = 191 /\ 3 <= Len(raw)
    <3>1. LiesAt(raw, 0, <<239, 187, 191>>)
      BY <1>3, BomIs
    <3> QED  BY ONLY <3>1, FirstThreeBytes
  <2>2. StartsWith(<<239, 187, 191>>) /\ ~StartsWith(<<254, 255>>) /\ ~StartsWith(<<255, 254>>)
    BY <1>0, <2>1 DEF StartsWith
  <2> QED  BY <1>3, <2>2 DEF decode_bom
<1> QED  BY <1>1, <1>2, <1>3 DEF Utf16s

\* No BOM is found where the first byte is none of one, or the file is empty.
LEMMA NoBomFound ==
  ASSUME raw \in Seq(Byte),
         Len(raw) > 0 => raw[1] < 245 /\ (raw[1] = 239 /\ Len(raw) >= 3 => raw[2] # 187 \/ raw[3] # 191)
  PROVE  decode_bom = "ASCII"
<1>0. Len(raw) \in Nat
  BY LenProperties
<1>1. ~StartsWith(<<254, 255>>)
  <2> SUFFICES ASSUME StartsWith(<<254, 255>>) PROVE FALSE
    OBVIOUS
  <2>1. Len(raw) >= 2 /\ raw[1] = 254
    BY DEF StartsWith
  <2> QED  BY <1>0, <2>1
<1>2. ~StartsWith(<<255, 254>>)
  <2> SUFFICES ASSUME StartsWith(<<255, 254>>) PROVE FALSE
    OBVIOUS
  <2>1. Len(raw) >= 2 /\ raw[1] = 255
    BY DEF StartsWith
  <2> QED  BY <1>0, <2>1
<1>3. ~StartsWith(<<239, 187, 191>>)
  <2> SUFFICES ASSUME StartsWith(<<239, 187, 191>>) PROVE FALSE
    OBVIOUS
  <2>1. Len(raw) >= 3 /\ raw[1] = 239 /\ raw[2] = 187 /\ raw[3] = 191
    BY DEF StartsWith
  <2> QED  BY <1>0, <2>1
<1> QED  BY <1>1, <1>2, <1>3 DEF decode_bom

-----------------------------------------------------------------------------
(* What the next run takes an output in UTF-8 for                          *)

\* The characters that have an encoding.
Sound(t) == \A i \in 1 .. Len(t) : t[i] <= LastCodePoint

\* Where character i of t lies.
PieceOf(s, t, at, i) ==
  /\ at[i - 1] \in Nat /\ at[i] = at[i - 1] + Len(encode_utf8(t[i])) /\ at[i] <= Len(s)
  /\ LiesAt(s, at[i - 1], encode_utf8(t[i]))
  /\ t[i] \in Nat /\ t[i] <= LastCodePoint
  /\ encode_utf8(t[i]) \in Seq(Byte) /\ Len(encode_utf8(t[i])) \in Nat /\ Len(encode_utf8(t[i])) >= 1

LEMMA Utf8Pieces ==
  ASSUME NEW s \in Seq(Byte), NEW b, NEW t \in Seq(CodePoint), Sound(t), NEW at, Laid(s, "UTF8", b, t, Len(t), at)
  PROVE  \A i \in 1 .. Len(t) : PieceOf(s, t, at, i)
<1> SUFFICES ASSUME NEW i \in 1 .. Len(t) PROVE PieceOf(s, t, at, i)
  OBVIOUS
<1>1. Len(t) \in Nat /\ "UTF8" \in Encodings
  BY LenProperties DEF Encodings
<1>2. write_char("UTF8", t[i]) = encode_utf8(t[i])
  BY DEF write_char
<1>3. t[i] \in Nat /\ t[i] <= LastCodePoint
  BY ElementOfSeq, CodePointBounds DEF Sound
<1>4. /\ at[i - 1] \in Nat /\ at[i] = at[i - 1] + Len(write_char("UTF8", t[i])) /\ at[i] <= Len(s)
      /\ LiesAt(s, at[i - 1], write_char("UTF8", t[i]))
  <2> DEFINE n == Len(t)
             e == "UTF8"
  <2>1. n \in Nat /\ n <= Len(t) /\ i \in 1 .. n /\ e \in Encodings /\ Laid(s, e, b, t, n, at)
    BY <1>1
  <2> HIDE DEF n, e
  <2>2. /\ at[i - 1] \in Nat /\ at[i] <= Len(s) /\ at[i] = at[i - 1] + Len(write_char(e, t[i]))
        /\ LiesAt(s, at[i - 1], write_char(e, t[i]))
    BY ONLY s \in Seq(Byte), t \in Seq(CodePoint), <2>1, LaidAt
  <2> QED  BY <2>1, <2>2 DEF e
<1>5. encode_utf8(t[i]) \in Seq(Byte) /\ Len(encode_utf8(t[i])) >= 1
  BY <1>3, Utf8FirstByte
<1>6. Len(encode_utf8(t[i])) \in Nat
  BY <1>5, LenProperties
<1> QED  BY <1>2, <1>3, <1>4, <1>5, <1>6 DEF PieceOf

\* The text does not begin with a BOM of its own.
NoOwnBom(t) == t # <<>> => t[1] # 65279

LEMMA NoBomOfUtf8 ==
  ASSUME raw \in Seq(Byte), NEW t \in Seq(CodePoint), Sound(t), OutputOf(raw, "UTF8", FALSE, t, Len(t)),
         NoOwnBom(t)
  PROVE  decode_bom = "ASCII"
<1>1. PICK at : Laid(raw, "UTF8", FALSE, t, Len(t), at) /\ at[Len(t)] = Len(raw)
  <2>1. OutputOf(raw, "UTF8", FALSE, t, Len(t))
    OBVIOUS
  <2> QED  BY ONLY <2>1, Zenon DEF OutputOf
<1>2. at[0] = 0 /\ Len(t) \in Nat /\ Len(raw) \in Nat
  <2>1. Bom("UTF8", FALSE) = <<>> /\ Len(<<>>) = 0
    BY EmptySeq DEF Bom
  <2> QED  BY <1>1, <2>1, LenProperties DEF Laid
<1>3. CASE Len(t) = 0
  <2>1. Len(raw) = 0
    BY <1>1, <1>2, <1>3
  <2> QED  BY <2>1, NoBomFound
<1>4. CASE Len(t) # 0
  <2> DEFINE ch == t[1]
             bytes == encode_utf8(ch)
  <2>1. 1 \in 1 .. Len(t) /\ t # <<>>
    BY <1>2, <1>4, EmptySeq
  <2>2. /\ at[0] \in Nat /\ LiesAt(raw, at[0], bytes) /\ ch \in Nat /\ ch <= LastCodePoint
        /\ Len(bytes) \in Nat /\ Len(bytes) >= 1
    <3> DEFINE i == 1
    <3>1. i \in 1 .. Len(t) /\ i - 1 = 0 /\ t[i] = ch
      BY <2>1
    <3> HIDE DEF i
    <3>2. PieceOf(raw, t, at, i)
      BY <1>1, <3>1, Utf8Pieces
    <3> HIDE DEF ch
    <3> QED  BY <3>1, <3>2 DEF PieceOf
  <2>3. ch # 65279
    BY <2>1 DEF NoOwnBom
  <2> HIDE DEF ch
  <2>4. \A j \in 1 .. Len(bytes) : raw[j] = bytes[j]
    <3>1. \A j \in 1 .. Len(bytes) : raw[0 + j] = bytes[j] /\ 0 + j = j
      BY <1>2, <2>2 DEF LiesAt
    <3> QED  BY <3>1
  <2>5. raw[1] < 245
    <3>1. bytes[1] < 245
      BY <2>2, Utf8FirstByte
    <3> QED  BY <2>2, <2>4, <3>1
  <2>6. ASSUME raw[1] = 239, raw[2] = 187, raw[3] = 191 PROVE FALSE
    <3>1. CASE Form1(ch)
      BY <2>2, <2>4, <2>6, <3>1 DEF Form1
    <3>2. CASE Form2(ch)
      <4>1. PICK a \in Lead2, c \in Following : bytes = <<a, c>>
        BY <3>2 DEF Form2
      <4>2. raw[1] = a
        BY <2>4, <4>1
      <4> QED  BY <2>6, <4>2 DEF Lead2
    <3>3. CASE Form3(ch)
      <4>1. PICK a \in Lead3, c \in Following, d \in Following : bytes = <<a, c, d>> /\ ch = Three(a, c, d)
        BY <3>3 DEF Form3
      <4>2. raw[1] = a /\ raw[2] = c /\ raw[3] = d
        BY <2>4, <4>1
      <4>3. ch = Three(239, 187, 191)
        BY <2>6, <4>1, <4>2
      <4>4. Three(239, 187, 191) = 65279
        BY DEF Three
      <4> QED  BY <2>3, <4>3, <4>4
    <3>4. CASE Form4(ch)
      <4>1. PICK a \in Lead4, c \in Following, d \in Following, f \in Following : bytes = <<a, c, d, f>>
        BY <3>4 DEF Form4
      <4>2. raw[1] = a
        BY <2>4, <4>1
      <4> QED  BY <2>6, <4>2 DEF Lead4
    <3> QED  BY <2>2, <3>1, <3>2, <3>3, <3>4, Utf8Form
  <2> QED  BY <2>5, <2>6, NoBomFound
<1> QED  BY <1>3, <1>4

\* A 0 before the end of the file would be a character before the end of the text.
ZeroAtEnd(s) == \A j \in 1 .. Len(s) - 1 : s[j] # 0

LEMMA ZerosOfUtf8 ==
  ASSUME NEW s \in Seq(Byte), NEW t \in Seq(CodePoint), Sound(t), OutputOf(s, "UTF8", FALSE, t, Len(t)),
         ZeroAtEnd(t)
  PROVE  ZeroAtEnd(s)
<1>1. PICK at : Laid(s, "UTF8", FALSE, t, Len(t), at) /\ at[Len(t)] = Len(s)
  BY Zenon DEF OutputOf
<1>2. at[0] = 0 /\ Len(t) \in Nat /\ Len(s) \in Nat /\ at \in [0 .. Len(t) -> Nat]
  <2>1. Bom("UTF8", FALSE) = <<>> /\ Len(<<>>) = 0
    BY EmptySeq DEF Bom
  <2> QED  BY <1>1, <2>1, LenProperties DEF Laid
<1> SUFFICES ASSUME NEW j \in 1 .. Len(s) - 1, s[j] = 0 PROVE FALSE
  BY DEF ZeroAtEnd
<1>3. PICK i \in 1 .. Len(t) : at[i - 1] < j /\ j <= at[i]
  <2>1. j \in Nat /\ at[0] < j /\ j <= at[Len(t)]
    BY <1>1, <1>2
  <2> QED  BY <1>2, <2>1, Located
<1> DEFINE bytes == encode_utf8(t[i])
           k == j - at[i - 1]
<1>4. /\ at[i - 1] \in Nat /\ at[i] = at[i - 1] + Len(bytes) /\ at[i] <= Len(s) /\ LiesAt(s, at[i - 1], bytes)
      /\ t[i] \in Nat /\ t[i] <= LastCodePoint /\ bytes \in Seq(Byte) /\ Len(bytes) \in Nat
  <2>1. PieceOf(s, t, at, i)
    BY <1>1, Utf8Pieces
  <2> QED  BY <2>1 DEF PieceOf
<1>5. (t[i] # 0 => \A m \in 1 .. Len(bytes) : bytes[m] # 0) /\ (t[i] < 128 => bytes = <<t[i]>>)
  BY <1>4, Utf8FirstByte
<1>6. k \in 1 .. Len(bytes) /\ at[i - 1] + k = j
  <2> DEFINE a == at[i - 1]
             n == Len(bytes)
  <2>1. a \in Nat /\ n \in Nat /\ j \in Nat /\ a < j /\ j <= a + n
    BY <1>3, <1>4
  <2> HIDE DEF a, n
  <2>2. j - a \in 1 .. n /\ a + (j - a) = j
    BY ONLY <2>1
  <2> QED  BY <2>2 DEF a, n
<1>7. bytes[k] = 0
  <2> HIDE DEF bytes, k
  <2> QED  BY <1>4, <1>6 DEF LiesAt
<1>8. t[i] = 0
  BY <1>5, <1>6, <1>7
<1>9. i = Len(t)
  BY <1>2, <1>8 DEF ZeroAtEnd
<1>10. Len(bytes) = 1
  BY <1>5, <1>8
<1> HIDE DEF bytes, k
<1> QED  BY <1>1, <1>2, <1>4, <1>6, <1>9, <1>10

\* Without zeros nothing looks like UTF-16.
LEMMA NoGuess ==
  ASSUME raw \in Seq(Byte), ZeroAtEnd(raw)
  PROVE  GuessUtf16 = "ASCII"
<1>0. Len(raw) \in Nat
  BY LenProperties
<1>1. ~LooksLike({1, 3, 5})
  <2> SUFFICES ASSUME LooksLike({1, 3, 5}) PROVE FALSE
    OBVIOUS
  <2>1. raw[1] = 0 /\ Len(raw) >= 6
    BY DEF LooksLike
  <2> QED  BY <1>0, <2>1 DEF ZeroAtEnd
<1>2. ~LooksLike({2, 4, 6})
  <2> SUFFICES ASSUME LooksLike({2, 4, 6}) PROVE FALSE
    OBVIOUS
  <2>1. raw[2] = 0 /\ Len(raw) >= 6
    BY DEF LooksLike
  <2> QED  BY <1>0, <2>1 DEF ZeroAtEnd
<1> QED  BY <1>1, <1>2 DEF GuessUtf16

\* An output that looks like ASCII is.
LEMMA AsciiOfUtf8 ==
  ASSUME raw \in Seq(Byte), NEW t \in Seq(CodePoint), Sound(t), OutputOf(raw, "UTF8", FALSE, t, Len(t)), is_ascii
  PROVE  raw = t /\ \A i \in 1 .. Len(t) : t[i] < 128
<1>1. PICK at : Laid(raw, "UTF8", FALSE, t, Len(t), at) /\ at[Len(t)] = Len(raw)
  BY Zenon DEF OutputOf
<1>2. ASSUME NEW i \in 1 .. Len(t)
      PROVE  t[i] < 128 /\ t[i] < 256 /\ write_char("UTF8", t[i]) = <<t[i]>>
  <2> DEFINE bytes == encode_utf8(t[i])
  <2>1. /\ at[i - 1] \in Nat /\ at[i] = at[i - 1] + Len(bytes) /\ at[i] <= Len(raw) /\ LiesAt(raw, at[i - 1], bytes)
        /\ t[i] \in Nat /\ t[i] <= LastCodePoint /\ Len(bytes) \in Nat /\ Len(bytes) >= 1
    <3>1. PieceOf(raw, t, at, i)
      BY <1>1, Utf8Pieces
    <3> QED  BY <3>1 DEF PieceOf
  <2>2. (bytes[1] < 128 <=> t[i] < 128) /\ (t[i] < 128 => bytes = <<t[i]>>)
    BY <2>1, Utf8FirstByte
  <2>3. raw[at[i - 1] + 1] = bytes[1] /\ at[i - 1] + 1 \in 1 .. Len(raw)
    <3> HIDE DEF bytes
    <3>1. Len(raw) \in Nat
      BY LenProperties
    <3> QED  BY <2>1, <3>1 DEF LiesAt
  <2>4. DOMAIN raw = 1 .. Len(raw)
    BY LenProperties
  <2>5. bytes[1] < 128
    BY <2>3, <2>4 DEF is_ascii
  <2>6. write_char("UTF8", t[i]) = bytes
    BY DEF write_char
  <2> QED  BY <2>1, <2>2, <2>5, <2>6
<1>3. "UTF8" \in Encodings
  BY DEF Encodings
<1> QED  BY <1>2, <1>3, OneByteEach

-----------------------------------------------------------------------------
(* A file that is not UTF-8                                                *)

\* decode_utf8() has a character to read behind byte x.
Passes(s, x) == x < Len(s) /\ ValidAt(s, x, CharCnt(s[x + 1]))

\* The places it comes to from the start on: those in every set it does not leave.
Closed(s, S) == 0 \in S /\ \A x \in S : Passes(s, x) => x + CharCnt(s[x + 1]) \in S
Reached(s, k) == \A S \in SUBSET Nat : Closed(s, S) => k \in S

\* It comes to a place before the end where it cannot go on.
Stuck(s) == \E k : Reached(s, k) /\ k < Len(s) /\ ~Passes(s, k)

\* It may have come to k, from one place of S to the next.
Path(s, k) ==
  \E S \in SUBSET Nat :
    0 \in S /\ k \in S /\ \A x \in S : x # k => x < k /\ Passes(s, x) /\ x + CharCnt(s[x + 1]) \in S

LEMMA CharCntIs ==
  ASSUME NEW b \in Byte
  PROVE  CharCnt(b) \in 0 .. 4 /\ (b < 128 => CharCnt(b) = 1)
  BY ByteBounds DEF CharCnt

LEMMA PassesFar ==
  ASSUME NEW s \in Seq(Byte), NEW x \in Nat, Passes(s, x)
  PROVE  LET n == CharCnt(s[x + 1]) IN n \in Nat /\ n > 0 /\ x + n <= Len(s)
<1>1. Len(s) \in Nat /\ x + 1 \in 1 .. Len(s)
  BY LenProperties DEF Passes
<1>2. s[x + 1] \in Byte
  BY <1>1, ElementOfSeq
<1>3. CharCnt(s[x + 1]) \in Nat
  BY <1>2, CharCntIs
<1> QED  BY <1>3 DEF Passes, ValidAt

LEMMA ReachedFirst == \A s : Reached(s, 0)
  BY DEF Reached, Closed

LEMMA ReachedNext ==
  ASSUME NEW s, NEW k, Reached(s, k), Passes(s, k)
  PROVE  Reached(s, k + CharCnt(s[k + 1]))
  BY DEF Reached, Closed

LEMMA PathFirst == \A s : Path(s, 0)
<1> SUFFICES ASSUME NEW s PROVE Path(s, 0)
  OBVIOUS
<1>1. {0} \in SUBSET Nat /\ 0 \in {0} /\ \A x \in {0} : ~(x # 0)
  OBVIOUS
<1> QED  BY <1>1 DEF Path

LEMMA PathNext ==
  ASSUME NEW s \in Seq(Byte), NEW k \in Nat, Path(s, k), Passes(s, k)
  PROVE  Path(s, k + CharCnt(s[k + 1]))
<1> DEFINE n == CharCnt(s[k + 1])
<1>1. PICK S \in SUBSET Nat :
        0 \in S /\ k \in S /\ \A x \in S : x # k => x < k /\ Passes(s, x) /\ x + CharCnt(s[x + 1]) \in S
  BY DEF Path
<1>2. n \in Nat /\ n > 0
  BY PassesFar
<1> HIDE DEF n
<1> DEFINE T == S \cup {k + n}
<1>3. T \in SUBSET Nat /\ 0 \in T /\ k + n \in T
  BY <1>1, <1>2
<1>4. ASSUME NEW x \in T, x # k + n
      PROVE  x < k + n /\ Passes(s, x) /\ x + CharCnt(s[x + 1]) \in T
  <2>1. x \in S /\ x \in Nat
    BY <1>4
  <2>2. CASE x = k
    BY <1>2, <2>2 DEF n
  <2>3. CASE x # k
    <3>1. x < k /\ Passes(s, x) /\ x + CharCnt(s[x + 1]) \in S
      BY <1>1, <2>1, <2>3
    <3> QED  BY <1>2, <2>1, <3>1
  <2> QED  BY <2>2, <2>3
<1> HIDE DEF T
<1>5. Path(s, k + n)
  BY <1>3, <1>4 DEF Path
<1> QED  BY <1>5 DEF n

\* Who comes to the end is never stuck.
LEMMA PathEnds ==
  ASSUME NEW s \in Seq(Byte), Path(s, Len(s)), Stuck(s)
  PROVE  FALSE
<1> DEFINE n == Len(s)
<1>1. PICK S \in SUBSET Nat :
        0 \in S /\ n \in S /\ \A x \in S : x # n => x < n /\ Passes(s, x) /\ x + CharCnt(s[x + 1]) \in S
  BY DEF Path
<1>2. PICK k : Reached(s, k) /\ k < n /\ ~Passes(s, k)
  BY DEF Stuck
<1>3. n \in Nat
  BY LenProperties
<1>4. ~Passes(s, n)
  BY <1>3 DEF Passes
<1>5. Closed(s, S)
  BY <1>1, <1>4 DEF Closed
<1>6. k \in S
  BY <1>2, <1>5 DEF Reached
<1>7. k # n
  BY <1>2, <1>3
<1> QED  BY <1>1, <1>2, <1>6, <1>7

LEMMA StuckIsNoAscii ==
  ASSUME raw \in Seq(Byte), Stuck(raw)
  PROVE  ~is_ascii
<1> SUFFICES ASSUME is_ascii PROVE FALSE
  OBVIOUS
<1>1. PICK k : Reached(raw, k) /\ k < Len(raw) /\ ~Passes(raw, k)
  BY DEF Stuck
<1>2. k \in Nat
  <2>1. Nat \in SUBSET Nat /\ Closed(raw, Nat)
    <3>1. ASSUME NEW x \in Nat, Passes(raw, x) PROVE x + CharCnt(raw[x + 1]) \in Nat
      <4>1. CharCnt(raw[x + 1]) \in Nat
        BY <3>1, PassesFar
      <4> QED  BY <4>1
    <3> QED  BY <3>1 DEF Closed
  <2> QED  BY <1>1, <2>1 DEF Reached
<1>3. Len(raw) \in Nat /\ k + 1 \in 1 .. Len(raw) /\ DOMAIN raw = 1 .. Len(raw)
  BY <1>1, <1>2, LenProperties
<1>4. raw[k + 1] \in Byte /\ raw[k + 1] < 128
  BY <1>3, ElementOfSeq DEF is_ascii
<1>5. CharCnt(raw[k + 1]) = 1
  BY <1>4, CharCntIs
<1>6. ValidAt(raw, k, 1)
  BY <1>2, <1>3 DEF ValidAt
<1> QED  BY <1>1, <1>5, <1>6 DEF Passes

\* The same bytes further behind.
Behind(t, m, s) == Len(t) = m + Len(s) /\ \A j \in 1 .. Len(s) : t[m + j] = s[j]

LEMMA PassesShifted ==
  ASSUME NEW s \in Seq(Byte), NEW t \in Seq(Byte), NEW m \in Nat, Behind(t, m, s),
         NEW x \in Nat, x < Len(s)
  PROVE  /\ t[m + x + 1] = s[x + 1]
         /\ Passes(t, m + x) <=> Passes(s, x)
<1>1. /\ Len(s) \in Nat /\ x + 1 \in 1 .. Len(s)
      /\ Len(t) = m + Len(s) /\ \A j \in 1 .. Len(s) : t[m + j] = s[j]
  BY LenProperties DEF Behind
<1>2. t[m + x + 1] = s[x + 1]
  <2>1. t[m + (x + 1)] = s[x + 1] /\ m + (x + 1) = m + x + 1
    BY <1>1
  <2> QED  BY <2>1
<1> DEFINE n == CharCnt(s[x + 1])
<1>3. n \in Nat
  <2>1. s[x + 1] \in Byte
    BY <1>1, ElementOfSeq
  <2> QED  BY <2>1, CharCntIs
<1> HIDE DEF n
<1>4. m + x < Len(t) /\ (m + x + n <= Len(t) <=> x + n <= Len(s))
  BY <1>1, <1>3
<1>5. ASSUME x + n <= Len(s)
      PROVE  (\A i \in m + x + 2 .. m + x + n : t[i] >= 128 /\ t[i] < 192)
               <=> (\A i \in x + 2 .. x + n : s[i] >= 128 /\ s[i] < 192)
  <2>1. \A i \in x + 2 .. x + n : m + i \in m + x + 2 .. m + x + n /\ t[m + i] = s[i]
    BY <1>1, <1>3, <1>5
  <2>2. ASSUME \A i \in m + x + 2 .. m + x + n : t[i] >= 128 /\ t[i] < 192, NEW i \in x + 2 .. x + n
        PROVE  s[i] >= 128 /\ s[i] < 192
    BY <2>1, <2>2
  <2>3. ASSUME \A i \in x + 2 .. x + n : s[i] >= 128 /\ s[i] < 192, NEW i \in m + x + 2 .. m + x + n
        PROVE  t[i] >= 128 /\ t[i] < 192
    <3>1. i - m \in x + 2 .. x + n /\ m + (i - m) = i
      BY <1>3
    <3> DEFINE j == i - m
    <3>2. j \in x + 2 .. x + n /\ m + j = i
      BY <3>1
    <3> HIDE DEF j
    <3>3. t[m + j] = s[j]
      BY <2>1, <3>2
    <3> QED  BY <2>3, <3>2, <3>3
  <2> QED  BY <2>2, <2>3
<1>6. ValidAt(t, m + x, n) <=> ValidAt(s, x, n)
  BY <1>4, <1>5 DEF ValidAt
<1> QED  BY <1>2, <1>4, <1>6 DEF Passes, n

\* Behind a header of ASCII the decoder is stuck at the same byte.
LEMMA StuckBehind ==
  ASSUME NEW h \in Seq(Byte), \A i \in 1 .. Len(h) : h[i] < 128, NEW s \in Seq(Byte), Stuck(s)
  PROVE  Stuck(h \o s)
<1>1. PICK k : Reached(s, k) /\ k < Len(s) /\ ~Passes(s, k)
  BY DEF Stuck
<1>2. PICK m \in Nat : m = Len(h)
  BY LenProperties
<1>3. PICK t \in Seq(Byte) : t = h \o s /\ Len(t) = m + Len(s) /\
        \A j \in 1 .. m + Len(s) : t[j] = IF j <= m THEN h[j] ELSE s[j - m]
  <2> DEFINE t == h \o s
  <2>1. /\ t \in Seq(Byte) /\ Len(t) = Len(h) + Len(s)
        /\ \A j \in 1 .. Len(h) + Len(s) : t[j] = IF j <= Len(h) THEN h[j] ELSE s[j - Len(h)]
    BY ConcatProperties
  <2>2. t = h \o s
    OBVIOUS
  <2> HIDE DEF t
  <2> QED  BY ONLY <1>2, <2>1, <2>2
<1>4. Len(s) \in Nat /\ Len(t) \in Nat
  BY LenProperties
<1>5. Behind(t, m, s)
  <2> SUFFICES ASSUME NEW j \in 1 .. Len(s) PROVE t[m + j] = s[j]
    BY <1>3 DEF Behind
  <2>1. m + j \in 1 .. m + Len(s) /\ ~(m + j <= m) /\ m + j - m = j
    BY <1>4
  <2> QED  BY <1>3, <2>1
<1>6. \A j \in 1 .. m : t[j] \in Byte /\ t[j] < 128
  <2> SUFFICES ASSUME NEW j \in 1 .. m PROVE t[j] \in Byte /\ t[j] < 128
    OBVIOUS
  <2>1. j \in 1 .. m + Len(s) /\ j <= m /\ j \in 1 .. Len(h)
    BY <1>2, <1>4
  <2>2. t[j] = h[j] /\ h[j] \in Byte
    BY <1>3, <2>1, ElementOfSeq
  <2> QED  BY <2>1, <2>2
<1>7. ASSUME NEW S \in SUBSET Nat, Closed(t, S) PROVE m + k \in S
  <2> DEFINE Before == {i \in Nat : i <= m => i \in S}
  <2>1. 0 \in Before
    BY <1>7 DEF Closed
  <2>2. ASSUME NEW i \in Nat, i \in Before PROVE i + 1 \in Before
    <3> SUFFICES ASSUME i + 1 <= m PROVE i + 1 \in S
      OBVIOUS
    <3>1. i \in S /\ i + 1 \in 1 .. m
      BY <1>2, <2>2
    <3>2. CharCnt(t[i + 1]) = 1
      BY <1>6, <3>1, CharCntIs
    <3>3. ValidAt(t, i, 1) /\ i < Len(t)
      BY <1>3, <1>4, <3>1 DEF ValidAt
    <3>4. Passes(t, i)
      BY <3>2, <3>3 DEF Passes
    <3> QED  BY <1>7, <3>1, <3>2, <3>4 DEF Closed
  <2>3. Nat \subseteq Before
    <3> HIDE DEF Before
    <3> QED  BY <2>1, <2>2, InductiveSet
  <2>4. m \in S
    BY <2>3
  <2> DEFINE T == {x \in Nat : m + x \in S}
  <2>5. T \in SUBSET Nat /\ 0 \in T
    BY <2>4
  <2>6. ASSUME NEW x \in T, Passes(s, x) PROVE x + CharCnt(s[x + 1]) \in T
    <3> DEFINE n == CharCnt(s[x + 1])
    <3>1. x \in Nat /\ m + x \in S /\ x < Len(s)
      BY <2>6 DEF Passes
    <3>2. n \in Nat
      BY <2>6, <3>1, PassesFar
    <3>3. t[m + x + 1] = s[x + 1] /\ Passes(t, m + x)
      <4>1. Passes(s, x)
        BY <2>6
      <4> QED  BY ONLY s \in Seq(Byte), t \in Seq(Byte), m \in Nat, <1>5, <3>1, <4>1, PassesShifted
    <3>4. m + x + n \in S
      BY <1>7, <3>1, <3>3 DEF Closed
    <3>5. m + (x + n) = m + x + n /\ x + n \in Nat
      BY <3>1, <3>2
    <3> HIDE DEF n
    <3>6. x + n \in T
      BY <3>4, <3>5
    <3> QED  BY <3>6 DEF n
  <2> HIDE DEF T
  <2>7. Closed(s, T)
    BY <2>5, <2>6 DEF Closed
  <2>8. k \in T
    BY <1>1, <2>5, <2>7 DEF Reached
  <2> QED  BY <2>8 DEF T
<1>8. k \in Nat
  <2>1. ASSUME NEW x \in Nat, Passes(s, x) PROVE x + CharCnt(s[x + 1]) \in Nat
    <3>1. CharCnt(s[x + 1]) \in Nat
      BY <2>1, PassesFar
    <3> QED  BY <3>1
  <2>2. Closed(s, Nat)
    BY <2>1 DEF Closed
  <2> QED  BY <1>1, <2>2 DEF Reached
<1>9. m + k < Len(t) /\ ~Passes(t, m + k)
  <2>1. Passes(t, m + k) <=> Passes(s, k)
    BY <1>1, <1>5, <1>8, PassesShifted
  <2> QED  BY <1>1, <1>3, <1>4, <1>8, <2>1
<1>10. Reached(t, m + k)
  BY <1>7 DEF Reached
<1>11. Stuck(t)
  BY <1>9, <1>10 DEF Stuck
<1> QED  BY <1>3, <1>11

-----------------------------------------------------------------------------
(* What the next run takes an output in the other encodings for            *)

\* No character of t is dropped in encoding e.
Encodable(e, t) == \A i \in 1 .. Len(t) : write_char(e, t[i]) # <<>>

LEMMA EncodableInUtf8 ==
  ASSUME NEW t \in Seq(CodePoint), Encodable("UTF8", t)
  PROVE  Sound(t)
<1> SUFFICES ASSUME NEW i \in 1 .. Len(t), ~(t[i] <= LastCodePoint) PROVE FALSE
  BY DEF Sound
<1>1. t[i] \in Nat
  BY ElementOfSeq, CodePointBounds
<1> DEFINE ch == t[i]
<1>2. ~(ch < 128) /\ ~(ch < 2048) /\ ~(ch < 65536) /\ ~(ch <= LastCodePoint) /\ ch \in Nat
  BY <1>1 DEF LastCodePoint
<1>3. write_char("UTF8", ch) # <<>>
  BY DEF Encodable
<1> HIDE DEF ch
<1>4. encode_utf8(ch) = <<>>
  BY ONLY <1>2, SMTT(60) DEF encode_utf8
<1>5. write_char("UTF8", ch) = encode_utf8(ch)
  BY DEF write_char
<1> QED  BY <1>3, <1>4, <1>5

\* A file without a BOM.
NoBom(s) == ~LiesAt(s, 0, <<254, 255>>) /\ ~LiesAt(s, 0, <<255, 254>>) /\ ~LiesAt(s, 0, <<239, 187, 191>>)

LEMMA NoBomIs ==
  ASSUME raw \in Seq(Byte)
  PROVE  decode_bom = "ASCII" <=> NoBom(raw)
<1>1. Len(raw) \in Nat
  BY LenProperties
<1>2. StartsWith(<<254, 255>>) <=> LiesAt(raw, 0, <<254, 255>>)
  BY <1>1 DEF StartsWith, LiesAt
<1>3. StartsWith(<<255, 254>>) <=> LiesAt(raw, 0, <<255, 254>>)
  BY <1>1 DEF StartsWith, LiesAt
<1>4. StartsWith(<<239, 187, 191>>) <=> LiesAt(raw, 0, <<239, 187, 191>>)
  BY <1>1 DEF StartsWith, LiesAt
<1> QED  BY <1>2, <1>3, <1>4 DEF decode_bom, NoBom

LEMMA NoBomBehind ==
  ASSUME NEW h \in Seq(Byte), \A i \in 1 .. Len(h) : h[i] < 128, NEW s \in Seq(Byte), NoBom(s)
  PROVE  NoBom(h \o s)
<1>1. CASE Len(h) = 0
  <2>1. h = <<>>
    BY <1>1, EmptySeq
  <2>2. h \o s = s
    BY <2>1, ConcatEmptySeq
  <2> QED  BY <2>2
<1>2. CASE Len(h) # 0
  <2>1. Len(h) \in Nat /\ Len(s) \in Nat
    BY LenProperties
  <2> DEFINE t == h \o s
  <2>2. t[1] < 128 /\ t[1] \in Nat
    <3>1. 1 \in 1 .. Len(h) + Len(s) /\ 1 \in 1 .. Len(h) /\ 1 <= Len(h)
      BY <1>2, <2>1
    <3>2. t[1] = h[1]
      BY <3>1, ConcatProperties
    <3>3. h[1] \in Nat
      BY <3>1, ElementOfSeq, ByteBounds
    <3> QED  BY <3>1, <3>2, <3>3
  <2> HIDE DEF t
  <2>3. NoBom(t)
    BY <2>2 DEF NoBom, LiesAt
  <2> QED  BY <2>3 DEF t
<1> QED  BY <1>1, <1>2

\* An output in ASCII is its text.
Plain(t) == \A i \in 1 .. Len(t) : 0 < t[i] /\ t[i] < 128

LEMMA AsciiOutput ==
  ASSUME NEW s \in Seq(Byte), NEW t \in Seq(CodePoint), \A i \in 1 .. Len(t) : t[i] < 256,
         NEW e \in {"ASCII", "BYTES"}, OutputOf(s, e, FALSE, t, Len(t))
  PROVE  s = t
<1>1. ASSUME NEW i \in 1 .. Len(t) PROVE t[i] < 256 /\ write_char(e, t[i]) = <<t[i]>>
  <2>1. t[i] \in Byte
    BY ElementOfSeq, ByteBounds, CodePointBounds
  <2> QED  BY <2>1 DEF write_char, write_byte
<1>2. e \in Encodings
  BY DEF Encodings
<1> QED  BY <1>1, <1>2, OneByteEach

LEMMA PlainIsAscii ==
  ASSUME raw \in Seq(Byte), Plain(raw)
  PROVE  is_ascii /\ NoBom(raw)
<1>1. DOMAIN raw = 1 .. Len(raw) /\ Len(raw) \in Nat
  BY LenProperties
<1>2. is_ascii
  BY <1>1 DEF is_ascii, Plain
<1>3. Len(raw) > 0 => raw[1] < 128
  BY <1>1 DEF Plain
<1> QED  BY <1>1, <1>2, <1>3 DEF NoBom, LiesAt

LEMMA LowBytes ==
  ASSUME NEW t \in Seq(CodePoint), NEW e \in {"ASCII", "BYTES"}, Encodable(e, t)
  PROVE  \A i \in 1 .. Len(t) : t[i] < 256
<1> SUFFICES ASSUME NEW i \in 1 .. Len(t) PROVE t[i] < 256
  OBVIOUS
<1>1. write_char(e, t[i]) = IF t[i] \in Byte THEN <<t[i]>> ELSE <<>>
  BY DEF write_char, write_byte
<1>2. t[i] \in Byte
  BY <1>1 DEF Encodable
<1> QED  BY <1>2, ByteBounds

\* A text in UTF-16 is an even number of bytes.
LEMMA EvenBytes ==
  ASSUME NEW ch \in Nat, NEW e
  PROVE  Len(write_utf16(ch, e)) \in {0, 2, 4}
<1>1. CASE ch < 55296 \/ (57344 <= ch /\ ch < 65536)
  <2>1. write_utf16(ch, e) = WordBytes(ch, e)
    BY ONLY <1>1, SMTT(60) DEF write_utf16
  <2> QED  BY <1>1, <2>1, TwoOfBytes
<1>2. CASE 65536 <= ch /\ ch <= LastCodePoint
  <2>1. ~(ch < 55296 \/ (57344 <= ch /\ ch < 65536))
    BY <1>2
  <2>2. write_utf16(ch, e) = WordBytes(55296 + ((ch - 65536) \div 1024), e) \o WordBytes(56320 + ((ch - 65536) % 1024), e)
    BY ONLY <1>2, <2>1, SMTT(60) DEF write_utf16
  <2> DEFINE v == 55296 + ((ch - 65536) \div 1024)
             u == 56320 + ((ch - 65536) % 1024)
  <2>3. v \in Nat /\ u \in Nat /\ v < 65536 /\ u < 65536
    <3> DEFINE y == ch - 65536
    <3>1. y \in Nat /\ y < 1048576
      BY <1>2 DEF LastCodePoint
    <3> HIDE DEF y
    <3>2. y \div 1024 \in Nat /\ y \div 1024 < 1024 /\ y % 1024 \in Nat /\ y % 1024 < 1024
      BY <3>1
    <3> QED  BY <3>2 DEF y
  <2>4. write_utf16(ch, e) = WordBytes(v, e) \o WordBytes(u, e)
    BY <2>2
  <2> HIDE DEF v, u
  <2> DEFINE p == WordBytes(v, e)
             q == WordBytes(u, e)
  <2>5. p \in Seq(Byte) /\ q \in Seq(Byte) /\ Len(p) = 2 /\ Len(q) = 2
    BY <2>3, TwoOfBytes
  <2>6. write_utf16(ch, e) = p \o q
    BY <2>4
  <2> HIDE DEF p, q
  <2>7. Len(p \o q) = Len(p) + Len(q)
    BY <2>5, ConcatProperties
  <2> QED  BY <2>5, <2>6, <2>7
<1>3. CASE ~(ch < 55296 \/ (57344 <= ch /\ ch < 65536)) /\ ~(65536 <= ch /\ ch <= LastCodePoint)
  <2>1. write_utf16(ch, e) = <<>>
    BY ONLY <1>3, SMTT(60) DEF write_utf16
  <2> QED  BY <2>1, EmptySeq
<1> QED  BY <1>1, <1>2, <1>3

LEMMA EvenOutput ==
  ASSUME NEW s \in Seq(Byte), NEW e \in Utf16s, NEW t \in Seq(CodePoint), OutputOf(s, e, TRUE, t, Len(t))
  PROVE  Len(s) % 2 = 0
<1> DEFINE n == Len(t)
<1>1. n \in Nat /\ n <= Len(t) /\ e \in Encodings
  BY LenProperties DEF Utf16s, Encodings
<1>2. PICK at : Laid(s, e, TRUE, t, n, at) /\ at[n] = Len(s)
  BY Zenon DEF OutputOf
<1> HIDE DEF n
<1> DEFINE Even == {i \in Nat : i <= n => at[i] \in Nat /\ at[i] % 2 = 0}
<1>3. 0 \in Even
  <2>1. Bom(e, TRUE) = write_bom(e) /\ Len(write_bom(e)) = 2
    BY BomIs DEF Bom, Utf16s
  <2>2. at[0] = 2
    BY <1>2, <2>1 DEF Laid
  <2> QED  BY <2>2
<1>4. ASSUME NEW i \in Nat, i \in Even PROVE i + 1 \in Even
  <2> SUFFICES ASSUME i + 1 <= n PROVE at[i + 1] \in Nat /\ at[i + 1] % 2 = 0
    OBVIOUS
  <2> DEFINE m == i + 1
  <2>1. m \in 1 .. n /\ m - 1 = i /\ i <= n /\ m \in 1 .. Len(t)
    BY <1>1 DEF n
  <2>2. at[i] \in Nat /\ at[i] % 2 = 0
    BY <1>4, <2>1
  <2> HIDE DEF m
  <2>3. at[m] = at[m - 1] + Len(write_char(e, t[m]))
    BY <1>2, <2>1 DEF Laid
  <2>4. t[m] \in Nat
    BY <2>1, ElementOfSeq, CodePointBounds
  <2>5. write_char(e, t[m]) = write_utf16(t[m], e)
    BY DEF write_char, Utf16s
  <2>6. Len(write_char(e, t[m])) \in {0, 2, 4}
    BY <2>4, <2>5, EvenBytes
  <2> DEFINE a == at[i]
             c == Len(write_char(e, t[m]))
  <2>7. a \in Nat /\ a % 2 = 0 /\ c \in {0, 2, 4} /\ at[m] = a + c
    BY <2>1, <2>2, <2>3, <2>6
  <2> HIDE DEF a, c
  <2>8. a + c \in Nat /\ (a + c) % 2 = 0
    BY ONLY <2>7
  <2> QED  BY <2>7, <2>8 DEF m
<1>5. Nat \subseteq Even
  <2> HIDE DEF Even
  <2> QED  BY <1>3, <1>4, InductiveSet
<1> QED  BY <1>1, <1>2, <1>5

-----------------------------------------------------------------------------
(* Reading it character by character                                       *)

\* The first n characters of t take k bytes of s, which is t in encoding e.
ReadTo(s, e, b, t, n, k) ==
  \E at : Laid(s, e, b, t, Len(t), at) /\ at[Len(t)] = Len(s) /\ n \in 0 .. Len(t) /\ k = at[n]

LEMMA ReadToFirst ==
  ASSUME NEW s, NEW e, NEW b, NEW t \in Seq(CodePoint), OutputOf(s, e, b, t, Len(t))
  PROVE  ReadTo(s, e, b, t, 0, Len(Bom(e, b)))
<1>1. PICK at : Laid(s, e, b, t, Len(t), at) /\ at[Len(t)] = Len(s)
  BY Zenon DEF OutputOf
<1>2. 0 \in 0 .. Len(t)
  BY LenProperties
<1>3. Len(Bom(e, b)) = at[0]
  BY <1>1 DEF Laid
<1> QED  BY <1>1, <1>2, <1>3 DEF ReadTo

LEMMA ReadToNext ==
  ASSUME NEW s \in Seq(Byte), NEW e \in Encodings, NEW b, NEW t \in Seq(CodePoint), Encodable(e, t),
         NEW n, NEW k, ReadTo(s, e, b, t, n, k), k < Len(s)
  PROVE  LET c == write_char(e, t[n + 1])
         IN  /\ n \in Nat /\ n + 1 \in 1 .. Len(t) /\ LiesAt(s, k, c)
             /\ ReadTo(s, e, b, t, n + 1, k + Len(c))
<1>1. PICK at : Laid(s, e, b, t, Len(t), at) /\ at[Len(t)] = Len(s) /\ n \in 0 .. Len(t) /\ k = at[n]
  BY DEF ReadTo
<1>2. Len(t) \in Nat /\ Len(s) \in Nat
  BY LenProperties
<1>3. n # Len(t)
  BY <1>1, <1>2
<1> DEFINE m == n + 1
<1>4. n \in Nat /\ m \in 1 .. Len(t) /\ m - 1 = n /\ m \in 0 .. Len(t)
  BY <1>1, <1>2, <1>3
<1> HIDE DEF m
<1>5. at[m] = at[m - 1] + Len(write_char(e, t[m])) /\ LiesAt(s, at[m - 1], write_char(e, t[m]))
  BY <1>1, <1>4 DEF Laid
<1>6. ReadTo(s, e, b, t, m, k + Len(write_char(e, t[m])))
  BY <1>1, <1>4, <1>5 DEF ReadTo
<1> QED  BY <1>1, <1>4, <1>5, <1>6 DEF m

LEMMA ReadToEnd ==
  ASSUME NEW s \in Seq(Byte), NEW e \in Encodings, NEW b, NEW t \in Seq(CodePoint), Encodable(e, t),
         NEW n, ReadTo(s, e, b, t, n, Len(s))
  PROVE  n = Len(t)
<1>1. PICK at : Laid(s, e, b, t, Len(t), at) /\ at[Len(t)] = Len(s) /\ n \in 0 .. Len(t) /\ Len(s) = at[n]
  BY DEF ReadTo
<1>2. Len(t) \in Nat /\ Len(s) \in Nat
  BY LenProperties
<1> SUFFICES ASSUME n # Len(t) PROVE FALSE
  OBVIOUS
<1> DEFINE m == n + 1
           len == Len(t)
<1>3. m \in 1 .. len /\ m - 1 = n /\ len \in Nat /\ len <= Len(t)
  BY <1>1, <1>2
<1>4. Laid(s, e, b, t, len, at)
  BY <1>1
<1> HIDE DEF m, len
<1>5. /\ at[m - 1] \in Nat /\ at[m] <= Len(s) /\ at[m] = at[m - 1] + Len(write_char(e, t[m]))
      /\ write_char(e, t[m]) \in Seq(Byte) /\ Len(write_char(e, t[m])) \in Nat
  BY <1>3, <1>4, LaidAt
<1>6. write_char(e, t[m]) # <<>>
  BY <1>3 DEF Encodable, len
<1>7. Len(write_char(e, t[m])) # 0
  BY <1>5, <1>6, EmptySeq
<1> QED  BY <1>1, <1>2, <1>3, <1>5, <1>7

\* The beginning of t has been read from its file.
Begun(t, e, b) == ReadTo(raw, e, b, t, Len(data), idx) /\ \A i \in 1 .. Len(data) : data[i] = t[i]

\* Before the first character.
LEMMA BegunFirst ==
  ASSUME NEW t \in Seq(CodePoint), NEW e, NEW b, OutputOf(raw, e, b, t, Len(t)),
         data' = <<>>, idx' = Len(Bom(e, b)), raw' = raw
  PROVE  Begun(t, e, b)'
<1>1. ReadTo(raw, e, b, t, 0, Len(Bom(e, b)))
  BY ReadToFirst
<1>2. Len(data') = 0
  BY EmptySeq
<1>3. ReadTo(raw', e, b, t, Len(data'), idx')
  BY ONLY <1>1, <1>2, raw' = raw, idx' = Len(Bom(e, b)), Zenon
<1>4. \A i \in 1 .. Len(data') : data'[i] = t[i]
  BY <1>2
<1> QED  BY <1>3, <1>4 DEF Begun

\* One character more has been read.
LEMMA BegunNext ==
  ASSUME Inv, NEW t \in Seq(CodePoint), NEW e \in Encodings, Encodable(e, t), NEW b, Begun(t, e, b), idx < Len(raw),
         NEW ch, ch = t[Len(data) + 1], NEW c, c = write_char(e, ch)
  PROVE  /\ Len(data) + 1 \in 1 .. Len(t) /\ LiesAt(raw, idx, c)
         /\ Push(ch, Len(c)) => Begun(t, e, b)'
<1> DEFINE n == Len(data)
<1>1. raw \in Seq(Byte) /\ data \in Seq(CodePoint) /\ n \in Nat
  BY LenProperties DEF Inv, TypeOK
<1>2. ReadTo(raw, e, b, t, n, idx)
  BY DEF Begun
<1>3. n + 1 \in 1 .. Len(t) /\ LiesAt(raw, idx, c) /\ ReadTo(raw, e, b, t, n + 1, idx + Len(c))
  BY <1>1, <1>2, ReadToNext
<1>4. ASSUME Push(ch, Len(c)) PROVE Begun(t, e, b)'
  <2>1. data' = Append(data, ch) /\ idx' = idx + Len(c) /\ raw' = raw
    BY <1>4 DEF Push
  <2>2. ch \in CodePoint
    BY <1>3, ElementOfSeq
  <2>3. Len(data') = n + 1 /\ data'[n + 1] = ch /\ \A i \in 1 .. n : data'[i] = data[i]
    BY <1>1, <2>1, <2>2, AppendProperties
  <2>4. ReadTo(raw', e, b, t, Len(data'), idx')
    BY ONLY <1>3, <1>4, <2>1, <2>3, Zenon
  <2>5. ASSUME NEW i \in 1 .. n + 1 PROVE data'[i] = t[i]
    <3>1. CASE i = n + 1
      BY <2>3, <3>1
    <3>2. CASE i # n + 1
      <4>1. i \in 1 .. n
        BY <1>1, <3>2
      <4> QED  BY <2>3, <4>1 DEF Begun
    <3> QED  BY <3>1, <3>2
  <2> QED  BY <2>3, <2>4, <2>5 DEF Begun
<1> QED  BY <1>3, <1>4

\* At the end of the file the whole text has been read.
LEMMA BegunEnds ==
  ASSUME Inv, NEW t \in Seq(CodePoint), NEW e \in Encodings, Encodable(e, t), NEW b, Begun(t, e, b), idx = Len(raw)
  PROVE  data = t
<1>1. raw \in Seq(Byte) /\ data \in Seq(CodePoint)
  BY DEF Inv, TypeOK
<1>2. Len(data) = Len(t)
  BY <1>1, ReadToEnd DEF Begun
<1>3. \A i \in 1 .. Len(data) : data[i] = t[i]
  BY DEF Begun
<1> QED  BY <1>1, <1>2, <1>3, SeqEqual

\* A file of t is taken for its encoding by its BOM.
LEMMA TextDetectBom ==
  ASSUME Inv, NEW t \in Seq(CodePoint), NEW e \in Utf16s \cup {"UTF8"}, OutputOf(raw, e, TRUE, t, Len(t)), DetectBom
  PROVE  /\ encoding' = e /\ hasBom' = TRUE /\ Begun(t, e, TRUE)'
         /\ place' = IF e = "UTF8" THEN "utf8" ELSE "utf16"
<1>1. raw \in Seq(Byte) /\ Len(raw) \in Nat /\ Bom(e, TRUE) = write_bom(e)
  BY LenProperties DEF Inv, TypeOK, Bom
<1>2. LiesAt(raw, 0, write_bom(e))
  BY <1>1 DEF OutputOf, Laid
<1>3. decode_bom = e
  BY <1>1, <1>2, BomFound
<1>4. encoding' = e /\ hasBom' = TRUE /\ raw' = raw /\ data' = <<>>
  BY <1>3 DEF DetectBom, Decode, Utf16s
<1>5. CASE e = "UTF8"
  <2>1. Decode("utf8", 3)
    BY <1>3, <1>5 DEF DetectBom
  <2>2. Len(Bom(e, TRUE)) = 3
    <3>1. Len(write_bom(e)) = 3
      BY <1>5, BomIs
    <3> QED  BY ONLY <1>1, <3>1, Zenon
  <2>3. place' = "utf8" /\ idx' = Len(Bom(e, TRUE))
    BY <2>1, <2>2 DEF Decode
  <2>4. Begun(t, e, TRUE)'
    BY <1>4, <2>3, BegunFirst
  <2> QED  BY <1>4, <1>5, <2>3, <2>4
<1>6. CASE e \in Utf16s
  <2>1. Len(raw) % 2 = 0
    BY <1>1, <1>6, EvenOutput
  <2>2. Decode("utf16", 2)
    BY <1>3, <1>6, <2>1 DEF DetectBom, Utf16s
  <2>3. Len(Bom(e, TRUE)) = 2
    <3>1. Len(write_bom(e)) = 2
      BY <1>6, BomIs DEF Utf16s
    <3> QED  BY ONLY <1>1, <3>1, Zenon
  <2>4. place' = "utf16" /\ idx' = Len(Bom(e, TRUE)) /\ e # "UTF8"
    BY <1>6, <2>2, <2>3 DEF Decode, Utf16s
  <2>5. Begun(t, e, TRUE)'
    BY <1>4, <2>4, BegunFirst
  <2> QED  BY <1>4, <2>4, <2>5
<1> QED  BY <1>5, <1>6

\* Both decoders read character after character of it.
LEMMA TextReadUtf8 ==
  ASSUME Inv, NEW t \in Seq(CodePoint), Encodable("UTF8", t), NEW b, Begun(t, "UTF8", b), ReadUtf8
  PROVE  Begun(t, "UTF8", b)' /\ place' = "utf8"
<1> DEFINE ch == t[Len(data) + 1]
           c == encode_utf8(ch)
           k == CharCnt(raw[idx + 1])
<1>0. raw \in Seq(Byte) /\ idx \in Nat /\ idx < Len(raw) /\ place = "utf8" /\ "UTF8" \in Encodings
  BY DEF Inv, TypeOK, ReadUtf8, Encodings
<1>1. ValidUtf8(k) => Push(Utf8At(k), k)
  BY DEF ReadUtf8
<1>2. c = write_char("UTF8", ch)
  BY DEF write_char
<1>3. /\ Len(data) + 1 \in 1 .. Len(t) /\ LiesAt(raw, idx, c)
      /\ Push(ch, Len(c)) => Begun(t, "UTF8", b)'
  <2> HIDE DEF c, ch
  <2> QED  BY <1>0, <1>2, BegunNext DEF ch
<1>4. ch \in Nat /\ ch <= LastCodePoint
  <2>1. Sound(t)
    BY EncodableInUtf8
  <2> QED  BY <1>3, <2>1, ElementOfSeq, CodePointBounds DEF Sound
<1> HIDE DEF ch, k
<1>5. k = Len(c) /\ ValidUtf8(k) /\ Utf8At(k) = ch
  BY <1>0, <1>3, <1>4, DecodesUtf8 DEF k
<1>6. Push(ch, Len(c))
  BY <1>1, <1>5
<1>7. place' = "utf8"
  BY <1>0, <1>6 DEF Push
<1> QED  BY <1>3, <1>6, <1>7

LEMMA TextReadUtf16 ==
  ASSUME Inv, NEW t \in Seq(CodePoint), NEW e \in Utf16s, encoding = e, Encodable(e, t), NEW b, Begun(t, e, b), ReadUtf16
  PROVE  Begun(t, e, b)' /\ UNCHANGED <<options, raw, encoding, hasBom, place, outEncoding, outBom, known, earlier>>
<1>1. raw \in Seq(Byte) /\ idx \in Nat /\ idx < Len(raw) /\ e \in Encodings
  BY DEF Inv, TypeOK, ReadUtf16, Utf16s, Encodings
<1> DEFINE ch == t[Len(data) + 1]
           c == write_utf16(ch, encoding)
           w == Word(idx)
           tmp == Word(idx + 2)
<1>2. c = write_char(e, ch)
  BY <1>1 DEF write_char, Utf16s
<1>3. /\ Len(data) + 1 \in 1 .. Len(t) /\ LiesAt(raw, idx, c)
      /\ Push(ch, Len(c)) => Begun(t, e, b)'
  <2> HIDE DEF c, ch
  <2> QED  BY <1>1, <1>2, BegunNext DEF ch
<1>4. ch \in Nat /\ c # <<>>
  BY <1>2, <1>3, ElementOfSeq, CodePointBounds DEF Encodable
<1>5. Push(ch, Len(c))
  <2> HIDE DEF ch
  <2>1. \/ High(w) /\ Low(tmp) /\ Len(c) = 4 /\ ch = (w - 55296) * 1024 + (tmp - 56320) + 65536
        \/ ~High(w) /\ ~Low(w) /\ Len(c) = 2 /\ ch = w
    BY <1>1, <1>3, <1>4, DecodesUtf16
  <2> HIDE DEF c
  <2>2. CASE High(w) /\ Low(tmp) /\ Len(c) = 4 /\ ch = (w - 55296) * 1024 + (tmp - 56320) + 65536
    BY <2>2 DEF ReadUtf16
  <2>3. CASE ~High(w) /\ ~Low(w) /\ Len(c) = 2 /\ ch = w
    BY <2>3 DEF ReadUtf16
  <2> QED  BY <2>1, <2>2, <2>3
<1> HIDE DEF ch, c
<1>6. UNCHANGED <<options, raw, encoding, hasBom, place, outEncoding, outBom, known, earlier>>
  BY <1>5 DEF Push, output
<1> QED  BY <1>3, <1>5, <1>6

-----------------------------------------------------------------------------
(* The first run                                                           *)

\* What the first run knows of the file when it has it all.
Loaded ==
  /\ encoding \in {"ASCII", "BYTES"} => ~hasBom
  /\ encoding = "BYTES" => data = raw /\ Stuck(raw)
  /\ encoding = "ASCII" => Plain(data)

\* And what it writes.
ToWrite ==
  /\ text = options.header \o data /\ ~EmbeddedZero
  /\ outEncoding = OutEncoding /\ outBom = OutBom

FirstRun ==
  earlier = <<>> =>
    /\ place # "bom" /\ ~hasBom => NoBom(raw)
    /\ place = "guess" => ~hasBom
    /\ place = "utf8" /\ ~hasBom => Reached(raw, idx)
    /\ place \in {"loaded", "write"} => Loaded
    /\ place = "write" => ToWrite

\* What has been written by now.
Outputting == place = "write" => OutputOf(out, outEncoding, outBom, text, written)

LEMMA PassesIs ==
  ASSUME raw \in Seq(Byte), idx \in Nat, idx < Len(raw)
  PROVE  Passes(raw, idx) <=> ValidUtf8(CharCnt(raw[idx + 1]))
  BY DEF Passes, ValidAt, ValidUtf8

LEMMA FirstDetectBom ==
  ASSUME Inv, FirstRun, DetectBom
  PROVE  FirstRun'
<1>1. raw' = raw /\ raw \in Seq(Byte) /\ hasBom' = (decode_bom # "ASCII")
  BY DEF Inv, TypeOK, DetectBom, Decode
<1>2. ~hasBom' => NoBom(raw')
  BY <1>1, NoBomIs
<1>3. (place' = "guess" /\ ~hasBom') \/ (place' = "utf8" /\ hasBom') \/ place' \in {"utf16", "error"}
  <2>1. CASE decode_bom = "ASCII"
    <3>1. Decode("guess", 0)
      BY <2>1 DEF DetectBom
    <3>2. ~hasBom'
      BY ONLY <1>1, <2>1, Zenon
    <3>3. place' = "guess"
      BY <3>1 DEF Decode
    <3> QED  BY <3>2, <3>3
  <2>2. CASE decode_bom = "UTF8"
    <3>1. Decode("utf8", 3)
      BY <2>2 DEF DetectBom
    <3> QED  BY <1>1, <2>2, <3>1 DEF Decode
  <2>3. CASE decode_bom \notin {"ASCII", "UTF8"}
    <3>1. Decode("error", 0) \/ Decode("utf16", 2)
      BY <2>3 DEF DetectBom
    <3> QED  BY <3>1 DEF Decode
  <2> QED  BY <2>1, <2>2, <2>3
<1> QED  BY <1>2, <1>3 DEF FirstRun

LEMMA FirstGuess ==
  ASSUME Inv, FirstRun, Guess
  PROVE  FirstRun'
<1> SUFFICES ASSUME earlier = <<>> PROVE FirstRun'
  BY DEF FirstRun, Guess, Decode, DecodeBytes
<1>1. raw' = raw /\ raw \in Seq(Byte) /\ hasBom' = hasBom /\ place = "guess"
  BY DEF Inv, TypeOK, Guess, Decode, DecodeBytes
<1>2. ~hasBom /\ NoBom(raw)
  BY <1>1 DEF FirstRun
<1>3. CASE is_ascii
  <2>1. place' = "loaded" /\ encoding' = "ASCII" /\ data' = raw
    BY <1>3 DEF Guess, DecodeBytes
  <2>2. DOMAIN raw = 1 .. Len(raw)
    BY <1>1, LenProperties
  <2>3. Plain(raw)
    BY <1>3, <2>2 DEF is_ascii, Plain
  <2>4. Loaded'
    BY <1>1, <1>2, <2>1, <2>3 DEF Loaded
  <2> QED  BY <1>1, <1>2, <2>1, <2>4 DEF FirstRun
<1>4. CASE ~is_ascii
  <2>1. place' = "utf16" \/ (place' = "utf8" /\ idx' = 0)
    BY <1>4 DEF Guess, Decode
  <2>2. Reached(raw, 0)
    BY ReachedFirst
  <2> QED  BY <1>1, <1>2, <2>1, <2>2 DEF FirstRun
<1> QED  BY <1>3, <1>4

LEMMA FirstReadUtf8 ==
  ASSUME Inv, FirstRun, ReadUtf8
  PROVE  FirstRun'
<1> DEFINE n == CharCnt(raw[idx + 1])
<1>0. raw \in Seq(Byte) /\ idx \in Nat /\ idx < Len(raw) /\ place = "utf8"
  BY DEF Inv, TypeOK, ReadUtf8
<1>1. \/ ValidUtf8(n) /\ Push(Utf8At(n), n)
      \/ ~ValidUtf8(n) /\ hasBom /\ UNCHANGED hasBom /\ Decode("error", 0)
      \/ ~ValidUtf8(n) /\ ~hasBom /\ DecodeBytes("BYTES")
  BY DEF ReadUtf8
<1>2. Passes(raw, idx) <=> ValidUtf8(n)
  BY <1>0, PassesIs
<1> SUFFICES ASSUME earlier = <<>> PROVE FirstRun'
  BY <1>1 DEF FirstRun, Push, Decode, DecodeBytes
<1>3. (~hasBom => NoBom(raw) /\ Reached(raw, idx)) /\ raw' = raw /\ hasBom' = hasBom
  BY <1>0, <1>1 DEF FirstRun, Push, Decode, DecodeBytes
<1>4. CASE ValidUtf8(n) /\ Push(Utf8At(n), n)
  <2>1. place' = "utf8" /\ idx' = idx + n
    BY <1>0, <1>4 DEF Push
  <2>2. ~hasBom => Reached(raw, idx + n)
    BY <1>2, <1>3, <1>4, ReachedNext
  <2> HIDE DEF n
  <2> QED  BY <1>3, <2>1, <2>2 DEF FirstRun
<1>5. CASE ~ValidUtf8(n) /\ hasBom /\ UNCHANGED hasBom /\ Decode("error", 0)
  <2>1. place' = "error"
    BY <1>5 DEF Decode
  <2> QED  BY <1>3, <1>5, <2>1 DEF FirstRun
<1>6. CASE ~ValidUtf8(n) /\ ~hasBom /\ DecodeBytes("BYTES")
  <2>1. place' = "loaded" /\ encoding' = "BYTES" /\ data' = raw
    BY <1>6 DEF DecodeBytes
  <2>2. Stuck(raw)
    BY <1>0, <1>2, <1>3, <1>6 DEF Stuck
  <2>3. Loaded'
    BY <1>3, <1>6, <2>1, <2>2 DEF Loaded
  <2> QED  BY <1>3, <1>6, <2>1, <2>3 DEF FirstRun
<1> QED  BY <1>1, <1>4, <1>5, <1>6

LEMMA FirstReadUtf16 ==
  ASSUME Inv, FirstRun, ReadUtf16
  PROVE  FirstRun'
<1> DEFINE w == Word(idx)
           tmp == Word(idx + 2)
<1>0. \/ \E ch, n : Push(ch, n)
      \/ UNCHANGED <<encoding, hasBom>> /\ (Decode("error", 0) \/ Decode("utf8", 0))
  <2>1. CASE High(w) /\ Low(tmp)
    BY <2>1 DEF ReadUtf16
  <2>2. CASE ~High(w) /\ ~Low(w)
    BY <2>2 DEF ReadUtf16
  <2>3. CASE ~(High(w) /\ Low(tmp)) /\ ~(~High(w) /\ ~Low(w))
    BY <2>3 DEF ReadUtf16
  <2> QED  BY <2>1, <2>2, <2>3
<1>1. /\ place = "utf16" /\ raw' = raw /\ hasBom' = hasBom /\ earlier' = earlier
      /\ (place' \in {"utf16", "error"} \/ (place' = "utf8" /\ idx' = 0))
  BY <1>0 DEF ReadUtf16, Push, Decode
<1>2. Reached(raw, 0)
  BY ReachedFirst
<1> QED  BY <1>1, <1>2 DEF FirstRun

LEMMA FirstEndOfFile ==
  ASSUME Inv, FirstRun, EndOfFile
  PROVE  FirstRun'
<1>1. /\ place \in {"utf8", "utf16"} /\ place' = "loaded" /\ UNCHANGED <<raw, hasBom, earlier>>
      /\ encoding' = IF place = "utf8" THEN "UTF8" ELSE encoding
  BY DEF EndOfFile
<1>2. encoding' \notin {"ASCII", "BYTES"}
  BY <1>1 DEF Inv, Places
<1>3. Loaded'
  BY <1>2 DEF Loaded
<1> QED  BY <1>1, <1>3 DEF FirstRun

LEMMA FirstBegin ==
  ASSUME Inv, FirstRun, Begin
  PROVE  FirstRun'
<1>1. place = "loaded" /\ UNCHANGED <<options, raw, data, encoding, hasBom, earlier>>
  BY DEF Begin, file
<1> SUFFICES ASSUME earlier = <<>> PROVE FirstRun'
  BY <1>1 DEF FirstRun
<1>2. Loaded /\ (~hasBom => NoBom(raw))
  BY <1>1 DEF FirstRun
<1>3. Loaded'
  BY <1>1, <1>2 DEF Loaded
<1>4. CASE EmbeddedZero
  <2>1. place' = "error"
    BY <1>4 DEF Begin
  <2> QED  BY <1>1, <1>2, <2>1 DEF FirstRun
<1>5. CASE ~EmbeddedZero
  <2>1. place' = "write" /\ text' = options.header \o data
    BY <1>5 DEF Begin
  <2>2. ~EmbeddedZero'
    BY <1>1, <1>5 DEF EmbeddedZero
  <2>3. outEncoding' = OutEncoding /\ outBom' = OutBom
    BY DEF Begin
  <2>4. OutEncoding' = OutEncoding /\ OutBom' = OutBom
    BY <1>1 DEF OutEncoding, OutBom
  <2>5. ToWrite'
    BY <1>1, <2>1, <2>2, <2>3, <2>4 DEF ToWrite
  <2> QED  BY <1>1, <1>2, <1>3, <2>1, <2>5 DEF FirstRun
<1> QED  BY <1>4, <1>5

\* Nothing of it changes while it writes.
LEMMA FirstStays ==
  ASSUME FirstRun, UNCHANGED <<options, raw, data, encoding, hasBom, idx, place, outEncoding, outBom, text, earlier>>
  PROVE  FirstRun'
<1>1. Loaded' = Loaded
  BY DEF Loaded
<1>2. ToWrite' = ToWrite
  BY DEF ToWrite, EmbeddedZero, OutEncoding, OutBom
<1> QED  BY <1>1, <1>2 DEF FirstRun

LEMMA OutputFirst ==
  ASSUME NEW e \in Encodings, NEW b, NEW t
  PROVE  OutputOf(Bom(e, b), e, b, t, 0)
<1>1. Bom(e, b) \in Seq(Byte) /\ Len(Bom(e, b)) \in Nat
  <2>1. Bom(e, b) \in Seq(Byte)
    BY BomBytes, EmptySeq DEF Bom
  <2> QED  BY <2>1, LenProperties
<1> DEFINE s == Bom(e, b)
           at == [i \in 0 .. 0 |-> Len(s)]
<1>2. LiesAt(s, 0, s)
  <2> HIDE DEF s
  <2> QED  BY <1>1 DEF LiesAt, s
<1>3. at \in [0 .. 0 -> Nat] /\ at[0] = Len(s) /\ \A i \in 1 .. 0 : FALSE
  BY <1>1
<1> HIDE DEF at
<1>4. Laid(s, e, b, t, 0, at)
  BY <1>2, <1>3 DEF Laid
<1> QED  BY <1>3, <1>4 DEF OutputOf

LEMMA OutputBegin ==
  ASSUME Inv, Begin
  PROVE  Outputting'
<1> SUFFICES ASSUME place' = "write" PROVE OutputOf(out', outEncoding', outBom', text', written')
  BY DEF Outputting
<1>1. outEncoding' \in Encodings
  BY DEF Inv, TypeOK, Begin, OutEncoding, Encodings
<1>2. written' = 0 /\ out' = Bom(outEncoding', outBom')
  BY DEF Begin, Bom
<1>3. OutputOf(Bom(outEncoding', outBom'), outEncoding', outBom', text', 0)
  BY <1>1, OutputFirst
<1> QED  BY ONLY <1>2, <1>3, Zenon

LEMMA OutputWriteChar ==
  ASSUME Inv, Outputting, WriteChar
  PROVE  Outputting'
<1>1. /\ out \in Seq(Byte) /\ outEncoding \in Encodings /\ text \in Seq(CodePoint) /\ written \in Nat
      /\ written + 1 <= Len(text) /\ OutputOf(out, outEncoding, outBom, text, written)
  <2>1. Len(text) \in Nat
    BY LenProperties DEF Inv, TypeOK
  <2> QED  BY <2>1 DEF Inv, TypeOK, WriteChar, Outputting
<1>2. OutputOf(out \o write_char(outEncoding, text[written + 1]), outEncoding, outBom, text, written + 1)
  BY <1>1, OutputGrows
<1>3. /\ out' = out \o write_char(outEncoding, text[written + 1]) /\ written' = written + 1
      /\ outEncoding' = outEncoding /\ outBom' = outBom /\ text' = text
  BY DEF WriteChar
<1>4. OutputOf(out', outEncoding', outBom', text', written')
  BY ONLY <1>2, <1>3, Zenon
<1> QED  BY <1>4 DEF Outputting

-----------------------------------------------------------------------------
(* The second run                                                          *)

\* A text the next run can take for what it is.
Fitting(t, e) == Encodable(e, t) /\ NoOwnBom(t)

\* The options lead from the encoding and BOM of a file to those of its output; once there,
\* they lead nowhere else.
Chosen(e, b) ==
  /\ e \in Utf16s => b /\ ~options.force
  /\ e = "ASCII" => ~b /\ ~options.force
  /\ e = "BYTES" => ~b /\ ~options.force /\ ~options.byte
  /\ e = "UTF8" => IF b THEN options.bom # "remove" ELSE options.bom \in {"ignore", "remove"}

\* The file is the output t of the first run.
Stored(t, e) ==
  /\ outEncoding = e /\ Chosen(e, outBom) /\ OutputOf(raw, e, outBom, t, Len(t)) /\ ZeroAtEnd(t)
  /\ e = "ASCII" => Plain(t)
  /\ e = "BYTES" => Stuck(raw) /\ raw = t /\ NoBom(raw)

\* The beginning of t has been read.
SoFar(t, e) == \E b : b = outBom /\ Begun(t, e, b)

\* decode_utf8() reads the text, or what it will give up.
AsUtf8(t, e) == (e = "UTF8" /\ SoFar(t, e)) \/ (e = "BYTES" /\ Path(raw, idx))

\* The text has been read; UTF-8 may have been taken for ASCII.
AsBefore(t, e) ==
  /\ data = t
  /\ encoding = e \/ (e = "UTF8" /\ encoding = "ASCII" /\ ~outBom /\ \A i \in 1 .. Len(t) : t[i] < 128)

Second(t, e) ==
  /\ place # "error"
  /\ place # "write" => Stored(t, e)
  /\ place \notin {"bom", "write"} => hasBom = outBom
  /\ place = "guess" => ~outBom
  /\ place = "utf8" => AsUtf8(t, e)
  /\ place = "utf16" => encoding = e /\ e \in Utf16s /\ SoFar(t, e)
  /\ place = "loaded" => AsBefore(t, e)
  /\ place = "write" => text = t /\ OutputOf(raw, outEncoding, outBom, t, Len(t))

SecondRun ==
  \A t \in Seq(CodePoint), e \in Encodings :
    earlier = <<[text |-> t, encoding |-> e]>> /\ Fits(t, e) => Second(t, e)

LEMMA FittingIs ==
  ASSUME NEW t \in Seq(CodePoint), NEW e, Fits(t, e)
  PROVE  Fitting(t, e)
<1>1. DOMAIN t = 1 .. Len(t)
  BY LenProperties
<1> QED  BY <1>1 DEF Fits, Fitting, Encodable, NoOwnBom

LEMMA StoredStays ==
  ASSUME NEW t, NEW e, Stored(t, e), UNCHANGED <<options, raw, outEncoding, outBom>>
  PROVE  Stored(t, e)'
  BY DEF Stored, Chosen

\* Before the first character.
LEMMA SoFarFirst ==
  ASSUME NEW t \in Seq(CodePoint), NEW e, OutputOf(raw, e, outBom, t, Len(t)),
         data' = <<>>, idx' = Len(Bom(e, outBom)), raw' = raw, outBom' = outBom
  PROVE  SoFar(t, e)'
<1>1. PICK b : b = outBom
  OBVIOUS
<1>2. Begun(t, e, b)'
  BY ONLY <1>1, t \in Seq(CodePoint), OutputOf(raw, e, outBom, t, Len(t)), data' = <<>>, idx' = Len(Bom(e, outBom)),
          raw' = raw, BegunFirst
<1> QED  BY <1>1, <1>2 DEF SoFar

LEMMA SecondDetectBom ==
  ASSUME Inv, NEW t \in Seq(CodePoint), NEW e \in Encodings, Fitting(t, e), Second(t, e), DetectBom
  PROVE  Second(t, e)'
<1>1. /\ raw \in Seq(Byte) /\ outBom \in BOOLEAN /\ place = "bom" /\ Stored(t, e)
      /\ OutputOf(raw, e, outBom, t, Len(t)) /\ Chosen(e, outBom) /\ Len(raw) \in Nat
  BY LenProperties DEF Inv, TypeOK, DetectBom, Second, Stored
<1>2. UNCHANGED <<options, raw, outEncoding, outBom>> /\ data' = <<>>
  BY DEF DetectBom, Decode, output
<1>3. Stored(t, e)'
  BY <1>1, <1>2, StoredStays
<1>4. CASE outBom
  <2>1. e \in Utf16s \cup {"UTF8"} /\ outBom = TRUE
    BY <1>1, <1>4 DEF Chosen, Utf16s, Encodings
  <2>2. OutputOf(raw, e, TRUE, t, Len(t))
    BY ONLY <1>1, <2>1, Zenon
  <2>3. /\ encoding' = e /\ hasBom' = TRUE /\ Begun(t, e, TRUE)'
        /\ place' = IF e = "UTF8" THEN "utf8" ELSE "utf16"
    BY <2>1, <2>2, TextDetectBom
  <2>4. SoFar(t, e)' /\ hasBom' = outBom'
    BY <1>2, <2>1, <2>3 DEF SoFar
  <2>5. CASE e = "UTF8"
    <3>1. AsUtf8(t, e)'
      BY <2>4, <2>5 DEF AsUtf8
    <3> QED  BY <1>3, <2>3, <2>4, <2>5, <3>1 DEF Second
  <2>6. CASE e \in Utf16s
    BY <1>3, <2>3, <2>4, <2>6 DEF Second, Utf16s
  <2> QED  BY <2>1, <2>5, <2>6
<1>5. CASE ~outBom
  <2>1. e \in {"UTF8", "ASCII", "BYTES"} /\ outBom = FALSE
    BY <1>1, <1>5 DEF Chosen, Utf16s, Encodings
  <2>2. decode_bom = "ASCII"
    <3>1. OutputOf(raw, e, FALSE, t, Len(t))
      BY ONLY <1>1, <2>1, Zenon
    <3>2. CASE e = "UTF8"
      <4>1. Sound(t)
        BY <3>2, EncodableInUtf8 DEF Fitting
      <4>2. NoOwnBom(t) /\ OutputOf(raw, "UTF8", FALSE, t, Len(t))
        BY <3>1, <3>2 DEF Fitting
      <4> QED  BY <1>1, <4>1, <4>2, NoBomOfUtf8
    <3>3. CASE e = "ASCII"
      <4>1. Plain(t) /\ \A i \in 1 .. Len(t) : t[i] < 256
        <5>1. Plain(t)
          BY <1>1, <3>3 DEF Stored
        <5>2. \A i \in 1 .. Len(t) : t[i] \in Nat
          BY ElementOfSeq, CodePointBounds
        <5> QED  BY <5>1, <5>2 DEF Plain
      <4>2. raw = t
        BY <1>1, <3>1, <3>3, <4>1, AsciiOutput
      <4>3. NoBom(raw)
        BY <1>1, <4>1, <4>2, PlainIsAscii
      <4> QED  BY <1>1, <4>3, NoBomIs
    <3>4. CASE e = "BYTES"
      <4>1. NoBom(raw)
        BY <1>1, <3>4 DEF Stored
      <4> QED  BY <1>1, <4>1, NoBomIs
    <3> QED  BY <2>1, <3>2, <3>3, <3>4
  <2>3. Decode("guess", 0)
    BY <2>2 DEF DetectBom
  <2>4. place' = "guess"
    BY <2>3 DEF Decode
  <2>5. hasBom' = FALSE
    BY <2>2 DEF DetectBom
  <2>6. outBom' = FALSE
    BY <1>2, <2>1
  <2> QED  BY <1>3, <2>4, <2>5, <2>6 DEF Second
<1> QED  BY <1>4, <1>5

LEMMA SecondGuess ==
  ASSUME Inv, NEW t \in Seq(CodePoint), NEW e \in Encodings, Fitting(t, e), Second(t, e), Guess
  PROVE  Second(t, e)'
<1>1. /\ raw \in Seq(Byte) /\ outBom = FALSE /\ place = "guess" /\ Stored(t, e) /\ hasBom = outBom
      /\ OutputOf(raw, e, outBom, t, Len(t)) /\ Chosen(e, outBom) /\ ZeroAtEnd(t)
  BY DEF Inv, TypeOK, Guess, Second, Stored
<1>2. UNCHANGED <<options, raw, hasBom, outEncoding, outBom>>
  BY DEF Guess, Decode, DecodeBytes, output
<1>3. Stored(t, e)' /\ hasBom' = outBom'
  BY <1>1, <1>2, StoredStays
<1>4. e \in {"UTF8", "ASCII", "BYTES"} /\ OutputOf(raw, e, FALSE, t, Len(t))
  <2>1. e \in {"UTF8", "ASCII", "BYTES"}
    BY <1>1 DEF Chosen, Utf16s, Encodings
  <2>2. OutputOf(raw, e, FALSE, t, Len(t))
    BY ONLY <1>1, Zenon
  <2> QED  BY <2>1, <2>2
<1>5. ASSUME is_ascii, raw = t, e # "BYTES", e = "UTF8" => \A i \in 1 .. Len(t) : t[i] < 128
      PROVE  Second(t, e)'
  <2>1. place' = "loaded" /\ encoding' = "ASCII" /\ data' = raw
    BY <1>5 DEF Guess, DecodeBytes
  <2>2. ~outBom'
    BY <1>1, <1>2
  <2>3. AsBefore(t, e)'
    BY <1>4, <1>5, <2>1, <2>2 DEF AsBefore
  <2> QED  BY <1>3, <2>1, <2>3 DEF Second
<1>6. ASSUME ~is_ascii, GuessUtf16 = "ASCII", e # "ASCII"
      PROVE  Second(t, e)'
  <2>1. Decode("utf8", 0)
    BY <1>6 DEF Guess
  <2>2. place' = "utf8" /\ idx' = 0 /\ data' = <<>>
    BY <2>1 DEF Decode
  <2>3. CASE e = "UTF8"
    <3>1. Len(Bom(e, outBom)) = 0
      BY <1>1, EmptySeq DEF Bom
    <3>2. SoFar(t, e)'
      BY <1>1, <1>2, <2>2, <3>1, SoFarFirst
    <3>3. AsUtf8(t, e)'
      BY <2>3, <3>2 DEF AsUtf8
    <3> QED  BY <1>3, <2>2, <3>3 DEF Second
  <2>4. CASE e = "BYTES"
    <3>1. Path(raw', 0)
      BY PathFirst
    <3>2. AsUtf8(t, e)'
      BY <2>2, <2>4, <3>1 DEF AsUtf8
    <3> QED  BY <1>3, <2>2, <3>2 DEF Second
  <2> QED  BY <1>4, <1>6, <2>3, <2>4
<1>7. CASE e = "UTF8"
  <2>1. Sound(t) /\ OutputOf(raw, "UTF8", FALSE, t, Len(t))
    BY <1>4, <1>7, EncodableInUtf8 DEF Fitting
  <2>2. CASE is_ascii
    <3>1. raw = t /\ \A i \in 1 .. Len(t) : t[i] < 128
      BY <1>1, <2>1, <2>2, AsciiOfUtf8
    <3> QED  BY <1>5, <1>7, <2>2, <3>1
  <2>3. CASE ~is_ascii
    <3>1. ZeroAtEnd(raw)
      BY <1>1, <2>1, ZerosOfUtf8
    <3>2. GuessUtf16 = "ASCII"
      BY <1>1, <3>1, NoGuess
    <3> QED  BY <1>6, <1>7, <2>3, <3>2
  <2> QED  BY <2>2, <2>3
<1>8. CASE e = "ASCII"
  <2>1. Plain(t)
    BY <1>1, <1>8 DEF Stored
  <2>2. \A i \in 1 .. Len(t) : t[i] < 256
    <3>1. \A i \in 1 .. Len(t) : t[i] \in Nat
      BY ElementOfSeq, CodePointBounds
    <3> QED  BY <2>1, <3>1 DEF Plain
  <2>3. raw = t
    BY <1>1, <1>4, <1>8, <2>2, AsciiOutput
  <2>4. is_ascii
    BY <1>1, <2>1, <2>3, PlainIsAscii
  <2> QED  BY <1>5, <1>8, <2>3, <2>4
<1>9. CASE e = "BYTES"
  <2>1. Stuck(raw) /\ raw = t
    BY <1>1, <1>9 DEF Stored
  <2>2. ~is_ascii
    BY <1>1, <2>1, StuckIsNoAscii
  <2>3. GuessUtf16 = "ASCII"
    BY <1>1, <2>1, NoGuess
  <2> QED  BY <1>6, <1>9, <2>2, <2>3
<1> QED  BY <1>4, <1>7, <1>8, <1>9

LEMMA SecondReadUtf8 ==
  ASSUME Inv, NEW t \in Seq(CodePoint), NEW e \in Encodings, Fitting(t, e), Second(t, e), ReadUtf8
  PROVE  Second(t, e)'
<1> DEFINE k == CharCnt(raw[idx + 1])
<1>1. /\ raw \in Seq(Byte) /\ idx \in Nat /\ idx < Len(raw) /\ place = "utf8" /\ Stored(t, e)
      /\ hasBom = outBom /\ AsUtf8(t, e)
  BY DEF Inv, TypeOK, ReadUtf8, Second
<1>2. /\ ValidUtf8(k) => Push(Utf8At(k), k)
      /\ ~ValidUtf8(k) /\ ~hasBom => DecodeBytes("BYTES")
  BY DEF ReadUtf8
<1>3. UNCHANGED <<options, raw, hasBom, outEncoding, outBom>>
  BY DEF ReadUtf8, Push, Decode, DecodeBytes, output
<1>4. Stored(t, e)' /\ hasBom' = outBom'
  BY <1>1, <1>3, StoredStays
<1>5. Passes(raw, idx) <=> ValidUtf8(k)
  BY <1>1, PassesIs
<1> HIDE DEF k
<1>6. CASE e = "UTF8" /\ SoFar(t, e)
  <2>1. PICK b : b = outBom /\ Begun(t, "UTF8", b)
    BY <1>6 DEF SoFar
  <2>2. Encodable("UTF8", t)
    BY <1>6 DEF Fitting
  <2>3. Begun(t, "UTF8", b)' /\ place' = "utf8"
    BY <2>1, <2>2, TextReadUtf8
  <2>4. SoFar(t, e)'
    BY <1>3, <1>6, <2>1, <2>3 DEF SoFar
  <2>5. AsUtf8(t, e)'
    BY <1>6, <2>4 DEF AsUtf8
  <2> QED  BY <1>4, <2>3, <2>5 DEF Second
<1>7. CASE e = "BYTES" /\ Path(raw, idx)
  <2>1. CASE ValidUtf8(k)
    <3>1. place' = "utf8" /\ idx' = idx + k /\ raw' = raw
      BY <1>1, <1>2, <2>1 DEF Push
    <3>2. Path(raw, idx + k)
      BY <1>1, <1>5, <1>7, <2>1, PathNext DEF k
    <3>3. Path(raw', idx')
      BY ONLY <3>1, <3>2, Zenon
    <3>4. AsUtf8(t, e)'
      BY <1>7, <3>3 DEF AsUtf8
    <3> QED  BY <1>4, <3>1, <3>4 DEF Second
  <2>2. CASE ~ValidUtf8(k)
    <3>1. ~hasBom
      BY <1>1, <1>7 DEF Stored, Chosen
    <3>2. DecodeBytes("BYTES")
      BY <1>2, <2>2, <3>1
    <3>3. place' = "loaded" /\ encoding' = "BYTES" /\ data' = raw
      BY <3>2 DEF DecodeBytes
    <3>4. raw = t
      BY <1>1, <1>7 DEF Stored
    <3>5. AsBefore(t, e)'
      BY <1>7, <3>3, <3>4 DEF AsBefore
    <3> QED  BY <1>4, <3>3, <3>5 DEF Second
  <2> QED  BY <2>1, <2>2
<1> QED  BY <1>1, <1>6, <1>7 DEF AsUtf8

LEMMA SecondReadUtf16 ==
  ASSUME Inv, NEW t \in Seq(CodePoint), NEW e \in Encodings, Fitting(t, e), Second(t, e), ReadUtf16
  PROVE  Second(t, e)'
<1>1. place = "utf16" /\ Stored(t, e) /\ hasBom = outBom /\ encoding = e /\ e \in Utf16s
  BY DEF ReadUtf16, Second
<1>2. PICK b : b = outBom /\ Begun(t, e, b)
  BY <1>1 DEF Second, SoFar
<1>3. Begun(t, e, b)' /\ UNCHANGED <<options, raw, encoding, hasBom, place, outEncoding, outBom, known, earlier>>
  BY <1>1, <1>2, TextReadUtf16 DEF Fitting
<1>4. Stored(t, e)' /\ hasBom' = outBom'
  BY <1>1, <1>3, StoredStays
<1>5. SoFar(t, e)'
  BY <1>2, <1>3 DEF SoFar
<1> QED  BY <1>1, <1>3, <1>4, <1>5 DEF Second

LEMMA SecondEndOfFile ==
  ASSUME Inv, NEW t \in Seq(CodePoint), NEW e \in Encodings, Fitting(t, e), Second(t, e), EndOfFile
  PROVE  Second(t, e)'
<1>1. /\ raw \in Seq(Byte) /\ place \in {"utf8", "utf16"} /\ idx = Len(raw) /\ Stored(t, e) /\ hasBom = outBom
      /\ place = "utf8" => AsUtf8(t, e)
      /\ place = "utf16" => encoding = e /\ SoFar(t, e)
  BY DEF Inv, TypeOK, EndOfFile, Second
<1>2. /\ UNCHANGED <<options, raw, data, hasBom, outEncoding, outBom>> /\ place' = "loaded"
      /\ encoding' = IF place = "utf8" THEN "UTF8" ELSE encoding
  BY DEF EndOfFile, output
<1>3. Stored(t, e)' /\ hasBom' = outBom'
  BY <1>1, <1>2, StoredStays
<1>4. SoFar(t, e) /\ encoding' = e
  <2>1. CASE place = "utf8"
    <3>1. ~(e = "BYTES" /\ Path(raw, idx))
      <4> SUFFICES ASSUME e = "BYTES", Path(raw, Len(raw)) PROVE FALSE
        BY <1>1
      <4>1. Stuck(raw)
        BY <1>1 DEF Stored
      <4> QED  BY <1>1, <4>1, PathEnds
    <3> QED  BY <1>1, <1>2, <2>1, <3>1 DEF AsUtf8
  <2>2. CASE place = "utf16"
    BY <1>1, <1>2, <2>2
  <2> QED  BY <1>1, <2>1, <2>2
<1>5. data = t
  BY <1>1, <1>4, BegunEnds DEF Fitting, SoFar
<1>6. AsBefore(t, e)'
  BY <1>2, <1>4, <1>5 DEF AsBefore
<1> QED  BY <1>2, <1>3, <1>6 DEF Second

LEMMA SecondBegin ==
  ASSUME Inv, NEW t \in Seq(CodePoint), NEW e \in Encodings, Fitting(t, e), Second(t, e), Begin, earlier # <<>>
  PROVE  Second(t, e)'
<1>1. /\ place = "loaded" /\ Stored(t, e) /\ hasBom = outBom /\ AsBefore(t, e) /\ raw \in Seq(Byte)
      /\ outBom \in BOOLEAN
  BY DEF Inv, TypeOK, Begin, Second
<1>2. Chosen(e, outBom) /\ OutputOf(raw, e, outBom, t, Len(t)) /\ ZeroAtEnd(t)
  BY <1>1 DEF Stored
<1>3. ~EmbeddedZero
  BY <1>1, <1>2 DEF EmbeddedZero, ZeroAtEnd, AsBefore
<1>4. /\ place' = "write" /\ text' = <<>> \o data /\ raw' = raw
      /\ outEncoding' = OutEncoding /\ outBom' = OutBom
  BY <1>3 DEF Begin, file
<1>5. text' = t
  <2>1. <<>> \o t = t
    BY ConcatEmptySeq
  <2> QED  BY <1>1, <1>4, <2>1 DEF AsBefore
<1>6. CASE encoding = e
  <2>1. OutEncoding = e
    BY <1>2, <1>6 DEF OutEncoding, Chosen, Utf16s, Encodings
  <2>2. OutBom = outBom
    BY <1>1, <1>2, <2>1 DEF OutBom, Chosen, Utf16s, Encodings
  <2>3. OutputOf(raw', outEncoding', outBom', t, Len(t))
    BY ONLY <1>2, <1>4, <2>1, <2>2, Zenon
  <2> QED  BY <1>4, <1>5, <2>3 DEF Second
<1>7. CASE e = "UTF8" /\ encoding = "ASCII" /\ ~outBom /\ \A i \in 1 .. Len(t) : t[i] < 128
  <2>1. OutBom = outBom /\ outBom = FALSE /\ OutEncoding \in {"UTF8", "ASCII"}
    BY <1>1, <1>2, <1>7 DEF OutEncoding, OutBom, Chosen
  <2>2. OutputOf(raw, OutEncoding, OutBom, t, Len(t))
    <3>1. OutputOf(raw, "UTF8", FALSE, t, Len(t))
      BY ONLY <1>2, <1>7, <2>1, Zenon
    <3>2. OutputOf(raw, "ASCII", FALSE, t, Len(t))
      <4>1. Bom("UTF8", FALSE) = Bom("ASCII", FALSE)
        BY DEF Bom
      <4>2. \A i \in 1 .. Len(t) : write_char("UTF8", t[i]) = write_char("ASCII", t[i])
        <5> SUFFICES ASSUME NEW i \in 1 .. Len(t) PROVE write_char("UTF8", t[i]) = write_char("ASCII", t[i])
          OBVIOUS
        <5>1. t[i] \in Nat /\ t[i] < 128
          BY <1>7, ElementOfSeq, CodePointBounds
        <5>2. encode_utf8(t[i]) = <<t[i]>>
          BY <5>1, EncodeOne
        <5>3. t[i] \in Byte
          BY <5>1, ByteBounds
        <5> QED  BY <5>2, <5>3 DEF write_char, write_byte
      <4>3. Len(t) \in Nat
        BY LenProperties
      <4> QED  BY <3>1, <4>1, <4>2, <4>3, WrittenAlike
    <3>3. CASE OutEncoding = "UTF8"
      BY ONLY <2>1, <3>1, <3>3, Zenon
    <3>4. CASE OutEncoding = "ASCII"
      BY ONLY <2>1, <3>2, <3>4, Zenon
    <3> QED  BY <2>1, <3>3, <3>4
  <2>3. OutputOf(raw', outEncoding', outBom', t, Len(t))
    BY ONLY <1>4, <2>2, Zenon
  <2> QED  BY <1>4, <1>5, <2>3 DEF Second
<1> QED  BY <1>1, <1>6, <1>7 DEF AsBefore

\* Nothing of it changes while it writes.
LEMMA SecondStays ==
  ASSUME NEW t, NEW e, Second(t, e),
         UNCHANGED <<options, raw, data, encoding, hasBom, idx, place, outEncoding, outBom, text>>
  PROVE  Second(t, e)'
<1>1. Stored(t, e)' = Stored(t, e) /\ SoFar(t, e)' = SoFar(t, e)
  BY DEF Stored, Chosen, SoFar, Begun
<1>2. AsUtf8(t, e)' = AsUtf8(t, e) /\ AsBefore(t, e)' = AsBefore(t, e)
  BY <1>1 DEF AsUtf8, AsBefore
<1> QED  BY <1>1, <1>2 DEF Second

\* An element of a concatenation is of one of its parts.
LEMMA OfParts ==
  ASSUME NEW h \in Seq(CodePoint), NEW d \in Seq(CodePoint), NEW i \in 1 .. Len(h \o d)
  PROVE  \/ \E j \in 1 .. Len(h) : i = j /\ (h \o d)[i] = h[j]
         \/ \E j \in 1 .. Len(d) : Len(h \o d) - i = Len(d) - j /\ (h \o d)[i] = d[j]
<1> DEFINE t == h \o d
           a == Len(h)
           b == Len(d)
<1>1. a \in Nat /\ b \in Nat /\ Len(t) = a + b
  BY LenProperties, ConcatProperties
<1>2. i \in 1 .. a + b /\ t[i] = IF i <= a THEN h[i] ELSE d[i - a]
  BY <1>1, ConcatProperties
<1> HIDE DEF t, a, b
<1>3. CASE i <= a
  <2>1. i \in 1 .. a /\ t[i] = h[i]
    BY <1>1, <1>2, <1>3
  <2> QED  BY <2>1 DEF t, a
<1>4. CASE ~(i <= a)
  <2> DEFINE j == i - a
  <2>1. j \in 1 .. b /\ Len(t) - i = b - j /\ t[i] = d[j]
    BY <1>1, <1>2, <1>4
  <2> HIDE DEF j
  <2> QED  BY <2>1 DEF t, b
<1> QED  BY <1>3, <1>4

\* What the first run writes is what the second one knows of its file.
LEMMA SecondRunBegins ==
  ASSUME Inv, FirstRun, Outputting, RunAgain
  PROVE  SecondRun'
<1> SUFFICES ASSUME NEW t \in Seq(CodePoint), NEW e \in Encodings,
                    earlier' = <<[text |-> t, encoding |-> e]>>, Fits(t, e)'
             PROVE  Second(t, e)'
  BY DEF SecondRun
<1>1. /\ place = "write" /\ written = Len(text) /\ earlier = <<>> /\ earlier' = <<[text |-> text, encoding |-> outEncoding]>>
      /\ raw' = out /\ place' = "bom" /\ UNCHANGED <<options, outEncoding, outBom, text>>
  BY DEF RunAgain, output
<1>2. t = text /\ e = outEncoding
  <2>1. <<[text |-> t, encoding |-> e]>>[1] = <<[text |-> text, encoding |-> outEncoding]>>[1]
    BY <1>1
  <2>2. [text |-> t, encoding |-> e] = [text |-> text, encoding |-> outEncoding]
    BY <2>1
  <2>3. [text |-> t, encoding |-> e].text = [text |-> text, encoding |-> outEncoding].text
    BY ONLY <2>2
  <2>4. [text |-> t, encoding |-> e].encoding = [text |-> text, encoding |-> outEncoding].encoding
    BY ONLY <2>2
  <2> QED  BY <2>3, <2>4
<1>3. Fits(t, e)
  BY <1>1 DEF Fits
<1> DEFINE h == options.header
<1>4. /\ h \in Seq(CodePoint) /\ data \in Seq(CodePoint) /\ raw \in Seq(Byte) /\ out \in Seq(Byte)
      /\ hasBom \in BOOLEAN /\ outBom \in BOOLEAN /\ encoding \in Encodings
  BY DEF Inv, TypeOK
<1>5. /\ Loaded /\ ToWrite /\ (~hasBom => NoBom(raw))
  BY <1>1 DEF FirstRun
<1>6. t = h \o data /\ ~EmbeddedZero /\ e = OutEncoding /\ outBom = OutBom
  BY <1>2, <1>5 DEF ToWrite
<1>7. Len(h) \in Nat /\ Len(data) \in Nat /\ DOMAIN h = 1 .. Len(h)
  BY <1>4, LenProperties
<1>8. /\ \A i \in 1 .. Len(h) : h[i] # 0 /\ h[i] \in Nat
      /\ e \in {"ASCII", "BYTES"} => \A i \in 1 .. Len(h) : h[i] < 128
  <2>1. \A i \in 1 .. Len(h) : h[i] \in Nat
    BY <1>4, ElementOfSeq, CodePointBounds
  <2> QED  BY <1>3, <1>7, <2>1 DEF Fits
<1>9. Encodable(e, t)
  BY <1>3, FittingIs DEF Fitting
<1>10. OutputOf(out, e, outBom, t, Len(t))
  <2>1. OutputOf(out, outEncoding, outBom, text, written)
    BY <1>1 DEF Outputting
  <2> QED  BY ONLY <1>1, <1>2, <2>1, Zenon
<1> HIDE DEF h
<1>11. Chosen(e, outBom)
  BY <1>4, <1>5, <1>6 DEF Chosen, OutEncoding, OutBom, Loaded, Utf16s, Encodings
<1>12. ZeroAtEnd(t)
  <2> SUFFICES ASSUME NEW i \in 1 .. Len(t) - 1, t[i] = 0 PROVE FALSE
    BY DEF ZeroAtEnd
  <2>1. i \in 1 .. Len(t) /\ Len(t) \in Nat /\ i < Len(t)
    BY LenProperties
  <2>2. PICK j \in 1 .. Len(data) : Len(t) - i = Len(data) - j /\ t[i] = data[j]
    BY <1>4, <1>6, <1>8, <2>1, OfParts
  <2>3. j \in 1 .. Len(data) - 1 /\ data[j] = 0
    BY <1>7, <2>1, <2>2
  <2> QED  BY <1>6, <2>3 DEF EmbeddedZero
<1>13. ASSUME e = "ASCII" PROVE Plain(t)
  <2>1. encoding = "ASCII"
    BY <1>6, <1>13 DEF OutEncoding
  <2>2. Plain(data)
    BY <1>5, <2>1 DEF Loaded
  <2>3. \A i \in 1 .. Len(h) : 0 < h[i] /\ h[i] < 128
    BY <1>8, <1>13
  <2>4. \A i \in 1 .. Len(t) : 0 < t[i] /\ t[i] < 128
    BY <1>4, <1>6, <2>2, <2>3, OfParts DEF Plain
  <2> QED  BY <2>4 DEF Plain
<1>14. ASSUME e = "BYTES" PROVE Stuck(out) /\ out = t /\ NoBom(out)
  <2>1. encoding = "BYTES" /\ outBom = FALSE
    BY <1>4, <1>6, <1>11, <1>14 DEF OutEncoding, Chosen
  <2>2. data = raw /\ Stuck(raw) /\ NoBom(raw)
    BY <1>5, <2>1 DEF Loaded
  <2>3. \A i \in 1 .. Len(h) : h[i] < 128 /\ h[i] \in Byte
    BY <1>8, <1>14, ByteBounds
  <2>4. h \in Seq(Byte)
    <3>1. h \in [1 .. Len(h) -> CodePoint]
      BY <1>4, LenProperties
    <3>2. h \in [1 .. Len(h) -> Byte]
      BY <2>3, <3>1
    <3> QED  BY <1>7, <3>2, SeqDef
  <2>5. Stuck(t) /\ NoBom(t)
    BY <1>4, <1>6, <2>2, <2>3, <2>4, StuckBehind, NoBomBehind
  <2>6. OutputOf(out, e, FALSE, t, Len(t))
    BY ONLY <1>10, <2>1, Zenon
  <2>7. \A i \in 1 .. Len(t) : t[i] < 256
    BY <1>9, <1>14, LowBytes
  <2>8. out = t
    BY <1>4, <1>14, <2>6, <2>7, AsciiOutput
  <2> QED  BY <2>5, <2>8
<1>15. Stored(t, e)'
  <2>1. Chosen(e, outBom)'
    BY <1>1, <1>11 DEF Chosen
  <2>2. OutputOf(raw', e, outBom', t, Len(t))
    BY ONLY <1>1, <1>10, Zenon
  <2>3. e = "BYTES" => Stuck(raw') /\ raw' = t /\ NoBom(raw')
    BY <1>1, <1>14
  <2>4. outEncoding' = e
    BY <1>1, <1>2
  <2> QED  BY <1>12, <1>13, <2>1, <2>2, <2>3, <2>4 DEF Stored
<1> QED  BY <1>1, <1>15 DEF Second

\* The invariant of the two runs.
TwoRuns == Inv /\ FirstRun /\ Outputting /\ SecondRun

LEMMA TwoRunsStart == Init => TwoRuns
<1> SUFFICES ASSUME Init PROVE TwoRuns
  OBVIOUS
<1>1. place = "bom" /\ earlier = <<>>
  BY DEF Init
<1>2. \A t, e : earlier # <<[text |-> t, encoding |-> e]>>
  BY <1>1
<1>3. SecondRun
  BY <1>2 DEF SecondRun
<1> QED  BY <1>1, <1>3, Starts DEF TwoRuns, FirstRun, Outputting

\* The second run goes on as it began, if each step keeps what is known of it.
LEMMA SecondRunGoesOn ==
  ASSUME SecondRun, earlier' = earlier, options' = options,
         \A t \in Seq(CodePoint), e \in Encodings : earlier # <<>> /\ Fitting(t, e) /\ Second(t, e) => Second(t, e)'
  PROVE  SecondRun'
<1> SUFFICES ASSUME NEW t \in Seq(CodePoint), NEW e \in Encodings,
                    earlier' = <<[text |-> t, encoding |-> e]>>, Fits(t, e)'
             PROVE  Second(t, e)'
  BY DEF SecondRun
<1>1. earlier = <<[text |-> t, encoding |-> e]>> /\ earlier # <<>>
  OBVIOUS
<1>2. Fits(t, e)
  BY DEF Fits
<1>3. Fitting(t, e)
  BY <1>2, FittingIs
<1>4. Second(t, e)
  BY <1>1, <1>2 DEF SecondRun
<1> QED  BY <1>1, <1>3, <1>4

LEMMA TwoRunsGoOn == TwoRuns /\ [Next]_vars => TwoRuns'
<1> SUFFICES ASSUME TwoRuns, [Next]_vars PROVE TwoRuns'
  OBVIOUS
<1>0. Inv /\ Inv' /\ FirstRun /\ Outputting /\ SecondRun
  BY Continues DEF TwoRuns
<1>1. CASE DetectBom
  <2>1. earlier' = earlier /\ options' = options /\ place' # "write"
    BY <1>1 DEF DetectBom, Decode
  <2>2. FirstRun'
    BY <1>0, <1>1, FirstDetectBom
  <2>3. SecondRun'
    BY <1>0, <1>1, <2>1, SecondDetectBom, SecondRunGoesOn
  <2> QED  BY <1>0, <2>1, <2>2, <2>3 DEF TwoRuns, Outputting
<1>2. CASE Guess
  <2>1. earlier' = earlier /\ options' = options /\ place' # "write"
    BY <1>2 DEF Guess, Decode, DecodeBytes
  <2>2. FirstRun'
    BY <1>0, <1>2, FirstGuess
  <2>3. SecondRun'
    BY <1>0, <1>2, <2>1, SecondGuess, SecondRunGoesOn
  <2> QED  BY <1>0, <2>1, <2>2, <2>3 DEF TwoRuns, Outputting
<1>3. CASE ReadUtf8
  <2>1. earlier' = earlier /\ options' = options /\ place' # "write"
    BY <1>3 DEF ReadUtf8, Push, Decode, DecodeBytes
  <2>2. FirstRun'
    BY <1>0, <1>3, FirstReadUtf8
  <2>3. SecondRun'
    BY <1>0, <1>3, <2>1, SecondReadUtf8, SecondRunGoesOn
  <2> QED  BY <1>0, <2>1, <2>2, <2>3 DEF TwoRuns, Outputting
<1>4. CASE ReadUtf16
  <2>1. earlier' = earlier /\ options' = options /\ place' # "write"
    BY <1>4 DEF ReadUtf16, Push, Decode
  <2>2. FirstRun'
    BY <1>0, <1>4, FirstReadUtf16
  <2>3. SecondRun'
    BY <1>0, <1>4, <2>1, SecondReadUtf16, SecondRunGoesOn
  <2> QED  BY <1>0, <2>1, <2>2, <2>3 DEF TwoRuns, Outputting
<1>5. CASE EndOfFile
  <2>1. earlier' = earlier /\ options' = options /\ place' # "write"
    BY <1>5 DEF EndOfFile
  <2>2. FirstRun'
    BY <1>0, <1>5, FirstEndOfFile
  <2>3. SecondRun'
    BY <1>0, <1>5, <2>1, SecondEndOfFile, SecondRunGoesOn
  <2> QED  BY <1>0, <2>1, <2>2, <2>3 DEF TwoRuns, Outputting
<1>6. CASE Begin
  <2>1. earlier' = earlier /\ options' = options
    BY <1>6 DEF Begin
  <2>2. FirstRun' /\ Outputting'
    BY <1>0, <1>6, FirstBegin, OutputBegin
  <2>3. SecondRun'
    BY <1>0, <1>6, <2>1, SecondBegin, SecondRunGoesOn
  <2> QED  BY <1>0, <2>2, <2>3 DEF TwoRuns
<1>7. CASE WriteChar
  <2>1. UNCHANGED <<options, raw, data, encoding, hasBom, idx, place, outEncoding, outBom, text, earlier>>
    BY <1>7 DEF WriteChar, file
  <2>2. FirstRun' /\ Outputting'
    BY <1>0, <1>7, <2>1, FirstStays, OutputWriteChar
  <2>3. SecondRun'
    BY <1>0, <2>1, SecondStays, SecondRunGoesOn
  <2> QED  BY <1>0, <2>2, <2>3 DEF TwoRuns
<1>8. CASE RunAgain
  <2>1. place' = "bom" /\ earlier' # <<>>
    BY <1>8 DEF RunAgain
  <2>2. SecondRun'
    BY <1>0, <1>8, SecondRunBegins
  <2> QED  BY <1>0, <2>1, <2>2 DEF TwoRuns, FirstRun, Outputting
<1>9. CASE UNCHANGED vars
  <2>1. UNCHANGED <<options, raw, data, encoding, hasBom, idx, place, outEncoding, outBom, text, earlier, out, written>>
    BY <1>9 DEF vars, file, output
  <2>2. FirstRun' /\ Outputting'
    BY <1>0, <2>1, FirstStays DEF Outputting
  <2>3. SecondRun'
    BY <1>0, <2>1, SecondStays, SecondRunGoesOn
  <2> QED  BY <1>0, <2>2, <2>3 DEF TwoRuns
<1> QED  BY <1>1, <1>2, <1>3, <1>4, <1>5, <1>6, <1>7, <1>8, <1>9 DEF Next

LEMMA OnlyElement ==
  ASSUME NEW S, NEW s \in Seq(S), Len(s) <= 1, s # <<>>
  PROVE  s[1] \in S /\ s = <<s[1]>>
<1> DEFINE n == Len(s)
<1>1. n \in Nat /\ n # 0 /\ n <= 1
  BY LenProperties, EmptySeq
<1>2. Len(s) = 1
  <2> HIDE DEF n
  <2>1. n = 1
    BY ONLY <1>1
  <2> QED  BY <2>1 DEF n
<1>3. s[1] \in S
  BY <1>2, ElementOfSeq
<1> QED  BY <1>2, <1>3

\* For every file and all options: the next run takes the output of this one for what it is,
\* reads the same characters and writes the same bytes again, if its encoding holds the text
\* (src/unicode.cpp, uncrustify_file()).
THEOREM ReadBack == Spec => []ReadsBack
<1>1. ASSUME TwoRuns PROVE ReadsBack
  <2> DEFINE t == earlier[1].text
             e == earlier[1].encoding
  <2> SUFFICES ASSUME earlier # <<>>, Fits(t, e)
               PROVE  /\ place # "error"
                      /\ place = "write" => text = t
                      /\ place = "write" /\ written = Len(text) => out = raw
    BY DEF ReadsBack
  <2>1. TypeOK /\ Outputting /\ SecondRun
    BY <1>1 DEF TwoRuns, Inv
  <2>2. t \in Seq(CodePoint) /\ e \in Encodings /\ earlier = <<[text |-> t, encoding |-> e]>>
    <3> DEFINE Outputs == [text : Seq(CodePoint), encoding : Encodings]
    <3>1. earlier \in Seq(Outputs) /\ Len(earlier) <= 1 /\ earlier # <<>>
      BY <2>1 DEF TypeOK
    <3> HIDE DEF Outputs
    <3>2. earlier[1] \in Outputs /\ earlier = <<earlier[1]>>
      BY ONLY <3>1, OnlyElement
    <3>3. earlier[1] \in [text : Seq(CodePoint), encoding : Encodings]
      BY <3>2 DEF Outputs
    <3>4. earlier = <<earlier[1]>>
      BY <3>2
    <3>5. earlier[1] = [text |-> t, encoding |-> e]
      BY <3>3
    <3> QED  BY <3>3, <3>4, <3>5
  <2> HIDE DEF t, e
  <2>3. Second(t, e)
    BY <2>1, <2>2 DEF SecondRun
  <2>4. ASSUME place = "write", written = Len(text) PROVE out = raw
    <3>1. text = t /\ OutputOf(raw, outEncoding, outBom, t, Len(t))
      BY <2>3, <2>4 DEF Second
    <3>2. OutputOf(out, outEncoding, outBom, text, written)
      BY <2>1, <2>4 DEF Outputting
    <3>3. OutputOf(out, outEncoding, outBom, t, Len(t))
      BY ONLY <2>4, <3>1, <3>2, Zenon
    <3> QED  BY <2>1, <2>2, <3>1, <3>3, OneOutput DEF TypeOK
  <2> QED  BY <2>3, <2>4 DEF Second
<1> QED  BY TwoRunsStart, TwoRunsGoOn, <1>1, PTL DEF Spec

-----------------------------------------------------------------------------
(* The encodings of the standard                                           *)

\* The parts of a sequence of sequences, put behind each other.
Joins(f, s, S) ==
  /\ f \in [0 .. Len(s) -> Seq(S)] /\ f[0] = <<>>
  /\ \A i \in 1 .. Len(s) : f[i] = f[i - 1] \o s[i]

\* They can be, up to any of them: by induction over their number.
LEMMA JoinsExist ==
  ASSUME NEW S, NEW s \in Seq(Seq(S))
  PROVE  \E f : Joins(f, s, S)
<1> DEFINE n == Len(s)
           Upon(f, m) == /\ f \in [0 .. m -> Seq(S)] /\ f[0] = <<>>
                         /\ \A i \in 1 .. m : f[i] = f[i - 1] \o s[i]
           K == {m \in Nat : m <= n => \E f : Upon(f, m)}
<1>1. n \in Nat /\ \A i \in 1 .. n : s[i] \in Seq(S)
  BY LenProperties, ElementOfSeq
<1> HIDE DEF n, Upon
<1>2. 0 \in K
  <2>1. Upon([i \in 0 .. 0 |-> <<>>], 0)
    BY DEF Upon
  <2> QED  BY <2>1
<1>3. ASSUME NEW m \in Nat, m \in K PROVE m + 1 \in K
  <2> SUFFICES ASSUME m + 1 <= n PROVE \E f : Upon(f, m + 1)
    OBVIOUS
  <2>1. PICK f : Upon(f, m)
    BY <1>1, <1>3
  <2> USE DEF Upon
  <2> DEFINE v == f[m] \o s[m + 1]
             g == [i \in 0 .. m + 1 |-> IF i <= m THEN f[i] ELSE v]
  <2>2. v \in Seq(S)
    <3>1. m + 1 \in 1 .. n /\ m \in 0 .. m
      BY <1>1
    <3>2. f[m] \in Seq(S) /\ s[m + 1] \in Seq(S)
      BY <1>1, <2>1, <3>1
    <3> QED  BY <3>2, ConcatProperties
  <2> HIDE DEF v
  <2>3. g \in [0 .. m + 1 -> Seq(S)] /\ (\A i \in 0 .. m : g[i] = f[i]) /\ g[m + 1] = v
    BY <2>1, <2>2
  <2> HIDE DEF g
  <2>4. ASSUME NEW i \in 1 .. m + 1 PROVE g[i] = g[i - 1] \o s[i]
    <3>1. CASE i = m + 1
      <4>1. i - 1 = m /\ m \in 0 .. m
        BY <3>1
      <4> QED  BY <2>3, <3>1, <4>1 DEF v
    <3>2. CASE i # m + 1
      <4>1. i \in 1 .. m /\ i - 1 \in 0 .. m /\ i \in 0 .. m
        BY <3>2
      <4> QED  BY <2>1, <2>3, <4>1
    <3> QED  BY <3>1, <3>2
  <2>5. g[0] = <<>>
    BY <2>1, <2>3
  <2> QED  BY <2>3, <2>4, <2>5
<1>4. Nat \subseteq K
  <2> HIDE DEF K
  <2> QED  BY <1>2, <1>3, InductiveSet
<1>5. n \in K
  <2> HIDE DEF K
  <2> QED  BY <1>1, <1>4
<1>6. PICK f : Upon(f, n)
  BY <1>5
<1> QED  BY <1>6 DEF Joins, Upon, n

LEMMA Flattened ==
  ASSUME NEW S, NEW s \in Seq(Seq(S)), NEW f, Joins(f, s, S)
  PROVE  Standard!FlattenSeq(s) = f[Len(s)]
<1> DEFINE n == Len(s)
           Flat(g) == g = [i \in 1 .. n |-> IF i = 1 THEN s[i] ELSE g[i - 1] \o s[i]]
<1>1. /\ n \in Nat /\ f \in [0 .. n -> Seq(S)] /\ f[0] = <<>> /\ \A i \in 1 .. n : s[i] \in Seq(S)
      /\ \A i \in 1 .. n : f[i] = f[i - 1] \o s[i]
  BY LenProperties, ElementOfSeq DEF Joins
<1>2. CASE n = 0
  <2>1. s = <<>>
    BY <1>2, EmptySeq
  <2> QED  BY <1>1, <1>2, <2>1 DEF Standard!FlattenSeq
<1>3. CASE n # 0
  <2>1. Standard!FlattenSeq(s) = (CHOOSE g : Flat(g))[n]
    BY <1>1, <1>3 DEF Standard!FlattenSeq
  <2> HIDE DEF n
  <2> DEFINE fl == [i \in 1 .. n |-> f[i]]
  <2>2. Flat(fl)
    <3>1. ASSUME NEW i \in 1 .. n PROVE fl[i] = IF i = 1 THEN s[i] ELSE fl[i - 1] \o s[i]
      <4>1. CASE i = 1
        <5>0. 1 \in 1 .. n /\ 1 - 1 = 0
          BY <4>1
        <5>1. f[1] = f[1 - 1] \o s[1] /\ s[1] \in Seq(S)
          BY <1>1, <5>0
        <5>2. f[1] = s[1]
          BY <1>1, <5>0, <5>1, ConcatEmptySeq
        <5> QED  BY <4>1, <5>2
      <4>2. CASE i # 1
        <5>1. i - 1 \in 1 .. n
          BY <1>1, <4>2
        <5> QED  BY <1>1, <4>2, <5>1
      <4> QED  BY <4>1, <4>2
    <3>2. fl = [i \in 1 .. n |-> fl[i]]
      OBVIOUS
    <3> HIDE DEF fl
    <3> QED  BY <3>1, <3>2
  <2>3. PICK g : g = (CHOOSE h : Flat(h)) /\ Flat(g)
    <3> HIDE DEF Flat
    <3> QED  BY <2>2
  <2>4. \A i \in 1 .. n : g[i] = IF i = 1 THEN s[i] ELSE g[i - 1] \o s[i]
    <3>1. g = [i \in 1 .. n |-> IF i = 1 THEN s[i] ELSE g[i - 1] \o s[i]]
      BY <2>3
    <3> QED  BY <3>1
  <2> HIDE DEF Flat, fl
  <2> DEFINE K == {i \in Nat : i \in 1 .. n => g[i] = f[i]}
  <2>5. 0 \in K
    OBVIOUS
  <2>6. ASSUME NEW i \in Nat, i \in K PROVE i + 1 \in K
    <3> SUFFICES ASSUME i + 1 \in 1 .. n PROVE g[i + 1] = f[i + 1]
      OBVIOUS
    <3> DEFINE j == i + 1
    <3>1. j \in 1 .. n /\ j - 1 = i
      OBVIOUS
    <3>2. CASE i = 0
      <4>1. j = 1 /\ g[j] = s[j] /\ f[j] = <<>> \o s[j] /\ s[j] \in Seq(S)
        <5> HIDE DEF j
        <5>1. f[j] = f[j - 1] \o s[j] /\ s[j] \in Seq(S) /\ j - 1 = 0
          BY <1>1, <3>1, <3>2
        <5>2. j = 1
          BY <3>2 DEF j
        <5>3. g[j] = s[j]
          BY <2>4, <3>1, <5>2
        <5> QED  BY <1>1, <5>1, <5>2, <5>3
      <4>2. f[j] = s[j]
        BY <4>1, ConcatEmptySeq
      <4> QED  BY <4>1, <4>2
    <3>3. CASE i # 0
      <4>1. i \in 1 .. n /\ j # 1
        BY <1>1, <3>1, <3>3
      <4> HIDE DEF j
      <4>2. g[j] = g[i] \o s[j] /\ f[j] = f[i] \o s[j] /\ g[i] = f[i]
        BY <1>1, <2>4, <2>6, <3>1, <4>1
      <4> QED  BY <4>2 DEF j
    <3> QED  BY <3>2, <3>3
  <2>7. Nat \subseteq K
    <3> HIDE DEF K
    <3> QED  BY <2>5, <2>6, InductiveSet
  <2>8. n \in 1 .. n /\ g[n] = f[n]
    BY <1>1, <1>3, <2>7 DEF n
  <2> QED  BY <2>1, <2>3, <2>8 DEF n
<1> QED  BY <1>2, <1>3

LEMMA FlattenedOne ==
  ASSUME NEW S, NEW x \in Seq(S)
  PROVE  Standard!FlattenSeq(<<x>>) = x
<1> DEFINE s == <<x>>
<1>1. s \in Seq(Seq(S)) /\ Len(s) = 1 /\ s[1] = x
  OBVIOUS
<1> HIDE DEF s
<1>2. PICK f : Joins(f, s, S)
  BY <1>1, JoinsExist
<1>3. f[1] = <<>> \o x /\ Standard!FlattenSeq(s) = f[1]
  <2>1. Standard!FlattenSeq(s) = f[1]
    BY <1>1, <1>2, Flattened
  <2>2. 1 \in 1 .. 1 /\ 1 - 1 = 0
    OBVIOUS
  <2>3. f[1] = f[1 - 1] \o s[1] /\ f[0] = <<>>
    BY <1>1, <1>2, <2>2 DEF Joins
  <2> QED  BY <1>1, <2>1, <2>2, <2>3
<1>4. <<>> \o x = x
  BY ConcatEmptySeq
<1> QED  BY <1>3, <1>4 DEF s

LEMMA FlattenedTwo ==
  ASSUME NEW S, NEW x \in Seq(S), NEW y \in Seq(S)
  PROVE  Standard!FlattenSeq(<<x, y>>) = x \o y
<1> DEFINE s == <<x, y>>
<1>1. s \in Seq(Seq(S)) /\ Len(s) = 2 /\ s[1] = x /\ s[2] = y
  OBVIOUS
<1> HIDE DEF s
<1>2. PICK f : Joins(f, s, S)
  BY <1>1, JoinsExist
<1>3. f[1] = <<>> \o x /\ f[2] = f[1] \o y
  <2>1. 1 \in 1 .. 2 /\ 1 - 1 = 0 /\ 2 \in 1 .. 2 /\ 2 - 1 = 1
    OBVIOUS
  <2>2. f[1] = f[1 - 1] \o s[1] /\ f[2] = f[2 - 1] \o s[2] /\ f[0] = <<>>
    BY <1>1, <1>2, <2>1 DEF Joins
  <2> QED  BY <1>1, <2>1, <2>2
<1>4. <<>> \o x = x
  BY ConcatEmptySeq
<1>5. Standard!FlattenSeq(s) = f[2]
  BY <1>1, <1>2, Flattened
<1> QED  BY <1>3, <1>4, <1>5 DEF s

\* A code point takes as many bytes of UTF-8 as limits it has passed, and one.
LEMMA LimitsPassed ==
  ASSUME NEW c \in Nat
  PROVE  LET n == 1 + Cardinality({limit \in {128, 2048, 65536} : c >= limit})
         IN  /\ c < 128 => n = 1
             /\ 128 <= c /\ c < 2048 => n = 2
             /\ 2048 <= c /\ c < 65536 => n = 3
             /\ 65536 <= c => n = 4
<1> DEFINE L == {limit \in {128, 2048, 65536} : c >= limit}
<1>1. /\ c < 128 => L = {}
      /\ 128 <= c /\ c < 2048 => L = {} \cup {128}
      /\ 2048 <= c /\ c < 65536 => L = ({} \cup {128}) \cup {2048}
      /\ 65536 <= c => L = (({} \cup {128}) \cup {2048}) \cup {65536}
  OBVIOUS
<1>2. IsFiniteSet({}) /\ Cardinality({}) = 0
  BY FS_EmptySet
<1>3. IsFiniteSet({} \cup {128}) /\ Cardinality({} \cup {128}) = 1
  BY <1>2, FS_AddElement
<1>4. IsFiniteSet(({} \cup {128}) \cup {2048}) /\ Cardinality(({} \cup {128}) \cup {2048}) = 2
  <2>1. 2048 \notin {} \cup {128}
    OBVIOUS
  <2> QED  BY <1>3, <2>1, FS_AddElement
<1>5. Cardinality((({} \cup {128}) \cup {2048}) \cup {65536}) = 3
  <2>1. 65536 \notin ({} \cup {128}) \cup {2048}
    OBVIOUS
  <2> QED  BY <1>4, <2>1, FS_AddElement
<1> HIDE DEF L
<1> QED  BY <1>1, <1>2, <1>3, <1>4, <1>5 DEF L

\* The standard's UTF-8 is what encode_utf8() writes.
LEMMA StandardUtf8 ==
  ASSUME NEW c \in Nat, c <= LastCodePoint
  PROVE  Standard!Utf8(c) = encode_utf8(c)
<1> DEFINE n == 1 + Cardinality({limit \in {128, 2048, 65536} : c >= limit})
           marks == <<0, 192, 224, 240>>
           sixes == <<1, 64, 4096, 262144>>
           F(i) == IF i = 1 THEN marks[n] + (c \div sixes[n]) ELSE 128 + ((c \div sixes[n - i + 1]) % 64)
<1>1. Standard!Utf8(c) = [i \in 1 .. n |-> F(i)]
  <2>1. \A L : Standard!Cardinality(L) = Cardinality(L)
    BY DEF Standard!Cardinality, Cardinality, Standard!IsFiniteSet, IsFiniteSet
  <2> QED  BY <2>1 DEF Standard!Utf8
<1>2. /\ c < 128 => n = 1
      /\ 128 <= c /\ c < 2048 => n = 2
      /\ 2048 <= c /\ c < 65536 => n = 3
      /\ 65536 <= c => n = 4
  BY LimitsPassed
<1>3. /\ marks[1] = 0 /\ marks[2] = 192 /\ marks[3] = 224 /\ marks[4] = 240
      /\ sixes[1] = 1 /\ sixes[2] = 64 /\ sixes[3] = 4096 /\ sixes[4] = 262144
  OBVIOUS
<1>4. \A i \in Nat : F(i) = IF i = 1 THEN marks[n] + (c \div sixes[n]) ELSE 128 + ((c \div sixes[n - i + 1]) % 64)
  OBVIOUS
<1> HIDE DEF n, marks, sixes, F
<1>5. c \div 1 = c
  OBVIOUS
<1>6. CASE c < 128
  <2>1. F(1) = c
    BY <1>2, <1>3, <1>4, <1>5, <1>6
  <2>2. [i \in 1 .. 1 |-> F(i)] = <<c>>
    BY <2>1
  <2> QED  BY <1>1, <1>2, <1>6, <2>2, EncodeOne
<1>7. CASE 128 <= c /\ c < 2048
  <2>0. n = 2
    BY <1>2, <1>7
  <2>1. F(1) = First2(c) /\ F(2) = Last6(c)
    BY <1>3, <1>4, <1>5, <2>0 DEF First2, Last6
  <2>2. [i \in 1 .. 2 |-> F(i)] = <<First2(c), Last6(c)>>
    BY <2>1
  <2>3. c \in In2
    BY <1>7 DEF In2
  <2>4. encode_utf8(c) = <<First2(c), Last6(c)>>
    BY <2>3, EncodeTwo
  <2> QED  BY ONLY <1>1, <2>0, <2>2, <2>4
<1>8. CASE 2048 <= c /\ c < 65536
  <2>0. n = 3
    BY <1>2, <1>8
  <2>1. F(1) = First3(c) /\ F(2) = Third6(c) /\ F(3) = Last6(c)
    BY <1>3, <1>4, <1>5, <2>0 DEF First3, Third6, Last6
  <2>2. [i \in 1 .. 3 |-> F(i)] = <<First3(c), Third6(c), Last6(c)>>
    BY <2>1
  <2>3. c \in In3
    BY <1>8 DEF In3
  <2>4. encode_utf8(c) = <<First3(c), Third6(c), Last6(c)>>
    BY <2>3, EncodeThree
  <2> QED  BY ONLY <1>1, <2>0, <2>2, <2>4
<1>9. CASE 65536 <= c
  <2>0. n = 4
    BY <1>2, <1>9
  <2>1. F(1) = First4(c) /\ F(2) = Second6(c) /\ F(3) = Third6(c) /\ F(4) = Last6(c)
    BY <1>3, <1>4, <1>5, <2>0 DEF First4, Second6, Third6, Last6
  <2>2. [i \in 1 .. 4 |-> F(i)] = <<First4(c), Second6(c), Third6(c), Last6(c)>>
    BY <2>1
  <2>3. c \in In4
    BY <1>9 DEF In4
  <2>4. encode_utf8(c) = <<First4(c), Second6(c), Third6(c), Last6(c)>>
    BY <2>3, EncodeFour
  <2> QED  BY ONLY <1>1, <2>0, <2>2, <2>4
<1> QED  BY <1>6, <1>7, <1>8, <1>9

\* And its UTF-16 what write_utf16() writes.
LEMMA StandardUtf16 ==
  ASSUME NEW c, Scalar(c), NEW e \in Utf16s
  PROVE  Standard!Utf16(c, e = "UTF16_BE") = write_utf16(c, e)
<1> DEFINE be == e = "UTF16_BE"
           Ordered(w) == LET bytes == <<w \div 256, w % 256>> IN IF be THEN bytes ELSE Standard!Reverse(bytes)
<1>0. c \in Nat /\ c <= LastCodePoint /\ ~High(c) /\ ~Low(c)
  BY CodePointBounds DEF Scalar
<1>1. ASSUME NEW w \in Nat PROVE Ordered(w) = WordBytes(w, e)
  <2> DEFINE a == w \div 256
             b == w % 256
  <2>1. Standard!Reverse(<<a, b>>) = <<b, a>>
    <3> HIDE DEF a, b
    <3> QED  BY DEF Standard!Reverse
  <2>2. Ordered(w) = IF be THEN <<a, b>> ELSE Standard!Reverse(<<a, b>>)
    OBVIOUS
  <2>3. WordBytes(w, e) = IF be THEN <<a, b>> ELSE <<b, a>>
    BY DEF WordBytes
  <2> HIDE DEF a, b, be, Ordered
  <2> QED  BY <2>1, <2>2, <2>3
<1>2. Standard!Utf16(c, be) = Standard!FlattenSeq([i \in DOMAIN Standard!Units(c) |-> Ordered(Standard!Units(c)[i])])
  BY DEF Standard!Utf16
<1> HIDE DEF Ordered
<1>3. CASE c < 65536
  <2>1. Standard!Units(c) = <<c>>
    BY <1>3 DEF Standard!Units
  <2>2. [i \in DOMAIN <<c>> |-> Ordered(<<c>>[i])] = <<Ordered(c)>>
    OBVIOUS
  <2>3. Ordered(c) \in Seq(Byte) /\ Ordered(c) = WordBytes(c, e)
    BY <1>0, <1>1, <1>3, TwoOfBytes
  <2>4. Standard!FlattenSeq(<<Ordered(c)>>) = Ordered(c)
    BY <2>3, FlattenedOne
  <2>5. write_utf16(c, e) = WordBytes(c, e)
    <3>1. c < 55296 \/ (57344 <= c /\ c < 65536)
      BY <1>0, <1>3 DEF High, Low
    <3> QED  BY ONLY <1>0, <1>3, <3>1, SMTT(60) DEF write_utf16
  <2>6. Standard!Utf16(c, be) = Standard!FlattenSeq(<<Ordered(c)>>)
    BY <1>2, <2>1, <2>2
  <2> QED  BY <2>3, <2>4, <2>5, <2>6
<1>4. CASE ~(c < 65536)
  <2> DEFINE v == 55296 + ((c - 65536) \div 1024)
             u == 56320 + ((c - 65536) % 1024)
  <2>1. Standard!Units(c) = <<v, u>>
    BY <1>4 DEF Standard!Units
  <2>2. v \in Nat /\ u \in Nat /\ v < 65536 /\ u < 65536
    <3> DEFINE y == c - 65536
    <3>1. y \in Nat /\ y < 1048576
      BY <1>0, <1>4 DEF LastCodePoint
    <3> HIDE DEF y
    <3>2. y \div 1024 \in Nat /\ y \div 1024 < 1024 /\ y % 1024 \in Nat /\ y % 1024 < 1024
      BY <3>1
    <3> QED  BY <3>2 DEF y
  <2>3. write_utf16(c, e) = WordBytes(v, e) \o WordBytes(u, e)
    <3>1. ~(c < 55296 \/ (57344 <= c /\ c < 65536)) /\ 65536 <= c /\ c <= LastCodePoint
      BY <1>0, <1>4
    <3> QED  BY ONLY <3>1, SMTT(60) DEF write_utf16
  <2> HIDE DEF v, u
  <2>4. [i \in DOMAIN <<v, u>> |-> Ordered(<<v, u>>[i])] = <<Ordered(v), Ordered(u)>>
    OBVIOUS
  <2>5. /\ Ordered(v) \in Seq(Byte) /\ Ordered(v) = WordBytes(v, e)
        /\ Ordered(u) \in Seq(Byte) /\ Ordered(u) = WordBytes(u, e)
    BY <1>1, <2>2, TwoOfBytes
  <2>6. Standard!FlattenSeq(<<Ordered(v), Ordered(u)>>) = Ordered(v) \o Ordered(u)
    BY <2>5, FlattenedTwo
  <2>7. Standard!Utf16(c, be) = Standard!FlattenSeq(<<Ordered(v), Ordered(u)>>)
    BY <1>2, <2>1, <2>4
  <2> QED  BY <2>3, <2>5, <2>6, <2>7
<1> QED  BY <1>3, <1>4

\* The characters of an encoding, and what the standard makes of them.
Has(e, c) == IF e \in {"ASCII", "BYTES"} THEN c \in Byte ELSE Scalar(c)

LEMMA StandardChar ==
  ASSUME NEW e \in Encodings, NEW c, Has(e, c)
  PROVE  Standard!EncodedChar(e, c) = write_char(e, c)
<1>1. CASE e \in {"ASCII", "BYTES"}
  BY <1>1 DEF Standard!EncodedChar, write_char, write_byte, Has
<1>2. CASE e = "UTF8"
  <2>1. c \in Nat /\ c <= LastCodePoint
    BY <1>2, CodePointBounds DEF Has, Scalar
  <2>2. Standard!EncodedChar(e, c) = Standard!Utf8(c)
    BY <1>2 DEF Standard!EncodedChar
  <2> QED  BY <1>2, <2>1, <2>2, StandardUtf8 DEF write_char
<1>3. CASE e \in Utf16s
  <2>1. Scalar(c)
    BY <1>3 DEF Has, Utf16s
  <2>2. Standard!EncodedChar(e, c) = Standard!Utf16(c, e = "UTF16_BE")
    <3>1. CASE e = "UTF16_BE"
      <4>1. (e = "UTF16_BE") = TRUE
        BY <3>1
      <4> QED  BY <3>1, <4>1 DEF Standard!EncodedChar
    <3>2. CASE e = "UTF16_LE"
      <4>1. (e = "UTF16_BE") = FALSE
        BY <3>2
      <4> QED  BY <3>2, <4>1 DEF Standard!EncodedChar
    <3> QED  BY <1>3, <3>1, <3>2 DEF Utf16s
  <2>3. write_char(e, c) = write_utf16(c, e)
    BY <1>3 DEF write_char, Utf16s
  <2> QED  BY <1>3, <2>1, <2>2, <2>3, StandardUtf16
<1> QED  BY <1>1, <1>2, <1>3 DEF Encodings, Utf16s

\* Bytes that are put behind each other, character by character, are an output.
LEMMA JoinedOutput ==
  ASSUME NEW e \in Encodings, NEW b, NEW t \in Seq(CodePoint), NEW f \in [0 .. Len(t) -> Seq(Byte)], f[0] = Bom(e, b),
         \A i \in 1 .. Len(t) : f[i] = f[i - 1] \o write_char(e, t[i])
  PROVE  f[Len(t)] \in Seq(Byte) /\ OutputOf(f[Len(t)], e, b, t, Len(t))
<1> DEFINE n == Len(t)
           K == {i \in Nat : i <= n => OutputOf(f[i], e, b, t, i)}
<1>1. n \in Nat
  BY LenProperties
<1>2. 0 \in K
  <2>1. OutputOf(Bom(e, b), e, b, t, 0)
    BY OutputFirst
  <2>2. OutputOf(f[0], e, b, t, 0)
    BY ONLY <2>1, f[0] = Bom(e, b), Zenon
  <2> QED  BY <2>2
<1>3. ASSUME NEW i \in Nat, i \in K PROVE i + 1 \in K
  <2> SUFFICES ASSUME i + 1 <= n PROVE OutputOf(f[i + 1], e, b, t, i + 1)
    OBVIOUS
  <2> DEFINE j == i + 1
  <2>1. j \in 1 .. n /\ j - 1 = i /\ i \in 0 .. n
    BY <1>1
  <2>2. f[i] \in Seq(Byte) /\ OutputOf(f[i], e, b, t, i)
    BY <1>1, <1>3, <2>1
  <2>3. OutputOf(f[i] \o write_char(e, t[i + 1]), e, b, t, i + 1)
    BY <2>1, <2>2, OutputGrows
  <2>4. f[j] = f[j - 1] \o write_char(e, t[j])
    <3> HIDE DEF j
    <3> QED  BY <2>1
  <2>5. f[i + 1] = f[i] \o write_char(e, t[i + 1])
    BY <2>1, <2>4
  <2> QED  BY ONLY <2>3, <2>5, Zenon
<1>4. Nat \subseteq K
  <2> HIDE DEF K
  <2> QED  BY <1>2, <1>3, InductiveSet
<1>5. n \in K /\ n \in 0 .. n
  <2> HIDE DEF K
  <2> QED  BY <1>1, <1>4
<1>6. OutputOf(f[n], e, b, t, n)
  BY <1>1, <1>5
<1>7. f[n] \in Seq(Byte)
  BY <1>5
<1> QED  BY <1>6, <1>7

PartsOf(f, e, u) ==
  /\ f \in [0 .. Len(u) -> Seq(Byte)] /\ f[0] = <<>>
  /\ \A i \in 1 .. Len(u) : f[i] = f[i - 1] \o write_char(e, u[i])
  /\ Standard!Encoded(e, u) = f[Len(u)]

LEMMA StandardParts ==
  ASSUME NEW e \in Encodings, NEW u \in Seq(CodePoint), \A i \in 1 .. Len(u) : Has(e, u[i])
  PROVE  \E f : PartsOf(f, e, u)
<1> DEFINE n == Len(u)
           s == [i \in 1 .. n |-> Standard!EncodedChar(e, u[i])]
<1>1. n \in Nat /\ DOMAIN u = 1 .. n
  BY LenProperties
<1>2. ASSUME NEW i \in 1 .. n PROVE Standard!EncodedChar(e, u[i]) = write_char(e, u[i])
  BY StandardChar
<1>3. \A i \in 1 .. n : write_char(e, u[i]) \in Seq(Byte)
  BY WritesBytes DEF AllWrite
<1>4. Standard!Encoded(e, u) = Standard!FlattenSeq(s)
  BY <1>1 DEF Standard!Encoded
<1>5. \A i \in 1 .. n : s[i] = write_char(e, u[i]) /\ s[i] \in Seq(Byte)
  BY <1>2, <1>3
<1>6. s = [i \in 1 .. n |-> s[i]]
  OBVIOUS
<1> HIDE DEF n, s
<1>7. s \in Seq(Seq(Byte)) /\ Len(s) = n
  BY <1>1, <1>5, <1>6
<1>8. PICK f : Joins(f, s, Byte)
  BY <1>7, JoinsExist
<1>9. Standard!FlattenSeq(s) = f[n]
  BY <1>7, <1>8, Flattened
<1>10. /\ f \in [0 .. n -> Seq(Byte)] /\ f[0] = <<>>
       /\ \A i \in 1 .. n : f[i] = f[i - 1] \o write_char(e, u[i])
  BY <1>5, <1>7, <1>8 DEF Joins
<1> QED  BY <1>4, <1>9, <1>10 DEF n, PartsOf

\* The standard's encoding of a text is what the program would write of it.
LEMMA StandardEncoded ==
  ASSUME NEW e \in Encodings, NEW t \in Seq(CodePoint), \A i \in 1 .. Len(t) : Has(e, t[i])
  PROVE  Standard!Encoded(e, t) \in Seq(Byte) /\ OutputOf(Standard!Encoded(e, t), e, FALSE, t, Len(t))
<1>1. PICK f : PartsOf(f, e, t)
  BY StandardParts
<1>2. Bom(e, FALSE) = <<>>
  BY DEF Bom
<1>3. /\ f \in [0 .. Len(t) -> Seq(Byte)] /\ f[0] = <<>> /\ Standard!Encoded(e, t) = f[Len(t)]
      /\ \A i \in 1 .. Len(t) : f[i] = f[i - 1] \o write_char(e, t[i])
  BY <1>1 DEF PartsOf
<1>4. f[Len(t)] \in Seq(Byte) /\ OutputOf(f[Len(t)], e, FALSE, t, Len(t))
  BY <1>2, <1>3, JoinedOutput
<1> QED  BY ONLY <1>3, <1>4, Zenon

LEMMA StandardWithBom ==
  ASSUME NEW e \in Utf16s \cup {"UTF8"}, NEW t \in Seq(CodePoint), \A i \in 1 .. Len(t) : Has(e, t[i])
  PROVE  Standard!WithBom(e, t) \in Seq(Byte) /\ OutputOf(Standard!WithBom(e, t), e, TRUE, t, Len(t))
<1> DEFINE n == Len(t)
           u == <<65279>> \o t
<1>0. e \in Encodings /\ e \notin {"ASCII", "BYTES"} /\ 65279 \in CodePoint /\ n \in Nat
  BY CodePointBounds, LenProperties DEF Encodings, Utf16s
<1>1. <<65279>> \in Seq(CodePoint) /\ Len(<<65279>>) = 1 /\ <<65279>>[1] = 65279
  BY <1>0
<1>2. /\ u \in Seq(CodePoint) /\ Len(u) = 1 + n /\ u[1] = 65279
      /\ \A i \in 1 .. n : u[i + 1] = t[i]
  <2> DEFINE bom == <<65279>>
  <2>1. bom \in Seq(CodePoint) /\ Len(bom) = 1 /\ bom[1] = 65279
    BY <1>1
  <2> HIDE DEF bom
  <2>2. /\ bom \o t \in Seq(CodePoint) /\ Len(bom \o t) = 1 + n
        /\ \A i \in 1 .. 1 + n : (bom \o t)[i] = IF i <= 1 THEN bom[i] ELSE t[i - 1]
    BY <2>1, ConcatProperties
  <2>3. (bom \o t)[1] = 65279
    <3>1. 1 \in 1 .. 1 + n
      BY <1>0
    <3> QED  BY <2>1, <2>2, <3>1
  <2>4. ASSUME NEW i \in 1 .. n PROVE (bom \o t)[i + 1] = t[i]
    <3>1. i + 1 \in 1 .. 1 + n /\ ~(i + 1 <= 1) /\ i + 1 - 1 = i
      BY <1>0
    <3> QED  BY <2>2, <3>1
  <2> QED  BY <2>2, <2>3, <2>4 DEF bom
<1> HIDE DEF u
<1>3. \A i \in 1 .. Len(u) : Has(e, u[i])
  <2> SUFFICES ASSUME NEW i \in 1 .. 1 + n PROVE Has(e, u[i])
    BY <1>2
  <2>1. CASE i = 1
    BY <1>0, <1>2, <2>1 DEF Has, Scalar, LastCodePoint, High, Low
  <2>2. CASE i # 1
    <3> DEFINE j == i - 1
    <3>1. j \in 1 .. n /\ i = j + 1
      BY <1>0, <2>2
    <3> HIDE DEF j
    <3> QED  BY <1>2, <3>1
  <2> QED  BY <2>1, <2>2
<1>4. PICK f : PartsOf(f, e, u)
  BY <1>0, <1>2, <1>3, StandardParts
<1>10. /\ f \in [0 .. 1 + n -> Seq(Byte)] /\ f[0] = <<>> /\ Standard!Encoded(e, u) = f[1 + n]
       /\ \A i \in 1 .. 1 + n : f[i] = f[i - 1] \o write_char(e, u[i])
  BY <1>2, <1>4 DEF PartsOf
<1> DEFINE g == [i \in 0 .. n |-> f[i + 1]]
<1>5. g \in [0 .. n -> Seq(Byte)] /\ g[n] = f[1 + n] /\ g[0] = f[1]
  BY <1>0, <1>10
<1>6. g[0] = Bom(e, TRUE)
  <2> DEFINE bom == 65279
             bytes == write_char(e, bom)
  <2>1. bytes \in Seq(Byte) /\ u[1] = bom
    BY <1>0, <1>2, CharBytes
  <2>2. Bom(e, TRUE) = bytes
    BY DEF Bom, write_bom, Utf16s
  <2> HIDE DEF bom, g
  <2>3. 1 \in 1 .. 1 + n /\ 1 - 1 = 0
    BY <1>0
  <2>4. f[1] = f[1 - 1] \o write_char(e, u[1])
    BY <1>10, <2>3
  <2>5. f[1] = <<>> \o bytes
    BY <1>10, <2>1, <2>3, <2>4
  <2> HIDE DEF bytes
  <2>6. f[1] = bytes
    BY <2>1, <2>5, ConcatEmptySeq
  <2> QED  BY <1>5, <2>2, <2>6
<1>7. ASSUME NEW i \in 1 .. n PROVE g[i] = g[i - 1] \o write_char(e, t[i])
  <2> DEFINE j == i + 1
  <2>1. j \in 1 .. 1 + n /\ j - 1 = i /\ i - 1 \in 0 .. n /\ i \in 0 .. n /\ i - 1 + 1 = i
    BY <1>0
  <2>2. g[i] = f[j] /\ g[i - 1] = f[i]
    BY <2>1
  <2>3. f[j] = f[j - 1] \o write_char(e, u[j])
    <3> HIDE DEF j
    <3> QED  BY <1>10, <2>1
  <2>4. u[j] = t[i]
    BY <1>2
  <2> HIDE DEF j, g
  <2> QED  BY <2>1, <2>2, <2>3, <2>4
<1> HIDE DEF g, n
<1>8. g[n] \in Seq(Byte) /\ OutputOf(g[n], e, TRUE, t, n)
  <2>1. /\ e \in Encodings /\ g \in [0 .. Len(t) -> Seq(Byte)] /\ g[0] = Bom(e, TRUE)
        /\ \A i \in 1 .. Len(t) : g[i] = g[i - 1] \o write_char(e, t[i])
    <3>1. e \in Encodings /\ g \in [0 .. Len(t) -> Seq(Byte)] /\ g[0] = Bom(e, TRUE)
      BY <1>0, <1>5, <1>6 DEF n
    <3>2. \A i \in 1 .. n : g[i] = g[i - 1] \o write_char(e, t[i])
      BY <1>7
    <3> QED  BY <3>1, <3>2 DEF n
  <2>2. g[Len(t)] \in Seq(Byte) /\ OutputOf(g[Len(t)], e, TRUE, t, Len(t))
    BY <2>1, JoinedOutput
  <2> QED  BY <2>2 DEF n
<1>9. Standard!WithBom(e, t) = g[n]
  BY <1>5, <1>10 DEF Standard!WithBom, u
<1> QED  BY ONLY <1>8, <1>9, Zenon DEF n

-----------------------------------------------------------------------------
(* UTF-16 without a BOM                                                    *)

\* Every character of a plain text is a word: the character, and a 0 before or behind it.
ZeroOf(e, i)  == IF e = "UTF16_BE" THEN 2 * i - 1 ELSE 2 * i
OtherOf(e, i) == IF e = "UTF16_BE" THEN 2 * i ELSE 2 * i - 1

LEMMA PlainWords ==
  ASSUME NEW s \in Seq(Byte), NEW e \in Utf16s, NEW t \in Seq(CodePoint), Plain(t),
         OutputOf(s, e, FALSE, t, Len(t))
  PROVE  /\ Len(s) = 2 * Len(t)
         /\ \A i \in 1 .. Len(t) : s[ZeroOf(e, i)] = 0 /\ s[OtherOf(e, i)] = t[i]
<1> DEFINE n == Len(t)
<1>1. n \in Nat /\ Len(s) \in Nat
  BY LenProperties
<1>2. PICK at : Laid(s, e, FALSE, t, n, at) /\ at[n] = Len(s)
  BY Zenon DEF OutputOf
<1>3. at[0] = 0
  <2>1. Bom(e, FALSE) = <<>> /\ Len(<<>>) = 0
    BY EmptySeq DEF Bom
  <2> QED  BY <1>2, <2>1 DEF Laid
<1>4. ASSUME NEW i \in 1 .. n
      PROVE  write_char(e, t[i]) = IF e = "UTF16_BE" THEN <<0, t[i]>> ELSE <<t[i], 0>>
  <2> DEFINE c == t[i]
  <2>1. c \in Nat /\ c < 128
    BY ElementOfSeq, CodePointBounds DEF Plain
  <2>2. write_char(e, c) = write_utf16(c, e)
    BY DEF write_char, Utf16s
  <2> HIDE DEF c
  <2>3. write_utf16(c, e) = WordBytes(c, e)
    <3>1. c < 55296 \/ (57344 <= c /\ c < 65536)
      BY <2>1
    <3> QED  BY ONLY <2>1, <3>1, SMTT(60) DEF write_utf16
  <2>4. c \div 256 = 0 /\ c % 256 = c
    BY <2>1
  <2> QED  BY <2>2, <2>3, <2>4 DEF WordBytes, c
<1>5. ASSUME NEW i \in 1 .. n
      PROVE  /\ at[i] = at[i - 1] + 2 /\ LiesAt(s, at[i - 1], write_char(e, t[i]))
             /\ Len(write_char(e, t[i])) = 2
  <2>1. Len(write_char(e, t[i])) = 2
    <3> DEFINE c == t[i]
               bytes == write_char(e, t[i])
    <3>1. bytes = <<0, c>> \/ bytes = <<c, 0>>
      BY <1>4
    <3> HIDE DEF bytes, c
    <3>2. Len(bytes) = 2
      BY <3>1
    <3> QED  BY <3>2 DEF bytes
  <2>2. at[i] = at[i - 1] + Len(write_char(e, t[i])) /\ LiesAt(s, at[i - 1], write_char(e, t[i]))
    BY <1>2 DEF Laid
  <2> QED  BY <2>1, <2>2
<1> HIDE DEF n
<1> DEFINE K == {i \in Nat : i <= n => at[i] = 2 * i}
<1>6. 0 \in K
  BY <1>3
<1>7. ASSUME NEW i \in Nat, i \in K PROVE i + 1 \in K
  <2> SUFFICES ASSUME i + 1 <= n PROVE at[i + 1] = 2 * (i + 1)
    OBVIOUS
  <2> DEFINE j == i + 1
  <2>1. j \in 1 .. n /\ j - 1 = i
    BY <1>1
  <2>2. at[i] = 2 * i
    BY <1>1, <1>7
  <2>3. at[j] = at[j - 1] + 2
    <3> HIDE DEF j
    <3> QED  BY <1>5, <2>1
  <2> QED  BY <2>1, <2>2, <2>3
<1>8. Nat \subseteq K
  <2> HIDE DEF K
  <2> QED  BY <1>6, <1>7, InductiveSet
<1>9. Len(s) = 2 * n
  BY <1>1, <1>2, <1>8
<1>10. ASSUME NEW i \in 1 .. n PROVE s[ZeroOf(e, i)] = 0 /\ s[OtherOf(e, i)] = t[i]
  <2> DEFINE m == 2 * (i - 1)
             c == t[i]
             bytes == write_char(e, t[i])
  <2>1. at[i - 1] = m /\ m + 1 = 2 * i - 1 /\ m + 2 = 2 * i
    BY <1>1, <1>8
  <2>2. LiesAt(s, m, bytes) /\ Len(bytes) = 2
    BY <1>5, <2>1
  <2>3. bytes = IF e = "UTF16_BE" THEN <<0, c>> ELSE <<c, 0>>
    BY <1>4
  <2> HIDE DEF bytes, m, c
  <2>4. s[m + 1] = bytes[1] /\ s[m + 2] = bytes[2]
    BY <2>2 DEF LiesAt
  <2> QED  BY <2>1, <2>3, <2>4 DEF ZeroOf, OtherOf, c
<1> QED  BY <1>9, <1>10 DEF n

\* As many zeros as characters.
LEMMA ZerosOfWords ==
  ASSUME NEW s \in Seq(Byte), NEW e \in Utf16s, NEW n \in Nat, Len(s) = 2 * n,
         \A i \in 1 .. n : s[ZeroOf(e, i)] = 0 /\ s[OtherOf(e, i)] # 0
  PROVE  Cardinality({j \in DOMAIN s : s[j] = 0}) = n
<1> DEFINE Z == {j \in DOMAIN s : s[j] = 0}
           f == [i \in 1 .. n |-> ZeroOf(e, i)]
<1>1. DOMAIN s = 1 .. 2 * n
  BY LenProperties
<1>2. ASSUME NEW i \in 1 .. n PROVE f[i] \in Z /\ f[i] = ZeroOf(e, i)
  <2>1. ZeroOf(e, i) \in 1 .. 2 * n
    BY DEF ZeroOf
  <2> QED  BY <1>1, <2>1
<1>3. ASSUME NEW i \in 1 .. n, NEW k \in 1 .. n, f[i] = f[k] PROVE i = k
  BY <1>3 DEF ZeroOf
<1>4. ASSUME NEW j \in Z PROVE \E i \in 1 .. n : f[i] = j
  <2>1. j \in 1 .. 2 * n /\ s[j] = 0
    BY <1>1
  <2>2. PICK i \in 1 .. n : j = 2 * i - 1 \/ j = 2 * i
    <3> DEFINE h == (j + 1) \div 2
    <3>1. h \in 1 .. n /\ (j = 2 * h - 1 \/ j = 2 * h)
      BY <2>1
    <3> QED  BY <3>1
  <2>3. j = ZeroOf(e, i) \/ j = OtherOf(e, i)
    BY <2>2 DEF ZeroOf, OtherOf
  <2>4. j # OtherOf(e, i)
    BY <2>1
  <2> QED  BY <1>2, <2>3, <2>4
<1>5. f \in [1 .. n -> Z]
  BY <1>2
<1> HIDE DEF f, Z
<1>6. f \in Bijection(1 .. n, Z)
  BY <1>3, <1>4, <1>5 DEF Bijection, Injection, Surjection, IsInjective
<1>7. IsFiniteSet(1 .. n) /\ Cardinality(1 .. n) = n
  <2>1. IsFiniteSet(1 .. n) /\ Cardinality(1 .. n) = IF 1 > n THEN 0 ELSE n - 1 + 1
    BY ONLY n \in Nat, FS_Interval
  <2> QED  BY ONLY n \in Nat, <2>1
<1>8. Cardinality(Z) = Cardinality(1 .. n)
  BY <1>6, <1>7, FS_Bijection DEF ExistsBijection
<1> QED  BY <1>7, <1>8 DEF Z

\* The guess is right for three characters of ASCII, or more.
LEMMA GuessIsRight ==
  ASSUME raw \in Seq(Byte), NEW e \in Utf16s, NEW t \in Seq(CodePoint), Plain(t), Len(t) >= 3,
         OutputOf(raw, e, FALSE, t, Len(t))
  PROVE  decode_bom = "ASCII" /\ ~is_ascii /\ GuessUtf16 = e
<1> DEFINE n == Len(t)
<1>1. n \in Nat /\ n >= 3 /\ Len(raw) = 2 * n /\ DOMAIN raw = 1 .. 2 * n
  BY LenProperties, PlainWords
<1>2. ASSUME NEW i \in 1 .. n PROVE raw[ZeroOf(e, i)] = 0 /\ 0 < raw[OtherOf(e, i)] /\ raw[OtherOf(e, i)] < 128
  BY PlainWords DEF Plain
<1>3. Zeros = n
  <2>1. \A i \in 1 .. n : raw[ZeroOf(e, i)] = 0 /\ raw[OtherOf(e, i)] # 0
    BY <1>2
  <2> HIDE DEF n
  <2> QED  BY <1>1, <2>1, ZerosOfWords DEF Zeros
<1> HIDE DEF n
<1>4. /\ raw[ZeroOf(e, 1)] = 0 /\ 0 < raw[OtherOf(e, 1)] /\ raw[OtherOf(e, 1)] < 128
      /\ raw[ZeroOf(e, 2)] = 0 /\ raw[ZeroOf(e, 3)] = 0
  BY <1>1, <1>2
<1>5. Zeros > Len(raw) \div 4 /\ Zeros <= Len(raw) \div 2 /\ Len(raw) % 2 = 0 /\ Len(raw) >= 6
  BY <1>1, <1>3
<1>6. CASE e = "UTF16_BE"
  <2>1. raw[1] = 0 /\ raw[3] = 0 /\ raw[5] = 0
    BY <1>4, <1>6 DEF ZeroOf
  <2>2. LooksLike({1, 3, 5})
    BY <1>5, <2>1 DEF LooksLike
  <2>3. ~is_ascii
    BY <1>1, <2>1 DEF is_ascii
  <2>4. decode_bom = "ASCII"
    BY <2>1, NoBomFound
  <2> QED  BY <1>6, <2>2, <2>3, <2>4 DEF GuessUtf16
<1>7. CASE e = "UTF16_LE"
  <2>1. raw[2] = 0 /\ raw[4] = 0 /\ raw[6] = 0 /\ 0 < raw[1] /\ raw[1] < 128
    BY <1>4, <1>7 DEF ZeroOf, OtherOf
  <2>2. LooksLike({2, 4, 6})
    BY <1>5, <2>1 DEF LooksLike
  <2>3. ~LooksLike({1, 3, 5})
    BY <2>1 DEF LooksLike
  <2>4. ~is_ascii
    BY <1>1, <2>1 DEF is_ascii
  <2>5. decode_bom = "ASCII"
    <3>1. raw[1] \in Nat
      BY <1>1, ElementOfSeq, ByteBounds
    <3> QED  BY <2>1, <3>1, NoBomFound
  <2> QED  BY <1>7, <2>2, <2>3, <2>4, <2>5 DEF GuessUtf16
<1> QED  BY <1>6, <1>7 DEF Utf16s

-----------------------------------------------------------------------------
(* A file whose text is known                                              *)

\* What write_utf16() has for every character.
LEMMA UnitsOfScalar ==
  ASSUME NEW c, Scalar(c), NEW e \in Utf16s
  PROVE  write_char(e, c) # <<>>
<1>0. c \in Nat /\ c <= LastCodePoint /\ ~High(c) /\ ~Low(c)
  BY CodePointBounds DEF Scalar
<1>1. write_char(e, c) = write_utf16(c, e)
  BY DEF write_char, Utf16s
<1>2. CASE c < 65536
  <2>1. write_utf16(c, e) = WordBytes(c, e)
    BY <1>0, <1>2, Units16
  <2>2. Len(write_utf16(c, e)) = 2
    BY <1>0, <1>2, <2>1, TwoOfBytes
  <2> QED  BY <1>1, <2>2, EmptySeq
<1>3. CASE ~(c < 65536)
  <2> DEFINE v == 55296 + ((c - 65536) \div 1024)
             u == 56320 + ((c - 65536) % 1024)
  <2>1. write_utf16(c, e) = WordBytes(v, e) \o WordBytes(u, e)
    <3>1. ~(c < 55296 \/ (57344 <= c /\ c < 65536)) /\ 65536 <= c /\ c <= LastCodePoint
      BY <1>0, <1>3
    <3> QED  BY ONLY <3>1, SMTT(60) DEF write_utf16
  <2>2. v \in Nat /\ u \in Nat /\ v < 65536 /\ u < 65536
    <3> DEFINE y == c - 65536
    <3>1. y \in Nat /\ y < 1048576
      BY <1>0, <1>3 DEF LastCodePoint
    <3> HIDE DEF y
    <3>2. y \div 1024 \in Nat /\ y \div 1024 < 1024 /\ y % 1024 \in Nat /\ y % 1024 < 1024
      BY <3>1
    <3> QED  BY <3>2 DEF y
  <2> HIDE DEF v, u
  <2> DEFINE p == WordBytes(v, e)
             q == WordBytes(u, e)
  <2>3. p \in Seq(Byte) /\ q \in Seq(Byte) /\ Len(p) = 2 /\ Len(q) = 2 /\ write_utf16(c, e) = p \o q
    BY <2>1, <2>2, TwoOfBytes
  <2> HIDE DEF p, q
  <2>4. Len(p \o q) = Len(p) + Len(q)
    BY <2>3, ConcatProperties
  <2>5. Len(p \o q) = 4
    BY ONLY <2>3, <2>4
  <2> QED  BY <1>1, <2>3, <2>5, EmptySeq
<1> QED  BY <1>2, <1>3

\* What a text is to the lemmas above.
LEMMA TextFacts ==
  ASSUME NEW t, IsText(t)
  PROVE  /\ t \in Seq(CodePoint) /\ Sound(t) /\ NoOwnBom(t) /\ ZeroAtEnd(t)
         /\ \A i \in 1 .. Len(t) : t[i] # 0 /\ Scalar(t[i])
         /\ \A e \in Utf16s \cup {"UTF8"} : Encodable(e, t)
<1>1. t \in Seq(CodePoint) /\ Len(t) \in Nat /\ DOMAIN t = 1 .. Len(t)
  BY LenProperties DEF IsText
<1>2. \A i \in 1 .. Len(t) : t[i] # 0 /\ Scalar(t[i])
  BY <1>1 DEF IsText
<1>3. Sound(t) /\ NoOwnBom(t)
  BY <1>2 DEF Sound, Scalar, IsText, NoOwnBom
<1>4. ZeroAtEnd(t)
  <2>1. \A i \in 1 .. Len(t) - 1 : i \in 1 .. Len(t)
    BY <1>1
  <2> QED  BY <1>2, <2>1 DEF ZeroAtEnd
<1>5. ASSUME NEW e \in Utf16s PROVE Encodable(e, t)
  BY <1>2, UnitsOfScalar DEF Encodable
<1>6. Encodable("UTF8", t)
  <2> SUFFICES ASSUME NEW i \in 1 .. Len(t) PROVE write_char("UTF8", t[i]) # <<>>
    BY DEF Encodable
  <2>1. t[i] \in Nat /\ t[i] <= LastCodePoint
    BY <1>2, CodePointBounds DEF Scalar
  <2>2. Len(encode_utf8(t[i])) >= 1
    BY <2>1, Utf8FirstByte
  <2>3. write_char("UTF8", t[i]) = encode_utf8(t[i])
    BY DEF write_char
  <2>4. Len(<<>>) = 0
    BY EmptySeq
  <2> DEFINE bytes == encode_utf8(t[i])
  <2> HIDE DEF bytes
  <2>5. bytes # <<>>
    BY <2>2, <2>4 DEF bytes
  <2> QED  BY <2>3, <2>5 DEF bytes
<1> QED  BY <1>1, <1>2, <1>3, <1>4, <1>5, <1>6

\* The file is text t in encoding e, behind a BOM if b.
FileOf(t, e, b) ==
  /\ e \in Utf16s \cup {"UTF8"} /\ b \in BOOLEAN /\ OutputOf(raw, e, b, t, Len(t))
  /\ e \in Utf16s /\ ~b => Plain(t) /\ Len(t) >= 3

\* The run reads it as that text.
KnownAs(t, e, b) ==
  /\ place # "error" /\ FileOf(t, e, b)
  /\ place # "bom" => hasBom = b
  /\ place = "guess" => ~b
  /\ place = "utf8" => e = "UTF8" /\ Begun(t, e, b)
  /\ place = "utf16" => e \in Utf16s /\ encoding = e /\ Begun(t, e, b)
  /\ place \in {"loaded", "write"} => data = t /\ encoding # "BYTES"

KnownRun ==
  earlier = <<>> => \A t \in known : IsText(t) /\ \E e, b : KnownAs(t, e, b)

LEMMA FilesAre ==
  ASSUME NEW t, IsText(t), raw \in FilesOf(t)
  PROVE  \E e, b : FileOf(t, e, b)
<1>1. /\ t \in Seq(CodePoint) /\ DOMAIN t = 1 .. Len(t)
      /\ \A i \in 1 .. Len(t) : t[i] # 0 /\ Scalar(t[i]) /\ t[i] \in Nat
  BY TextFacts, CodePointBounds, LenProperties DEF Scalar
<1>2. ASSUME NEW e \in Utf16s \cup {"UTF8"} PROVE e \in Encodings /\ \A i \in 1 .. Len(t) : Has(e, t[i])
  BY <1>1 DEF Has, Encodings, Utf16s
<1>3. ASSUME raw = Standard!Encoded("UTF8", t) PROVE FileOf(t, "UTF8", FALSE)
  <2> DEFINE s == Standard!Encoded("UTF8", t)
  <2>1. OutputOf(s, "UTF8", FALSE, t, Len(t))
    BY <1>1, <1>2, StandardEncoded
  <2>2. OutputOf(raw, "UTF8", FALSE, t, Len(t))
    BY ONLY <1>3, <2>1, Zenon
  <2>3. "UTF8" \notin Utf16s
    BY DEF Utf16s
  <2> QED  BY <2>2, <2>3 DEF FileOf
<1>4. ASSUME NEW e \in Utf16s \cup {"UTF8"}, raw = Standard!WithBom(e, t) PROVE FileOf(t, e, TRUE)
  <2>1. OutputOf(Standard!WithBom(e, t), e, TRUE, t, Len(t))
    BY <1>1, <1>2, StandardWithBom
  <2>2. OutputOf(raw, e, TRUE, t, Len(t))
    BY ONLY <1>4, <2>1, Zenon
  <2> QED  BY <2>2 DEF FileOf
<1>5. ASSUME NEW e \in Utf16s, raw = Standard!Encoded(e, t), Ascii(t), Len(t) >= 3 PROVE FileOf(t, e, FALSE)
  <2>1. OutputOf(Standard!Encoded(e, t), e, FALSE, t, Len(t))
    BY <1>1, <1>2, StandardEncoded
  <2>2. OutputOf(raw, e, FALSE, t, Len(t))
    BY ONLY <1>5, <2>1, Zenon
  <2>3. Plain(t)
    BY <1>1, <1>5 DEF Ascii, Plain
  <2> QED  BY <1>5, <2>2, <2>3 DEF FileOf
<1>6. \/ raw = Standard!Encoded("UTF8", t)
      \/ \E e \in Utf16s \cup {"UTF8"} : raw = Standard!WithBom(e, t)
      \/ Ascii(t) /\ Len(t) >= 3 /\ \E e \in Utf16s : raw = Standard!Encoded(e, t)
  BY DEF FilesOf, Utf16s
<1> QED  BY <1>3, <1>4, <1>5, <1>6

LEMMA KnownStarts == Init => KnownRun
<1> SUFFICES ASSUME Init, NEW t \in known PROVE IsText(t) /\ \E e, b : KnownAs(t, e, b)
  BY DEF KnownRun
<1>1. PICK given \in Inputs : \E f \in given.files : raw = f.raw /\ known = f.text
  BY DEF Init
<1>2. PICK f \in given.files : raw = f.raw /\ known = f.text
  BY <1>1
<1>3. IsText(t) /\ raw \in FilesOf(t)
  BY <1>2, TextsAssumption
<1>4. PICK e, b : FileOf(t, e, b)
  BY <1>3, FilesAre
<1>5. place = "bom"
  BY DEF Init
<1>6. KnownAs(t, e, b)
  BY <1>4, <1>5 DEF KnownAs
<1> QED  BY <1>3, <1>6

LEMMA KnownDetectBom ==
  ASSUME Inv, NEW t, IsText(t), NEW e, NEW b, KnownAs(t, e, b), DetectBom
  PROVE  KnownAs(t, e, b)'
<1>1. /\ raw \in Seq(Byte) /\ FileOf(t, e, b) /\ e \in Utf16s \cup {"UTF8"} /\ b \in BOOLEAN
      /\ OutputOf(raw, e, b, t, Len(t)) /\ raw' = raw
  BY DEF Inv, TypeOK, KnownAs, FileOf, DetectBom, Decode
<1>2. t \in Seq(CodePoint) /\ Sound(t) /\ NoOwnBom(t)
  BY TextFacts
<1>3. FileOf(t, e, b)'
  BY <1>1 DEF FileOf
<1>4. CASE b = TRUE
  <2>1. OutputOf(raw, e, TRUE, t, Len(t))
    BY ONLY <1>1, <1>4, Zenon
  <2>2. /\ encoding' = e /\ hasBom' = TRUE /\ Begun(t, e, TRUE)'
        /\ place' = IF e = "UTF8" THEN "utf8" ELSE "utf16"
    BY <1>1, <1>2, <2>1, TextDetectBom
  <2>3. Begun(t, e, b)'
    BY <1>4, <2>2
  <2> QED  BY <1>1, <1>3, <1>4, <2>2, <2>3 DEF KnownAs
<1>5. CASE b = FALSE
  <2>1. OutputOf(raw, e, FALSE, t, Len(t))
    BY ONLY <1>1, <1>5, Zenon
  <2>2. decode_bom = "ASCII"
    <3>1. CASE e = "UTF8"
      <4>1. OutputOf(raw, "UTF8", FALSE, t, Len(t))
        BY ONLY <2>1, <3>1, Zenon
      <4> QED  BY <1>1, <1>2, <4>1, NoBomOfUtf8
    <3>2. CASE e \in Utf16s
      <4>1. Plain(t) /\ Len(t) >= 3
        BY <1>1, <1>5, <3>2 DEF FileOf
      <4> QED  BY <1>1, <1>2, <2>1, <3>2, <4>1, GuessIsRight
    <3> QED  BY <1>1, <3>1, <3>2
  <2>3. Decode("guess", 0) /\ hasBom' = FALSE
    BY <2>2 DEF DetectBom
  <2>4. place' = "guess"
    BY <2>3 DEF Decode
  <2> QED  BY <1>3, <1>5, <2>3, <2>4 DEF KnownAs
<1> QED  BY <1>1, <1>4, <1>5

LEMMA KnownGuess ==
  ASSUME Inv, NEW t, IsText(t), NEW e, NEW b, KnownAs(t, e, b), Guess
  PROVE  KnownAs(t, e, b)'
<1>1. /\ raw \in Seq(Byte) /\ FileOf(t, e, b) /\ e \in Utf16s \cup {"UTF8"} /\ b = FALSE /\ hasBom = b
      /\ OutputOf(raw, e, b, t, Len(t)) /\ raw' = raw /\ hasBom' = hasBom
  BY DEF Inv, TypeOK, KnownAs, FileOf, Guess, Decode, DecodeBytes
<1>2. t \in Seq(CodePoint) /\ Sound(t) /\ ZeroAtEnd(t)
  BY TextFacts
<1>3. FileOf(t, e, b)' /\ hasBom' = b
  BY <1>1 DEF FileOf
<1>4. OutputOf(raw, e, FALSE, t, Len(t))
  BY ONLY <1>1, Zenon
<1>5. ASSUME Decode("utf8", 0) \/ Decode("utf16", 0) PROVE Begun(t, e, b)'
  <2>1. data' = <<>> /\ idx' = 0
    BY <1>5 DEF Decode
  <2>2. Len(Bom(e, b)) = 0
    BY <1>1, EmptySeq DEF Bom
  <2> QED  BY <1>1, <1>2, <2>1, <2>2, BegunFirst
<1>6. CASE e = "UTF8"
  <2>1. OutputOf(raw, "UTF8", FALSE, t, Len(t))
    BY ONLY <1>4, <1>6, Zenon
  <2>2. CASE is_ascii
    <3>1. raw = t
      BY <1>1, <1>2, <2>1, <2>2, AsciiOfUtf8
    <3>2. place' = "loaded" /\ encoding' = "ASCII" /\ data' = raw
      BY <2>2 DEF Guess, DecodeBytes
    <3> QED  BY <1>3, <3>1, <3>2 DEF KnownAs
  <2>3. CASE ~is_ascii
    <3>1. ZeroAtEnd(raw)
      BY <1>1, <1>2, <2>1, ZerosOfUtf8
    <3>2. GuessUtf16 = "ASCII"
      BY <1>1, <3>1, NoGuess
    <3>3. Decode("utf8", 0)
      BY <2>3, <3>2 DEF Guess
    <3>4. place' = "utf8"
      BY <3>3 DEF Decode
    <3> QED  BY <1>3, <1>5, <1>6, <3>3, <3>4 DEF KnownAs
  <2> QED  BY <2>2, <2>3
<1>7. CASE e \in Utf16s
  <2>1. Plain(t) /\ Len(t) >= 3
    BY <1>1, <1>7 DEF FileOf
  <2>2. ~is_ascii /\ GuessUtf16 = e
    BY <1>1, <1>2, <1>4, <1>7, <2>1, GuessIsRight
  <2>3. encoding' = e /\ Decode("utf16", 0)
    BY <1>7, <2>2 DEF Guess, Utf16s
  <2>4. place' = "utf16"
    BY <2>3 DEF Decode
  <2> QED  BY <1>3, <1>5, <1>7, <2>3, <2>4 DEF KnownAs
<1> QED  BY <1>1, <1>6, <1>7

LEMMA KnownReadUtf8 ==
  ASSUME Inv, NEW t, IsText(t), NEW e, NEW b, KnownAs(t, e, b), ReadUtf8
  PROVE  KnownAs(t, e, b)'
<1>1. FileOf(t, e, b) /\ hasBom = b /\ e = "UTF8" /\ Begun(t, "UTF8", b) /\ raw' = raw /\ hasBom' = hasBom
  BY DEF KnownAs, ReadUtf8, Push, Decode, DecodeBytes
<1>2. t \in Seq(CodePoint) /\ Encodable("UTF8", t)
  BY TextFacts
<1>3. Begun(t, "UTF8", b)' /\ place' = "utf8"
  BY <1>1, <1>2, TextReadUtf8
<1>4. FileOf(t, e, b)' /\ hasBom' = b
  BY <1>1 DEF FileOf
<1> QED  BY <1>1, <1>3, <1>4 DEF KnownAs

LEMMA KnownReadUtf16 ==
  ASSUME Inv, NEW t, IsText(t), NEW e, NEW b, KnownAs(t, e, b), ReadUtf16
  PROVE  KnownAs(t, e, b)'
<1>1. FileOf(t, e, b) /\ place = "utf16" /\ hasBom = b /\ e \in Utf16s /\ encoding = e /\ Begun(t, e, b)
  BY DEF KnownAs, ReadUtf16
<1>2. t \in Seq(CodePoint) /\ Encodable(e, t)
  BY <1>1, TextFacts
<1>3. Begun(t, e, b)' /\ UNCHANGED <<options, raw, encoding, hasBom, place, outEncoding, outBom, known, earlier>>
  BY <1>1, <1>2, TextReadUtf16
<1>4. FileOf(t, e, b)' /\ hasBom' = b
  BY <1>1, <1>3 DEF FileOf
<1> QED  BY <1>1, <1>3, <1>4 DEF KnownAs

LEMMA KnownEndOfFile ==
  ASSUME Inv, NEW t, IsText(t), NEW e, NEW b, KnownAs(t, e, b), EndOfFile
  PROVE  KnownAs(t, e, b)'
<1>1. /\ FileOf(t, e, b) /\ hasBom = b /\ e \in Utf16s \cup {"UTF8"} /\ Begun(t, e, b) /\ idx = Len(raw)
      /\ UNCHANGED <<raw, data, hasBom>> /\ place' = "loaded" /\ encoding' = e
  BY DEF KnownAs, FileOf, EndOfFile
<1>2. t \in Seq(CodePoint) /\ Encodable(e, t) /\ e \in Encodings /\ e # "BYTES"
  BY <1>1, TextFacts DEF Utf16s, Encodings
<1>3. data = t
  BY <1>1, <1>2, BegunEnds
<1>4. FileOf(t, e, b)' /\ hasBom' = b
  BY <1>1 DEF FileOf
<1> QED  BY <1>1, <1>2, <1>3, <1>4 DEF KnownAs

LEMMA KnownBegin ==
  ASSUME Inv, NEW t, IsText(t), NEW e, NEW b, KnownAs(t, e, b), Begin
  PROVE  KnownAs(t, e, b)'
<1>1. /\ FileOf(t, e, b) /\ hasBom = b /\ data = t /\ encoding # "BYTES"
      /\ UNCHANGED <<raw, data, hasBom, encoding>>
  BY DEF KnownAs, Begin, file
<1>2. ZeroAtEnd(t)
  BY TextFacts
<1>3. ~EmbeddedZero
  BY <1>1, <1>2 DEF EmbeddedZero, ZeroAtEnd
<1>4. place' = "write"
  BY <1>3 DEF Begin
<1>5. FileOf(t, e, b)' /\ hasBom' = b
  BY <1>1 DEF FileOf
<1> QED  BY <1>1, <1>4, <1>5 DEF KnownAs

\* Nothing of it changes while it writes.
LEMMA KnownStays ==
  ASSUME NEW t, NEW e, NEW b, KnownAs(t, e, b), UNCHANGED <<raw, data, encoding, hasBom, idx, place>>
  PROVE  KnownAs(t, e, b)'
<1>1. FileOf(t, e, b)' /\ Begun(t, e, b)' = Begun(t, e, b)
  BY DEF KnownAs, FileOf, Begun
<1> QED  BY <1>1 DEF KnownAs

LEMMA KnownGoesOn == Inv /\ KnownRun /\ [Next]_vars => KnownRun'
<1> SUFFICES ASSUME Inv, KnownRun, [Next]_vars, earlier' = <<>>, NEW t \in known'
             PROVE  IsText(t) /\ \E e, b : KnownAs(t, e, b)'
  BY DEF KnownRun
<1>1. known' = known /\ earlier = <<>>
  BY DEF Next, vars, DetectBom, Guess, ReadUtf8, ReadUtf16, EndOfFile, Begin, WriteChar, RunAgain, Push, Decode, DecodeBytes
<1>2. IsText(t)
  BY <1>1 DEF KnownRun
<1>3. PICK e, b : KnownAs(t, e, b)
  BY <1>1 DEF KnownRun
<1>4. CASE DetectBom   BY <1>2, <1>3, <1>4, KnownDetectBom
<1>5. CASE Guess       BY <1>2, <1>3, <1>5, KnownGuess
<1>6. CASE ReadUtf8    BY <1>2, <1>3, <1>6, KnownReadUtf8
<1>7. CASE ReadUtf16   BY <1>2, <1>3, <1>7, KnownReadUtf16
<1>8. CASE EndOfFile   BY <1>2, <1>3, <1>8, KnownEndOfFile
<1>9. CASE Begin       BY <1>2, <1>3, <1>9, KnownBegin
<1>10. CASE WriteChar
  <2>1. UNCHANGED <<raw, data, encoding, hasBom, idx, place>>
    BY <1>10 DEF WriteChar, file
  <2> QED  BY <1>2, <1>3, <2>1, KnownStays
<1>11. CASE RunAgain
  BY <1>11 DEF RunAgain
<1>12. CASE UNCHANGED vars
  <2>1. UNCHANGED <<raw, data, encoding, hasBom, idx, place>>
    BY <1>12 DEF vars, file
  <2> QED  BY <1>2, <1>3, <2>1, KnownStays
<1> QED  BY <1>4, <1>5, <1>6, <1>7, <1>8, <1>9, <1>10, <1>11, <1>12 DEF Next

\* The output of a file whose text is known has every character its encoding needs.
LEMMA OutputStandard ==
  ASSUME Inv, FirstRun, Outputting, KnownRun, place = "write", earlier = <<>>, known # {}, written = Len(text),
         \A i \in DOMAIN options.header :
           Scalar(options.header[i]) /\ (outEncoding = "ASCII" => options.header[i] < 256)
  PROVE  out = IF outBom THEN Standard!WithBom(outEncoding, text) ELSE Standard!Encoded(outEncoding, text)
<1> DEFINE h == options.header
<1>1. /\ h \in Seq(CodePoint) /\ data \in Seq(CodePoint) /\ text \in Seq(CodePoint) /\ out \in Seq(Byte)
      /\ hasBom \in BOOLEAN /\ outBom \in BOOLEAN /\ encoding \in Encodings /\ outEncoding \in Encodings
  BY DEF Inv, TypeOK
<1>2. Loaded /\ text = h \o data /\ outEncoding = OutEncoding /\ outBom = OutBom
  BY DEF FirstRun, ToWrite
<1>3. PICK t \in known : TRUE
  OBVIOUS
<1>4. IsText(t) /\ data = t /\ encoding # "BYTES"
  BY <1>3 DEF KnownRun, KnownAs
<1>5. /\ outEncoding \in Utf16s \cup {"UTF8", "ASCII"}
      /\ outEncoding = "ASCII" => ~outBom /\ Plain(data)
  <2>1. outEncoding \in {encoding, "UTF8"}
    BY <1>2 DEF OutEncoding
  <2>2. outEncoding \in Utf16s \cup {"UTF8", "ASCII"}
    BY <1>1, <1>4, <2>1 DEF Encodings, Utf16s
  <2>3. ASSUME outEncoding = "ASCII" PROVE ~outBom /\ Plain(data)
    <3>1. encoding = "ASCII" /\ OutEncoding = "ASCII"
      BY <1>2, <2>1, <2>3
    <3>2. ~hasBom /\ Plain(data)
      BY <1>2, <3>1 DEF Loaded
    <3>3. OutBom = hasBom
      BY <3>1 DEF OutBom
    <3> QED  BY <1>2, <3>2, <3>3
  <2> QED  BY <2>2, <2>3
<1>6. \A i \in 1 .. Len(h) : Has(outEncoding, h[i])
  <2>1. DOMAIN h = 1 .. Len(h)
    BY <1>1, LenProperties
  <2> SUFFICES ASSUME NEW i \in 1 .. Len(h) PROVE Has(outEncoding, h[i])
    OBVIOUS
  <2>2. Scalar(h[i]) /\ (outEncoding = "ASCII" => h[i] < 256)
    BY <2>1
  <2> HIDE DEF h
  <2>3. h[i] \in Nat
    BY <2>2, CodePointBounds DEF Scalar
  <2>4. outEncoding = "ASCII" => h[i] \in Byte
    BY <2>2, <2>3, ByteBounds
  <2> QED  BY <1>5, <2>2, <2>4 DEF Has, Utf16s
<1>7. \A i \in 1 .. Len(data) : Has(outEncoding, data[i])
  <2> SUFFICES ASSUME NEW i \in 1 .. Len(data) PROVE Has(outEncoding, data[i])
    OBVIOUS
  <2>1. Scalar(data[i])
    BY <1>4, TextFacts
  <2>2. data[i] \in Nat
    BY <2>1, CodePointBounds DEF Scalar
  <2>3. outEncoding = "ASCII" => data[i] \in Byte
    BY <1>5, <2>2, ByteBounds DEF Plain
  <2> QED  BY <1>5, <2>1, <2>3 DEF Has, Utf16s
<1> HIDE DEF h
<1>8. \A i \in 1 .. Len(text) : Has(outEncoding, text[i])
  BY <1>1, <1>2, <1>6, <1>7, OfParts
<1>9. OutputOf(out, outEncoding, outBom, text, Len(text))
  <2>1. OutputOf(out, outEncoding, outBom, text, written) /\ written = Len(text)
    BY DEF Outputting
  <2> QED  BY ONLY <2>1, Zenon
<1>10. CASE outBom = TRUE
  <2>1. outEncoding \in Utf16s \cup {"UTF8"}
    BY <1>5, <1>10
  <2> DEFINE s == Standard!WithBom(outEncoding, text)
  <2>2. s \in Seq(Byte) /\ OutputOf(s, outEncoding, TRUE, text, Len(text))
    BY <1>1, <1>8, <2>1, StandardWithBom
  <2>3. OutputOf(out, outEncoding, TRUE, text, Len(text))
    BY ONLY <1>9, <1>10, Zenon
  <2> HIDE DEF s
  <2>4. out = s
    BY <1>1, <2>2, <2>3, OneOutput
  <2> QED  BY <1>10, <2>4 DEF s
<1>11. CASE outBom = FALSE
  <2> DEFINE s == Standard!Encoded(outEncoding, text)
  <2>1. s \in Seq(Byte) /\ OutputOf(s, outEncoding, FALSE, text, Len(text))
    BY <1>1, <1>8, StandardEncoded
  <2>2. OutputOf(out, outEncoding, FALSE, text, Len(text))
    BY ONLY <1>9, <1>11, Zenon
  <2> HIDE DEF s
  <2>3. out = s
    BY <1>1, <2>1, <2>2, OneOutput
  <2> QED  BY <1>11, <2>3 DEF s
<1> QED  BY <1>1, <1>10, <1>11

\* For every text: a file of it, in UTF-8 or with the BOM of UTF-16, or in UTF-16 without one if
\* it is three characters of ASCII or more, is read as that text and never refused, and what is
\* written is the text behind the header in the encoding of the output, as the standard has it
\* (src/unicode.cpp, both directions, and the choice of uncrustify_file()).
THEOREM TextsKept == Spec => []TextKept
<1>1. ASSUME TwoRuns, KnownRun PROVE TextKept
  <2>1. Inv /\ FirstRun /\ Outputting
    BY <1>1 DEF TwoRuns
  <2>2. known # {} /\ earlier = <<>> => place # "error"
    BY <1>1 DEF KnownRun, KnownAs
  <2>3. place = "write" /\ earlier = <<>> => known \subseteq {data}
    BY <1>1 DEF KnownRun, KnownAs
  <2> QED  BY <1>1, <2>1, <2>2, <2>3, OutputStandard DEF TextKept
<1>2. TwoRuns => Inv
  BY DEF TwoRuns
<1>3. TwoRuns /\ KnownRun /\ [Next]_vars => KnownRun'
  BY <1>2, KnownGoesOn
<1> QED  BY TwoRunsStart, TwoRunsGoOn, KnownStarts, <1>1, <1>3, PTL DEF Spec
=============================================================================
