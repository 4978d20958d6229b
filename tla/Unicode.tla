------------------------------ MODULE Unicode ------------------------------
(***************************************************************************)
(* Reading and writing characters (src/unicode.cpp): decode_unicode() finds *)
(* out how the bytes of a file are encoded and turns them into code points; *)
(* uncrustify_file() chooses the encoding of the output (src/uncrustify.cpp) *)
(* and output_text() writes every character in it.                         *)
(*                                                                         *)
(* Bytes and code points are numbers; a mask of the code is an interval, a *)
(* shift a division.  The passes in between are left out: the text that is *)
(* written is the text that was read, behind the file header of the options. *)
(* Then uncrustify is run again on what it has written.                    *)
(***************************************************************************)
EXTENDS Integers, Sequences, FiniteSets

\* A set of [files, options]: every file, its bytes raw and its text if one is known, meets
\* every record of options.  header is
\* cmt_insert_file_header, decoded; force, byte and bom are utf8_force, utf8_byte and utf8_bom.
CONSTANT Inputs

Byte      == {b \in Nat : b < 256}
CodePoint == {c \in Nat : c < 2097152}       \* what decode_utf8() can return
LastCodePoint == 1114111        \* U+10FFFF
Encodings == {"ASCII", "BYTES", "UTF8", "UTF16_LE", "UTF16_BE"}

ASSUME InputsAssumption ==
  \A i \in Inputs :
    /\ \A f \in i.files : f.raw \in Seq(Byte)
    /\ \A o \in i.options : /\ o.header \in Seq(CodePoint)
                            /\ o.force \in BOOLEAN /\ o.byte \in BOOLEAN
                            /\ o.bom \in {"ignore", "add", "remove", "force"}

VARIABLES
  options,
  known,       \* history: the set of the text of the file, or {}
  raw, data,   \* fm.raw, fm.data
  encoding,    \* fm.encoding
  hasBom,      \* fm.hasBom
  idx,         \* the bytes the decoder has gone over
  place,       \* where the run is
  outEncoding, outBom,   \* cpd.encoding, cpd.hasBom
  text,        \* the characters to write
  written,     \* how many of them are
  out,         \* the bytes of the output
  ends,        \* history: idx behind each character of data
  skipped,     \* history: idx where the decoder began
  earlier      \* history: the text and encoding of the output of the first run, <<>> before

file == <<raw, data, encoding, hasBom, idx, ends, skipped>>
output == <<outEncoding, outBom, text, written, out>>
vars == <<options, known, file, place, output, earlier>>

-----------------------------------------------------------------------------
(* Encoding a character                                                    *)

encode_utf8(ch) ==
  CASE ch < 128                   -> <<ch>>
    [] 128 <= ch /\ ch < 2048     -> <<192 + (ch \div 64), 128 + (ch % 64)>>
    [] 2048 <= ch /\ ch < 65536   -> <<224 + (ch \div 4096), 128 + ((ch \div 64) % 64), 128 + (ch % 64)>>
    [] 65536 <= ch /\ ch <= LastCodePoint ->
         <<240 + (ch \div 262144), 128 + ((ch \div 4096) % 64), 128 + ((ch \div 64) % 64), 128 + (ch % 64)>>
    [] OTHER -> <<>>

\* Mutant: the order of the bytes is always the same.
WordBytesSwapped(w, e) == <<w \div 256, w % 256>>

WordBytes(w, e) == IF e = "UTF16_BE" THEN <<w \div 256, w % 256>> ELSE <<w % 256, w \div 256>>

write_utf16(ch, e) ==
  CASE ch < 55296 \/ (57344 <= ch /\ ch < 65536) -> WordBytes(ch, e)
    [] 65536 <= ch /\ ch <= LastCodePoint ->
         WordBytes(55296 + ((ch - 65536) \div 1024), e) \o WordBytes(56320 + ((ch - 65536) % 1024), e)
    [] OTHER -> <<>>

write_byte(ch) == IF ch \in Byte THEN <<ch>> ELSE <<>>

write_char(e, ch) ==
  CASE e = "UTF8"     -> encode_utf8(ch)
    [] e \in {"UTF16_LE", "UTF16_BE"} -> write_utf16(ch, e)
    [] OTHER          -> write_byte(ch)

\* Mutant: the BOM of UTF-8 in every encoding.
write_bom_utf8(e) == IF e \in {"UTF8", "UTF16_LE", "UTF16_BE"} THEN encode_utf8(65279) ELSE <<>>

write_bom(e) == IF e \in {"UTF8", "UTF16_LE", "UTF16_BE"} THEN write_char(e, 65279) ELSE <<>>

-----------------------------------------------------------------------------
(* Reading                                                                 *)

StartsWith(bytes) == Len(raw) >= Len(bytes) /\ \A i \in DOMAIN bytes : raw[i] = bytes[i]

decode_bom ==
  CASE StartsWith(<<254, 255>>)      -> "UTF16_BE"
    [] StartsWith(<<255, 254>>)      -> "UTF16_LE"
    [] StartsWith(<<239, 187, 191>>) -> "UTF8"
    [] OTHER                         -> "ASCII"

Zeros == Cardinality({i \in DOMAIN raw : raw[i] = 0})
\* Mutant: a zero is as good as any other byte.
is_ascii_zero == \A i \in DOMAIN raw : raw[i] < 128

is_ascii == \A i \in DOMAIN raw : raw[i] > 0 /\ raw[i] < 128

\* "There are a lot of 0's in the input data", and the guess of decode_utf16() without a BOM.
LooksLike(zeros) == /\ Zeros > Len(raw) \div 4 /\ Zeros <= Len(raw) \div 2
                    /\ Len(raw) % 2 = 0 /\ Len(raw) >= 6
                    /\ \A i \in zeros : raw[i] = 0
GuessUtf16 ==
  IF LooksLike({1, 3, 5}) THEN "UTF16_BE" ELSE IF LooksLike({2, 4, 6}) THEN "UTF16_LE" ELSE "ASCII"

\* Mutant: every first byte that is left starts four.
CharCntWide(b) ==
  CASE b < 128             -> 1
    [] 192 <= b /\ b < 224 -> 2
    [] 224 <= b /\ b < 240 -> 3
    [] 240 <= b /\ b < 256 -> 4
    [] OTHER               -> 0

\* The length of a UTF-8 sequence by its first byte, 0 if there is none that starts with it.
CharCnt(b) ==
  CASE b < 128             -> 1
    [] 192 <= b /\ b < 224 -> 2
    [] 224 <= b /\ b < 240 -> 3
    [] 240 <= b /\ b < 248 -> 4
    [] OTHER               -> 0

\* decode_utf8(): is there a sequence from idx on, and which code point is it?
ValidUtf8(n) ==
  n > 0 /\ idx + n <= Len(raw) /\ \A i \in idx + 2 .. idx + n : raw[i] >= 128 /\ raw[i] < 192
Tail6(k) == raw[idx + k] - 128
Utf8At(n) ==
  LET two   == (raw[idx + 1] - 192) * 64 + Tail6(2)
      three == ((raw[idx + 1] - 224) * 64 + Tail6(2)) * 64 + Tail6(3)
      four  == (((raw[idx + 1] - 240) * 64 + Tail6(2)) * 64 + Tail6(3)) * 64 + Tail6(4)
  IN  CASE n = 1 -> raw[idx + 1] [] n = 2 -> two [] n = 3 -> three [] n = 4 -> four

\* get_word()
Word(k) ==
  IF k + 2 > Len(raw) THEN -1
    ELSE IF encoding = "UTF16_BE" THEN raw[k + 1] * 256 + raw[k + 2] ELSE raw[k + 2] * 256 + raw[k + 1]
High(w) == 55296 <= w /\ w < 56320
Low(w)  == 56320 <= w /\ w < 57344

-----------------------------------------------------------------------------
Init ==
  /\ \E i \in Inputs : \E f \in i.files :
       options \in i.options /\ raw = f.raw /\ known = f.text
  /\ data = <<>> /\ encoding = "ASCII" /\ hasBom = FALSE /\ idx = 0
  /\ place = "bom"
  /\ outEncoding = "ASCII" /\ outBom = FALSE /\ text = <<>> /\ written = 0 /\ out = <<>>
  /\ ends = <<>> /\ skipped = 0 /\ earlier = <<>>

\* The decoder begins behind n bytes.
Decode(decoder, n) ==
  /\ place' = decoder
  /\ idx' = n /\ skipped' = n
  /\ data' = <<>> /\ ends' = <<>>
  /\ UNCHANGED <<options, known, raw, output, earlier>>

DetectBom ==
  /\ place = "bom"
  /\ encoding' = decode_bom
  /\ hasBom' = (decode_bom # "ASCII")
  /\ CASE decode_bom = "ASCII" -> Decode("guess", 0)
       [] decode_bom = "UTF8"  -> Decode("utf8", 3)
       [] OTHER                -> IF Len(raw) % 2 = 1 THEN Decode("error", 0) ELSE Decode("utf16", 2)

\* decode_bytes()
DecodeBytes(e) ==
  /\ encoding' = e
  /\ data' = raw
  /\ idx' = Len(raw) /\ skipped' = 0
  /\ ends' = [i \in DOMAIN raw |-> i]
  /\ place' = "loaded"
  /\ UNCHANGED <<options, known, raw, hasBom, output, earlier>>

Guess ==
  /\ place = "guess"
  /\ CASE is_ascii               -> DecodeBytes("ASCII")
       [] ~is_ascii /\ GuessUtf16 # "ASCII" -> encoding' = GuessUtf16 /\ UNCHANGED hasBom /\ Decode("utf16", 0)
       [] OTHER                  -> UNCHANGED <<encoding, hasBom>> /\ Decode("utf8", 0)

\* A character of n bytes has been read.
Push(ch, n) ==
  /\ data' = Append(data, ch)
  /\ ends' = Append(ends, idx + n)
  /\ idx' = idx + n
  /\ UNCHANGED <<options, known, raw, encoding, hasBom, skipped, place, output, earlier>>

ReadUtf8 ==
  /\ place = "utf8" /\ idx < Len(raw)
  /\ \E n \in {CharCnt(raw[idx + 1])} :
       CASE ValidUtf8(n)            -> Push(Utf8At(n), n)
         [] ~ValidUtf8(n) /\ hasBom  -> UNCHANGED <<encoding, hasBom>> /\ Decode("error", 0)
         [] OTHER                   -> DecodeBytes("BYTES")

\* Mutant: the second of a pair of surrogates may stand alone.
ReadUtf16Lone ==
  /\ place = "utf16" /\ idx < Len(raw)
  /\ LET w   == Word(idx)
         tmp == Word(idx + 2)
     IN  CASE High(w) /\ Low(tmp) -> Push((w - 55296) * 1024 + (tmp - 56320) + 65536, 4)
           [] ~High(w)           -> Push(w, 2)
           [] OTHER -> /\ UNCHANGED <<encoding, hasBom>>
                       /\ IF hasBom THEN Decode("error", 0) ELSE Decode("utf8", 0)

ReadUtf16 ==
  /\ place = "utf16" /\ idx < Len(raw)
  /\ LET w   == Word(idx)
         tmp == Word(idx + 2)
     IN  CASE High(w) /\ Low(tmp)     -> Push((w - 55296) * 1024 + (tmp - 56320) + 65536, 4)
           [] ~High(w) /\ ~Low(w)     -> Push(w, 2)
           [] OTHER -> /\ UNCHANGED <<encoding, hasBom>>
                       /\ IF hasBom THEN Decode("error", 0) ELSE Decode("utf8", 0)

EndOfFile ==
  /\ place \in {"utf8", "utf16"} /\ idx = Len(raw)
  /\ encoding' = IF place = "utf8" THEN "UTF8" ELSE encoding
  /\ place' = "loaded"
  /\ UNCHANGED <<options, known, raw, data, hasBom, idx, ends, skipped, output, earlier>>

-----------------------------------------------------------------------------
(* Writing                                                                 *)

\* "Check for embedded 0's": the last character is not looked at.
EmbeddedZero == \E i \in 1 .. Len(data) - 1 : data[i] = 0

OutEncoding == IF options.force \/ (encoding = "BYTES" /\ options.byte) THEN "UTF8" ELSE encoding
OutBom ==
  LET av == CASE OutEncoding = "UTF8" -> options.bom
              [] OutEncoding \in {"UTF16_LE", "UTF16_BE"} -> "force"
              [] OTHER -> "ignore"
  IN  IF av = "ignore" THEN hasBom ELSE av # "remove"

\* The head of uncrustify_file(), add_file_header() and the BOM of output_text().
Begin ==
  /\ place = "loaded"
  /\ outEncoding' = OutEncoding /\ outBom' = OutBom
  /\ IF EmbeddedZero
       THEN place' = "error" /\ UNCHANGED <<text, out>>
       ELSE /\ place' = "write"
            /\ text' = (IF earlier = <<>> THEN options.header ELSE <<>>) \o data
            /\ out' = IF OutBom THEN write_bom(OutEncoding) ELSE <<>>
  /\ written' = 0
  /\ UNCHANGED <<options, known, file, earlier>>

WriteChar ==
  /\ place = "write" /\ written < Len(text)
  /\ out' = out \o write_char(outEncoding, text[written + 1])
  /\ written' = written + 1
  /\ UNCHANGED <<options, known, file, place, outEncoding, outBom, text, earlier>>

\* The next run over the same file; it has its header.
RunAgain ==
  /\ place = "write" /\ written = Len(text) /\ earlier = <<>>
  /\ earlier' = <<[text |-> text, encoding |-> outEncoding]>>
  /\ raw' = out /\ data' = <<>> /\ encoding' = "ASCII" /\ hasBom' = FALSE /\ idx' = 0
  /\ ends' = <<>> /\ skipped' = 0
  /\ place' = "bom"
  /\ UNCHANGED <<options, known, output>>

Next == DetectBom \/ Guess \/ ReadUtf8 \/ ReadUtf16 \/ EndOfFile \/ Begin \/ WriteChar \/ RunAgain

Spec == Init /\ [][Next]_vars
-----------------------------------------------------------------------------
(* Properties                                                              *)

\* The bytes up to the end of character n of data.
Upto(n) == IF n = 0 THEN skipped ELSE ends[n]

\* A code point that took n bytes of UTF-8 needs them all, and is one: decode_utf8() accepts
\* others, which cannot be given back.
ShortestIn(n, ch) ==
  CASE n = 1 -> ch < 128
    [] n = 2 -> 128 <= ch
    [] n = 3 -> 2048 <= ch
    [] OTHER -> 65536 <= ch /\ ch <= LastCodePoint
Shortest ==
  encoding = "UTF8" => \A i \in DOMAIN data : ShortestIn(Upto(i) - Upto(i - 1), data[i])

TypeOK ==
  /\ options.header \in Seq(CodePoint)
  /\ raw \in Seq(Byte) /\ data \in Seq(CodePoint) /\ text \in Seq(CodePoint) /\ out \in Seq(Byte)
  /\ encoding \in Encodings /\ outEncoding \in Encodings
  /\ hasBom \in BOOLEAN /\ outBom \in BOOLEAN
  /\ idx \in Nat /\ skipped \in Nat /\ written \in Nat /\ ends \in Seq(Nat)
  /\ place \in {"bom", "guess", "utf8", "utf16", "loaded", "write", "error"}
  /\ earlier \in Seq([text : Seq(CodePoint), encoding : Encodings]) /\ Len(earlier) <= 1

\* Whatever decode_unicode() takes a file for, right or wrong: as long as the encoding is
\* kept, the bytes of the characters written are the bytes they were read from, all of them,
\* behind the BOM (unicode.cpp, both directions).  Left out are files that hold, read as
\* UTF-8, an overlong sequence or a code point above U+10FFFF (Shortest): OnlyIllegalLost
\* says what becomes of those.
SameBytes ==
  place = "write" /\ outEncoding = encoding /\ text = data /\ Shortest =>
    /\ out = (IF outBom THEN write_bom(outEncoding) ELSE <<>>) \o SubSeq(raw, skipped + 1, Upto(written))
    /\ written = Len(text) => Upto(written) = Len(raw)

\* decode_utf8() also accepts code points above U+10FFFF and sequences that are longer than
\* need be, and encode_utf8() drops the first ("illegal code - do not store") and shortens
\* the others.  These are lost, and nothing else is: of the characters of a file, behind
\* any header, exactly those above U+10FFFF leave the output as it is, in every encoding;
\* and when the encoding is kept, exactly those two kinds do not come back as the bytes
\* they were read from (unicode.cpp).
OnlyIllegalLost ==
  [][ WriteChar /\ written >= Len(text) - Len(data) =>
        LET i == written + 1 - (Len(text) - Len(data))
        IN  /\ out' = out <=> data[i] > LastCodePoint
            /\ outEncoding = encoding =>
                 (out' = out \o SubSeq(raw, Upto(i - 1) + 1, Upto(i))
                    <=> (encoding = "UTF8" => ShortestIn(Upto(i) - Upto(i - 1), data[i]))) ]_vars

\* What the next run must find in the text t to take its encoding for e: no character the
\* encoding cannot hold, no BOM of its own, and no header that only the first run sees, with
\* a 0 (EmbeddedZero looks at the file) or characters that are not ASCII.
Fits(t, e) ==
  /\ \A i \in DOMAIN t : write_char(e, t[i]) # <<>>
  /\ t # <<>> => t[1] # 65279
  /\ \A i \in DOMAIN options.header :
       /\ options.header[i] # 0
       /\ e \in {"ASCII", "BYTES"} => options.header[i] < 128

\* The next run takes what this run wrote for what it is: it reads the same characters
\* and writes the same bytes, with the options of the first (unicode.cpp, uncrustify.cpp).
ReadsBack ==
  earlier # <<>> /\ Fits(earlier[1].text, earlier[1].encoding) =>
    /\ place # "error"
    /\ place = "write" => text = earlier[1].text
    /\ place = "write" /\ written = Len(text) => out = raw
=============================================================================
