---------------------------- MODULE UnicodeFiles ----------------------------
(* The files Unicode promises to read: those of a text, in one of the        *)
(* encodings of the standard.                                                *)
EXTENDS Unicode

Standard == INSTANCE UnicodeText

\* The code points that are characters, and the texts of them: without a 0, and no BOM
\* but that of the file.
Scalar(c) == c \in CodePoint /\ c <= LastCodePoint /\ ~High(c) /\ ~Low(c)
IsText(t) ==
  /\ t \in Seq(CodePoint)
  /\ \A i \in DOMAIN t : Scalar(t[i]) /\ t[i] # 0
  /\ t # <<>> => t[1] # 65279

\* The files of a text.  Without a BOM UTF-16 is a guess, for three characters or more.
Ascii(t) == \A i \in DOMAIN t : t[i] < 128
FilesOf(t) ==
  {Standard!Encoded("UTF8", t), Standard!WithBom("UTF8", t), Standard!WithBom("UTF16_LE", t), Standard!WithBom("UTF16_BE", t)}
  \cup (IF Ascii(t) /\ Len(t) >= 3 THEN {Standard!Encoded(e, t) : e \in {"UTF16_LE", "UTF16_BE"}} ELSE {})

\* A file whose text is known is one of its files.
ASSUME TextsAssumption ==
  \A i \in Inputs : \A f \in i.files : \A t \in f.text : IsText(t) /\ f.raw \in FilesOf(t)

\* A file in one of the encodings is read as the text it is, and what is written is that
\* text behind the header in the encoding of the output, as the standard defines it, unless
\* the header has something that is no character, or none of that encoding.
TextKept ==
  LET fits == \A i \in DOMAIN options.header :
                Scalar(options.header[i]) /\ (outEncoding = "ASCII" => options.header[i] < 256)
  IN  /\ known # {} /\ earlier = <<>> => place # "error"
      /\ place = "write" /\ earlier = <<>> =>
        /\ known \subseteq {data}
        /\ known # {} /\ fits /\ written = Len(text) =>
             out = IF outBom THEN Standard!WithBom(outEncoding, text) ELSE Standard!Encoded(outEncoding, text)
=============================================================================
