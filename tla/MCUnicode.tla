----------------------------- MODULE MCUnicode -----------------------------
(* The files Unicode is checked with: texts in every encoding, and any bytes *)
(* around the boundaries of the encodings.                                 *)
EXTENDS UnicodeFiles

\* The first and last code points of each length, and of the surrogates' neighbours.
Points == {65, 127, 128, 255, 2047, 2048, 55295, 57344, 65535, 65536, 1114111}
Texts  == {<<>>, <<65, 255, 127, 2048>>, <<65, 127, 65>>, <<65, 127, 65536, 65>>}
          \cup {<<p>> : p \in Points} \cup {<<p, q>> : p, q \in Points}

Options(headers) ==
  [force : BOOLEAN, byte : BOOLEAN, bom : {"ignore", "add", "remove"}, header : headers]
\* Plain, not ASCII, with a 0, with a BOM of its own, half a pair of surrogates.
Headers == {<<>>, <<47, 47>>, <<47, 228>>, <<47, 0>>, <<65279>>, <<55296>>}

\* Any bytes: of the BOMs, the first of each kind of sequence, not the shortest, none.
Edges == {0, 65, 128, 191, 193, 195, 216, 220, 239, 254, 255}
Bytes ==
  {<<a>> : a \in Edges} \cup {<<a, b>> : a, b \in Edges} \cup {<<a, b, c>> : a, b, c \in Edges}
  \cup {<<239, 187, 191, a, b>> : a, b \in Edges}
  \cup {m \o <<a, b, c, d>> : m \in {<<254, 255>>, <<255, 254>>}, a, b, c, d \in {0, 65, 216, 220}}
  \cup {<<a, b, c, d, e, f>> : a, b, c, d, e, f \in {0, 65, 216}}
  \cup {<<a, b, c, d>> : a, b, c, d \in {128, 143, 144, 240, 244, 247, 255}}
  \cup {<<65, 244, 143, 191, 191>>, <<240, 143, 187, 191>>}

Coarse == {o \in Options({<<>>}) : o.bom # "add" /\ (o.byte => ~o.force)}

MCInputs ==
  {[files |-> UNION {{[raw |-> f, text |-> {t}] : f \in FilesOf(t)} : t \in Texts}, options |-> Options(Headers)],
   [files |-> {[raw |-> f, text |-> {}] : f \in Bytes}, options |-> Coarse]}
=============================================================================
