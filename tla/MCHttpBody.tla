----------------------------- MODULE MCHttpBody -----------------------------
(* Responses for TLC: every framing, with content bytes that look like     *)
(* framing ("r", "n", digits), chunk extensions and trailers, line ends    *)
(* with and without CR, content above the page capacity, headers above the *)
(* buffer's, and broken chunk framing.                                     *)
EXTENDS HttpBody

MCHeader(n) == [i \in 1 .. n |-> "h"]
MCEol(n) == IF n = 2 THEN <<"r", "n">> ELSE <<"n">>

MCBodies == {<<>>, <<"a">>, <<"n">>, <<"a", "r">>, <<"n", "<">>, <<"a", "b", "n">>, <<"0", "n", "a", "b", "a">>}

(* Codings and the bytes under them, the content first: content that fits  *)
(* or not, HTML or not, and brotli that looks like HTML.                   *)
MCGzip == <<"1f", "8b">>
MCForms ==
  { <<b>> : b \in MCBodies } \cup
  { << b, z >> : b \in {<<"a">>, <<"<">>, <<"a", "b", "a", "b">>}, z \in {MCGzip, MCGzip \o <<"a", "b">>, <<"b">>, <<"<", "b">>,
                                                                       <<"<", "b", "a", "a">>} } \cup
  { << <<"a">>, <<"b">>, MCGzip >>, << <<"<">>, MCGzip, MCGzip >>, << <<"a">>, MCGzip, <<"b">> >> }
MCOuter(z) == IF GzipMagic(z) THEN {"gzip"} ELSE {"deflate", "br"}
MCCodings(f) == { c \in [1 .. Len(f) - 1 -> Codings] : \A k \in 1 .. Len(f) - 1 : c[k] \in MCOuter(f[k + 1]) }
MCCoded == UNION { { [codings |-> c, bytes |-> [k \in 0 .. Len(f) - 1 |-> f[k + 1]]] : c \in MCCodings(f) } : f \in MCForms }

\* The label is right, missing, too short, too long or wrong.
MCLabels(c) == {c, <<>>, <<"gzip">>, <<"br">>, <<"gzip", "gzip">>, <<"gzip", "br", "gzip", "gzip">>}

MCPlain(h, framing, coded, labels) ==
  { [framing |-> framing, length |-> IF framing = "length" THEN Len(b) ELSE NoLength, refused |-> FALSE,
     layers |-> l, codings |-> coded.codings, bytes |-> coded.bytes, body |-> b, header |-> h, sound |-> TRUE,
     wire |-> MCHeader(h) \o b] : l \in labels, b \in {coded.bytes[Len(coded.codings)]} }
MCPlainAll(h, framing) == UNION { MCPlain(h, framing, c, MCLabels(c.codings)) : c \in MCCoded }
MCPlainBare(h) == UNION { MCPlain(h, "length", c, {<<>>}) : c \in {d \in MCCoded : d.codings = <<>>} }
MCRefused == { [m EXCEPT !.refused = TRUE] : m \in MCPlainBare(3) }

(* Two chunks of one or two bytes, the last chunk, and a trailer or none.  *)
MCDigit == <<"1", "2">>
MCChunk(at, from, data, ext, eol) ==
  [at |-> at, text |-> 1 + Len(ext), eol |-> eol, size |-> Len(data), gap |-> eol, from |-> from]
MCLine(at, text, eol) == [at |-> at, text |-> text, eol |-> eol]

MCChunked(d1, d2, ext, trailer, eol, coded) ==
  LET c1 == MCChunk(3, 0, d1, ext, eol)
      c2 == MCChunk(LineEnd(DataEnd(c1)), Len(d1), d2, <<>>, 2)
      c3 == MCChunk(LineEnd(DataEnd(c2)), Len(d1 \o d2), <<>>, <<>>, 2)
      t1 == MCLine(LineEnd(c3), 1, eol)
      t2 == MCLine(IF trailer THEN LineEnd(t1) ELSE LineEnd(c3), 0, eol)
  IN  [framing |-> "chunked", length |-> NoLength, layers |-> coded, refused |-> FALSE, body |-> d1 \o d2,
       codings |-> coded, bytes |-> [k \in 0 .. Len(coded) |-> IF k = Len(coded) THEN d1 \o d2 ELSE IF k = 0 THEN <<"<">> ELSE MCGzip],
       sound |-> TRUE, header |-> 3, chunks |-> <<c1, c2, c3>>,
       trailers |-> IF trailer THEN <<t1, t2>> ELSE <<t2>>,
       wire |-> MCHeader(3) \o <<MCDigit[Len(d1)]>> \o ext \o MCEol(eol) \o d1 \o MCEol(eol)
                  \o <<MCDigit[Len(d2)]>> \o MCEol(2) \o d2 \o MCEol(2) \o <<"0">> \o MCEol(2)
                  \o (IF trailer THEN <<"a">> \o MCEol(eol) ELSE <<>>) \o MCEol(eol)]

(* Good chunks or none, one with a bad size line or a bad end, and bytes   *)
(* that look like the end of a response.                                   *)
MCBroken(good, size, data, end, eol) ==
  LET c1 == MCChunk(3, 0, good, <<>>, eol)
      bad == [at |-> IF good = <<>> THEN 3 ELSE LineEnd(DataEnd(c1)), text |-> Len(size), eol |-> 2,
              size |-> IF data = <<>> THEN -1 ELSE Len(data), gap |-> 2, from |-> Len(good)]
  IN  [framing |-> "chunked", length |-> NoLength, layers |-> <<>>, refused |-> FALSE, body |-> good \o data,
       codings |-> <<>>, bytes |-> [k \in {0} |-> good \o data],
       sound |-> FALSE, header |-> 3, chunks |-> IF good = <<>> THEN <<bad>> ELSE <<c1, bad>>, trailers |-> <<>>,
       wire |-> MCHeader(3) \o (IF good = <<>> THEN <<>> ELSE <<"1">> \o MCEol(eol) \o good \o MCEol(eol))
                  \o size \o MCEol(2) \o data \o end \o <<"n", "0", "n", "n", "n">>]

MCResponses ==
  {MCBroken(good, b[1], b[2], b[3], eol) : good \in {<<>>, <<"a">>}, eol \in {1, 2},
      b \in {<< <<"a">>, <<>>, <<>> >>, << <<"2", "2", "2">>, <<>>, <<>> >>,
             << <<"1">>, <<"r">>, <<"a">> >>, << <<"1">>, <<"b">>, <<"r", "r">> >>}} \cup
  MCPlainAll(3, "length") \cup MCPlainAll(3, "close") \cup MCRefused \cup MCPlainBare(12) \cup MCPlainBare(16) \cup
  {MCChunked(d1, d2, ext, trailer, eol, <<>>) :
      d1 \in {<<"a">>, <<"r", "n">>}, d2 \in {<<"b">>, <<"0", "a">>}, ext \in {<<>>, <<";", "a", "2">>},
      trailer \in BOOLEAN, eol \in {1, 2}} \cup
  {MCChunked(<<"1f">>, <<"8b">>, <<>>, FALSE, 2, coded) : coded \in {<<"gzip">>, <<"gzip", "gzip">>}} \cup
  {MCChunked(<<"b">>, <<"b">>, <<>>, FALSE, 2, coded) : coded \in {<<"br">>, <<"deflate">>}}
=============================================================================
