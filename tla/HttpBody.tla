------------------------------ MODULE HttpBody ------------------------------
(***************************************************************************)
(* The HTTP response decoder of kernel/src/net.rs: the header buffer, the  *)
(* Content-Length countdown, the chunked decoder and the bounded page.     *)
(*                                                                         *)
(* A response is one wire string cut into segments at any place.  Bytes    *)
(* are tokens: "r" and "n" for CR and LF, the hexadecimal digits "0" ..    *)
(* "2", ";" and, for the rest, content bytes.  Of the header only its      *)
(* length and what its parsers return matter: the framing of the response. *)
(* The two loops over bytes take one step per byte, so that what they      *)
(* compute is an invariant of the steps.                                   *)
(***************************************************************************)
EXTENDS Integers, Sequences, SequencesExt

CONSTANTS
  StreamCap,     \* STREAM_CAP: header buffer (4096)
  PageCap,       \* PAGE_CAP: page (65536)
  LineCap,       \* CHUNK_LINE_CAP (24)
  TailPiece,     \* bytes of the header buffer handed to the chunk decoder at a time (256)
  SizeMax,       \* usize::MAX
  SegmentSizes,  \* payload sizes the network uses
  Responses      \* what servers send

ASSUME CapsAssumption ==
  /\ StreamCap \in Nat \ {0} /\ PageCap \in Nat /\ PageCap >= 2 /\ LineCap \in Nat \ {0}
  /\ TailPiece \in Nat \ {0} /\ SizeMax \in Nat
  /\ SegmentSizes \subseteq Nat \ {0}

NoLength == -1     \* no Content-Length header
MaxLayers == 4     \* body_layers
Codings == {"gzip", "deflate", "br"}

Smaller(a, b) == IF a < b THEN a ELSE b

Digit == [d \in {"0", "1", "2"} |-> CASE d = "0" -> 0 [] d = "1" -> 1 [] d = "2" -> 2]

(* parse_chunk_size_line: hexadecimal up to an extension; -1 for None.     *)
ParseChunkSize(line) ==
  LET Add(a, b) ==
        IF a.end \/ a.size = -1 THEN a
        ELSE IF b = ";" THEN [a EXCEPT !.end = TRUE]
        ELSE IF b \notin DOMAIN Digit \/ a.size * 16 + Digit[b] > SizeMax
             THEN [a EXCEPT !.size = -1]
        ELSE [a EXCEPT !.size = @ * 16 + Digit[b]]
  IN  FoldLeft(Add, [size |-> 0, end |-> FALSE], line).size

(***************************************************************************)
(* What servers send.  framing and layers are what the header parsers      *)
(* report (layers: the codings Content-Encoding names, in the order they   *)
(* are applied; refused: an unknown one, or more than MaxLayers); header   *)
(* is the length of the header, wire all bytes, body what the framing      *)
(* carries.  codings are the codings that were really applied, and         *)
(* bytes[k] is the content with the first k of them on, bytes[0] the       *)
(* content itself.  A chunked response says where its chunks and the lines *)
(* behind the last one are, which the decoder does not look at; if it is   *)
(* not sound its last chunk breaks the framing, and what follows is        *)
(* anything.                                                               *)
(***************************************************************************)
LineEnd(l) == l.at + l.text + l.eol

\* A line: text without CR or LF, then CR LF or a bare LF.
LineOk(m, l) ==
  /\ l.at \in Nat /\ l.text \in Nat /\ l.eol \in {1, 2} /\ LineEnd(l) <= Len(m.wire)
  /\ \A i \in l.at + 1 .. l.at + l.text : m.wire[i] \notin {"r", "n"}
  /\ m.wire[LineEnd(l)] = "n" /\ (l.eol = 2 => m.wire[l.at + l.text + 1] = "r")

\* The line end behind the data of chunk c.
DataEnd(c) == [at |-> LineEnd(c) + c.size, text |-> 0, eol |-> c.gap]

\* A size line that, as far as the decoder keeps it, reads as the size, or does not
\* read as one (-1).
SizeOk(m, c) ==
  /\ LineOk(m, c) /\ c.size \in Nat \cup {-1} /\ c.from \in Nat
  /\ ParseChunkSize(SubSeq(m.wire, c.at + 1, c.at + Smaller(c.text, LineCap))) = c.size

\* The data of a chunk are bytes from + 1 .. from + size of the content.
DataOk(m, c) ==
  /\ c.size > 0 /\ c.from + c.size <= Len(m.body) /\ LineEnd(c) + c.size < Len(m.wire)
  /\ \A k \in 1 .. c.size : m.wire[LineEnd(c) + k] = m.body[c.from + k]

\* No line end where the data of chunk c end.
NoDataEnd(m, c) ==
  LET p == LineEnd(c) + c.size
  IN  \/ m.wire[p + 1] \notin {"r", "n"}
      \/ m.wire[p + 1] = "r" /\ p + 2 <= Len(m.wire) /\ m.wire[p + 2] # "n"

\* Behind the last chunk: trailer lines and a blank line.
TrailersOk(m, last) ==
  LET k == Len(m.trailers)
  IN  /\ k \in Nat \ {0} /\ m.trailers[1].at = LineEnd(last)
      /\ \A j \in 1 .. k : LineOk(m, m.trailers[j]) /\ (m.trailers[j].text = 0 <=> j = k)
      /\ \A j \in 1 .. k - 1 : m.trailers[j + 1].at = LineEnd(m.trailers[j])
      /\ LineEnd(m.trailers[k]) = Len(m.wire)

\* Chunks of data, each where the one before it ends; then the one of size 0 with the
\* trailers, or one with a bad size line or a bad end.
ChunkedOk(m) ==
  LET n == Len(m.chunks)
      last == m.chunks[n]
  IN  /\ n \in Nat \ {0} /\ m.chunks[1].at = m.header /\ m.chunks[1].from = 0
      /\ \A i \in 1 .. n : SizeOk(m, m.chunks[i])
      /\ \A i \in 1 .. n - 1 : /\ DataOk(m, m.chunks[i]) /\ LineOk(m, DataEnd(m.chunks[i]))
                              /\ m.chunks[i + 1].at = LineEnd(DataEnd(m.chunks[i]))
                              /\ m.chunks[i + 1].from = m.chunks[i].from + m.chunks[i].size
      /\ IF m.sound THEN last.size = 0 /\ last.from = Len(m.body) /\ TrailersOk(m, last)
         ELSE last.from <= Len(m.body) /\ (last.size = -1 \/ (DataOk(m, last) /\ NoDataEnd(m, last)))

PlainOk(m) ==
  /\ m.sound /\ Len(m.wire) = m.header + Len(m.body)
  /\ \A k \in 1 .. Len(m.body) : m.wire[m.header + k] = m.body[k]
  /\ m.length = IF m.framing = "length" THEN Len(m.body) ELSE NoLength

\* The magic 1F 8B.
GzipMagic(b) == Len(b) >= 2 /\ b[1] = "1f" /\ b[2] = "8b"

CodingsOk(m) ==
  LET n == Len(m.codings)
  IN  /\ m.codings \in Seq(Codings) /\ m.bytes \in [0 .. n -> Seq(STRING)] /\ m.bytes[n] = m.body
      /\ \A k \in 1 .. n : m.codings[k] = "gzip" => GzipMagic(m.bytes[k])

ASSUME ResponsesAssumption ==
  \A m \in Responses :
    /\ m.wire \in Seq(STRING) /\ m.body \in Seq(STRING) /\ m.header \in 1 .. Len(m.wire)
    /\ m.framing \in {"length", "chunked", "close"}
    /\ IF m.framing = "chunked" THEN ChunkedOk(m) ELSE PlainOk(m)
    /\ m.sound \in BOOLEAN /\ m.refused \in BOOLEAN
    /\ m.layers \in Seq(Codings) /\ Len(m.layers) <= MaxLayers /\ CodingsOk(m)

VARIABLES
  msg,     \* the response
  sent,    \* bytes of it delivered
  eof,     \* the FIN was handled
  http,    \* the decoder's part of struct NetStack
  call,    \* the loop of ingest_tcp_payload in progress
  dropped  \* history: bytes found no room in the header buffer

vars == <<msg, sent, eof, http, call, dropped>>

----------------------------------------------------------------------------
SetErr(s, e) == [s EXCEPT !.fetch_err = e, !.fetch_done = TRUE]

(* The bytes of the page.  In http.page it keeps the tokens that came; when *)
(* codings have come off, `coded' says how many are left.                  *)
Bytes(m, s) == IF s.coded = Len(m.codings) THEN s.page ELSE m.bytes[s.coded]

(* decompress_gzip_once, decompress_zlib_once, decompress_brotli_once: the *)
(* outermost of k codings comes off if it is c, the page is whole and what *)
(* comes out fits.                                                         *)
Decompresses(s, k, c) ==
  /\ k > 0 /\ msg.codings[k] = c
  /\ ~s.page_truncated /\ s.page = msg.body /\ Len(msg.bytes[k - 1]) <= PageCap

(* decompress_body_layers: the j-th layer from the outside comes off; how  *)
(* many come off before one does not.                                      *)
LayerComesOff(s, j) == Decompresses(s, s.coded - j + 1, s.body_layers[Len(s.body_layers) - j + 1])
LayersOff(s) ==
  CHOOSE d \in 0 .. Len(s.body_layers) :
    /\ \A j \in 1 .. d : LayerComesOff(s, j)
    /\ d < Len(s.body_layers) => ~LayerComesOff(s, d + 1)

BodyStartsLikeHtml(page) ==
  \E i \in DOMAIN page : page[i] = "<" /\ \A j \in 1 .. i - 1 : page[j] \in {"r", "n"}

Done(s, off) == [s EXCEPT !.coded = @ - off, !.fetch_done = TRUE]

Mut_FinishTrustsLabel(s) ==
  LET d == LayersOff(s)
  IN  IF s.fetch_done THEN s
      ELSE IF d = Len(s.body_layers) THEN Done(s, d)
      ELSE SetErr(s, "BODY BAD")

(* finish_fetch: a settled fetch stays.  The labelled codings come off the *)
(* page; where one does not, what is left is shown if it is cleartext HTML *)
(* after all.  Off a page without a label comes one gzip, if the magic is  *)
(* there.  Anything else is an error (BODY BAD: GZIP, ZLIB or BR, and      *)
(* SHORT, HDR, BIG, INT or BAD).                                           *)
FinishFetch(s) ==
  LET n == Len(s.body_layers)
      d == LayersOff(s)
      left == [s EXCEPT !.coded = @ - d]
  IN  IF s.fetch_done THEN s
      ELSE IF n = 0 /\ ~GzipMagic(s.page) THEN Done(s, 0)
      ELSE IF n = 0 THEN IF Decompresses(s, s.coded, "gzip") THEN Done(s, 1) ELSE SetErr(s, "BODY BAD")
      ELSE IF d = n THEN Done(s, n)
      ELSE IF BodyStartsLikeHtml(Bytes(msg, left)) THEN [Done(s, d) EXCEPT !.body_layers = <<>>]
      ELSE SetErr(left, "BODY BAD")

(* Mut_...: faulty variants of the definition that follows.                *)
Mut_PagePushUnbounded(s, b) == [s EXCEPT !.page = Append(@, b)]
Mut_PagePushSilent(s, b) ==
  IF Len(s.page) < PageCap THEN [s EXCEPT !.page = Append(@, b)] ELSE s

PagePushByte(s, b) ==
  IF Len(s.page) < PageCap THEN [s EXCEPT !.page = Append(@, b)]
  ELSE [s EXCEPT !.page_truncated = TRUE]

(* append_to_page: only the bytes that found room count down the length.   *)
AppendToPage(s, data) ==
  LET room == PageCap - Len(s.page)
      n    == Smaller(Len(data), room)
      rem  == s.http_body_remaining
      s1   == [s EXCEPT !.page = @ \o SubSeq(data, 1, n),
                        !.page_truncated = @ \/ Len(data) > n]
      s2   == [s1 EXCEPT !.http_body_remaining = IF rem < n THEN 0 ELSE rem - n]
  IN  IF rem = NoLength THEN s1
      ELSE IF s2.http_body_remaining = 0 THEN FinishFetch(s2) ELSE s2

LineAppend(s, b) ==
  IF b # "r" /\ Len(s.chunk_line) < LineCap
  THEN [s EXCEPT !.chunk_line = Append(@, b)] ELSE s

ChunkSizeByte(s, b) ==
  IF b # "n" THEN LineAppend(s, b)
  ELSE LET size == ParseChunkSize(s.chunk_line)
       IN  IF size = -1 THEN [SetErr(s, "HTTP CHUNK SZ") EXCEPT !.stop = TRUE]
           ELSE [s EXCEPT !.chunk_line = <<>>, !.chunk_rem = size,
                          !.chunk_phase = IF size = 0 THEN "Trailers" ELSE "Data"]

ChunkDataByte(s, b) ==
  [PagePushByte(s, b) EXCEPT !.chunk_rem = @ - 1,
                             !.chunk_phase = IF s.chunk_rem = 1 THEN "AfterData0" ELSE "Data"]

Mut_AfterDataSkips(s, b) ==
  IF s.chunk_phase = "AfterData0" /\ b = "r" THEN [s EXCEPT !.chunk_phase = "AfterData1"]
  ELSE [s EXCEPT !.chunk_phase = IF b = "n" THEN "SizeLine" ELSE @]

(* CR LF or a bare LF after the data of a chunk.                           *)
ChunkAfterData(s, b) ==
  IF s.chunk_phase = "AfterData0" /\ b = "r" THEN [s EXCEPT !.chunk_phase = "AfterData1"]
  ELSE IF b = "n" THEN [s EXCEPT !.chunk_phase = "SizeLine"]
  ELSE [SetErr(s, "HTTP CHUNK CRLF") EXCEPT !.stop = TRUE]

Mut_TrailerKeepsLine(s, b) ==
  IF b # "n" THEN LineAppend(s, b)
  ELSE IF s.chunk_line = <<>> THEN [FinishFetch(s) EXCEPT !.stop = TRUE]
  ELSE s

ChunkTrailerByte(s, b) ==
  IF b # "n" THEN LineAppend(s, b)
  ELSE IF s.chunk_line = <<>> THEN [FinishFetch(s) EXCEPT !.stop = TRUE]
  ELSE [s EXCEPT !.chunk_line = <<>>]

ChunkByte(s, b) ==
  CASE s.chunk_phase = "SizeLine"                     -> ChunkSizeByte(s, b)
    [] s.chunk_phase = "Data"                         -> ChunkDataByte(s, b)
    [] s.chunk_phase \in {"AfterData0", "AfterData1"} -> ChunkAfterData(s, b)
    [] s.chunk_phase = "Trailers"                     -> ChunkTrailerByte(s, b)

(***************************************************************************)
(* ingest_tcp_payload.  A call whose data a loop goes through is            *)
(* [loop, at, lim, end]: the next byte is at + 1, the data end at `end',   *)
(* the present call of ingest_chunked_bytes at lim.                        *)
(***************************************************************************)
NoCall == [loop |-> "none", at |-> 0, lim |-> 0, end |-> 0]
Loop(loop, from, to, piece) ==
  [loop |-> loop, at |-> from, lim |-> Smaller(to, from + piece), end |-> to]

\* What follows the push loop, and the end of the first call.
BodyPushed(s) ==
  [(IF s.http_body_remaining = 0 THEN FinishFetch(s) ELSE s) EXCEPT !.stream_len = 0]

(* The header is complete: choose the framing, then take the bytes behind  *)
(* it from the buffer, for the chunk decoder a piece per call.             *)
HeaderComplete(s, end) ==
  LET found == [s EXCEPT !.header_found = TRUE]
      len   == end - msg.header
      plain == [found EXCEPT !.body_layers = msg.layers,
                             !.http_body_remaining =
                                IF msg.length = NoLength THEN NoLength
                                ELSE msg.length - Smaller(len, msg.length)]
  IN  \/ /\ msg.framing = "chunked"    \* Content-Encoding is not read
         /\ http' = [found EXCEPT !.http_chunked = TRUE, !.chunk_phase = "SizeLine", !.chunk_line = <<>>,
                                  !.stream_len = IF len = 0 THEN 0 ELSE @]
         /\ call' = IF len = 0 THEN NoCall ELSE Loop("chunk", msg.header, end, TailPiece)
      \/ /\ msg.framing # "chunked" /\ msg.refused
         /\ http' = SetErr(found, "HTTP ENC")
         /\ UNCHANGED call
      \/ /\ msg.framing # "chunked" /\ ~msg.refused
         /\ http' = IF len = 0 THEN BodyPushed(plain) ELSE plain
         /\ call' = IF len = 0 THEN NoCall ELSE Loop("push", msg.header, end, len)

(* Before the header is complete, only the bytes that fit the header       *)
(* buffer are kept.                                                        *)
IngestHeader(n) ==
  LET room == StreamCap - http.stream_len
      len  == http.stream_len + Smaller(n, room)
      s    == [http EXCEPT !.stream_len = len]
  IN  /\ dropped' = (dropped \/ n > room)
      /\ \/ msg.header <= len /\ HeaderComplete(s, len)
         \/ /\ msg.header > len
            /\ http' = IF len >= StreamCap THEN SetErr(s, "HTTP HDR TOO BIG") ELSE s
            /\ UNCHANGED call

IngestBody(n) ==
  /\ IF http.http_chunked
     THEN call' = Loop("chunk", sent, sent + n, n) /\ UNCHANGED http
     ELSE http' = AppendToPage(http, SubSeq(msg.wire, sent + 1, sent + n)) /\ UNCHANGED call
  /\ UNCHANGED dropped

Mut_EofAlwaysFinishes(s) == FinishFetch(s)
(* finish_plain_http_on_tcp_eof, and the end of tls_pump_application.      *)
FinishOnEof(s) ==
  IF s.http_chunked /\ ~s.fetch_done THEN SetErr(s, "HTTP CHUNK EOF") ELSE FinishFetch(s)

----------------------------------------------------------------------------
Init ==
  /\ msg \in Responses
  /\ sent = 0 /\ eof = FALSE /\ call = NoCall /\ dropped = FALSE
  /\ http = [ stream_len |-> 0, header_found |-> FALSE, http_body_remaining |-> NoLength,
              http_chunked |-> FALSE, chunk_phase |-> "SizeLine", chunk_rem |-> 0,
              chunk_line |-> <<>>, page |-> <<>>, page_truncated |-> FALSE,
              body_layers |-> <<>>, coded |-> Len(msg.codings), stop |-> FALSE,
              fetch_done |-> FALSE, fetch_err |-> "none" ]

(* The next segment; a settled fetch ignores the rest.                     *)
Segment(n) ==
  /\ call.loop = "none" /\ ~http.fetch_done /\ ~eof /\ sent + n <= Len(msg.wire)
  /\ IF http.header_found THEN IngestBody(n) ELSE IngestHeader(n)
  /\ sent' = sent + n
  /\ UNCHANGED <<msg, eof>>

(* One round of the loop that pushes the bytes behind the header.          *)
PushByte ==
  LET s    == PagePushByte(http, msg.wire[call.at + 1])
      last == call.at + 1 = call.end
  IN  /\ call.loop = "push"
      /\ http' = IF last THEN BodyPushed(s) ELSE s
      /\ call' = IF last THEN NoCall ELSE [call EXCEPT !.at = @ + 1]
      /\ UNCHANGED <<msg, sent, eof, dropped>>

(* One byte of ingest_chunked_bytes, which returns at an error or at the   *)
(* end of the trailers.  An error in one piece of the header buffer does   *)
(* not keep the next piece from being decoded.                             *)
DecodeByte ==
  LET s    == ChunkByte(http, msg.wire[call.at + 1])
      at   == IF s.stop THEN call.lim ELSE call.at + 1
      last == at = call.end
  IN  /\ call.loop = "chunk"
      /\ http' = [s EXCEPT !.stop = FALSE, !.stream_len = IF last THEN 0 ELSE @]
      /\ call' = IF last THEN NoCall
                 ELSE IF at = call.lim THEN Loop("chunk", at, call.end, TailPiece)
                 ELSE [call EXCEPT !.at = at]
      /\ UNCHANGED <<msg, sent, eof, dropped>>

(* The FIN, at the end of the response or before it.                       *)
Fin ==
  /\ call.loop = "none" /\ ~http.fetch_done /\ ~eof
  /\ http' = FinishOnEof(http)
  /\ eof' = TRUE
  /\ UNCHANGED <<msg, sent, call, dropped>>

Next == (\E n \in SegmentSizes : Segment(n)) \/ PushByte \/ DecodeByte \/ Fin

Spec == Init /\ [][Next]_vars

----------------------------------------------------------------------------
Shown == http.fetch_done /\ http.fetch_err = "none"
Prefix(s, n) == SubSeq(s, 1, Smaller(Len(s), n))

(* The codings the decoder is told of: a chunked response's are not read.  *)
Labels(m) == IF m.framing = "chunked" THEN <<>> ELSE m.layers

(* What is shown has lost exactly the codings its label names.  Without a  *)
(* label it has lost one gzip or has no gzip on the outside; with one that *)
(* does not fit it starts like HTML.                                       *)
DecodedAsLabelled(m, s) ==
  LET off == Len(m.codings) - s.coded
      lab == Labels(m)
  IN  \/ /\ off = Len(lab) /\ \A i \in 1 .. off : m.codings[s.coded + i] = lab[i]
         /\ off = 0 => ~GzipMagic(s.page)
      \/ lab = <<>> /\ off = 1 /\ m.codings[Len(m.codings)] = "gzip"
      \/ lab # <<>> /\ BodyStartsLikeHtml(Bytes(m, s))

(* However the response is cut into segments, the page never outgrows its  *)
(* buffer and is a prefix of the body, complete or not: no framing byte    *)
(* leaks into it and no byte of the body is skipped, unless the framing is *)
(* found to be broken.  A page shown without a FIN is the body the server  *)
(* meant, up to the page capacity, every byte of the response was          *)
(* consumed, and truncation is flagged exactly when the body does not fit. *)
(* A page shown, also after a FIN, was decompressed as its label says, so  *)
(* a page that is labelled rightly, or has one gzip on and no label the    *)
(* decoder reads, is never shown compressed.  (Codings under chunks other  *)
(* than one gzip are shown as they are: finish_fetch knows of no label.)   *)
(* All this unless body bytes came in the segment that filled the header   *)
(* buffer.                                                                 *)
PageIsContent ==
  ~dropped =>
    /\ Len(http.page) <= PageCap
    /\ msg.sound \/ http.fetch_err = "none" => http.page = Prefix(msg.body, Len(http.page))
    /\ Shown /\ ~eof => /\ sent = Len(msg.wire)
                        /\ http.page = Prefix(msg.body, PageCap)
                        /\ http.page_truncated = (Len(msg.body) > PageCap)
    /\ Shown /\ http.header_found => DecodedAsLabelled(msg, http)

(* A response whose framing tells its end settles with its last byte; it   *)
(* does not wait for the server to close ("The kernel now honors           *)
(* Content-Length, decodes Transfer-Encoding: chunked bodies").  A body    *)
(* with a Content-Length has to fit the page: append_to_page counts only   *)
(* the bytes it stores.                                                    *)
SettlesWithLastByte ==
  /\ ~dropped /\ call.loop = "none" /\ sent = Len(msg.wire)
  /\ msg.framing = "chunked" \/ (msg.framing = "length" /\ Len(msg.body) <= PageCap)
  => http.fetch_done

(* A chunked response that the server cuts short, or whose framing breaks  *)
(* (a size line that is no number or overflows, no line end behind the     *)
(* data), is an error, never a page; also when the rest of the header      *)
(* buffer is decoded behind the error.                                     *)
BadChunksAreAnError ==
  (~dropped /\ Shown /\ http.http_chunked) => sent = Len(msg.wire) /\ msg.sound
=============================================================================
