--------------------------- MODULE HttpBodyProofs ---------------------------
(***************************************************************************)
(* What the decoder makes of every response, however it is cut into        *)
(* segments and for all capacities: the three promises of HttpBody.        *)
(***************************************************************************)
EXTENDS HttpBody, SequenceTheorems, TLAPS

-----------------------------------------------------------------------------
(***************************************************************************)
(* Where the decoder s stands in the response m.                           *)
(***************************************************************************)
Errs == {"none", "BODY BAD", "HTTP CHUNK SZ", "HTTP CHUNK CRLF", "HTTP CHUNK EOF", "HTTP ENC", "HTTP HDR TOO BIG"}

Phases == {"SizeLine", "Data", "AfterData0", "AfterData1", "Trailers"}

LayersType == {l \in Seq(Codings) : Len(l) <= MaxLayers}

HttpType ==
  [stream_len : Nat, header_found : BOOLEAN, http_body_remaining : Nat \cup {NoLength}, http_chunked : BOOLEAN,
   chunk_phase : Phases, chunk_rem : Nat,
   chunk_line : Seq(STRING), page : Seq(STRING), page_truncated : BOOLEAN, body_layers : LayersType,
   coded : Nat, stop : {FALSE}, fetch_done : BOOLEAN, fetch_err : Errs]

\* The label is l, and no coding has come off the page.
Coded(m, s, l) == s.body_layers = l /\ s.coded = Len(m.codings)

\* The page holds the first bytes of the content.
Begins(m, s) ==
  /\ Len(s.page) <= PageCap /\ Len(s.page) <= Len(m.body)
  /\ \A k \in 1 .. Len(s.page) : s.page[k] = m.body[k]

\* Of the content, g bytes were decoded.
Got(m, s, g) ==
  /\ g \in 0 .. Len(m.body) /\ Begins(m, s)
  /\ Len(s.page) = Smaller(g, PageCap) /\ (s.page_truncated <=> g > PageCap)

\* Having read p bytes it stands in line l, and has kept the text so far.
Inside(l, p) == l.at <= p /\ p < LineEnd(l)
Kept(m, s, l, p) ==
  /\ Len(s.chunk_line) = Smaller(Smaller(p - l.at, l.text), LineCap)
  /\ \A k \in 1 .. Len(s.chunk_line) : s.chunk_line[k] = m.wire[l.at + k]

InSize(m, s, c, p) == s.chunk_phase = "SizeLine" /\ Inside(c, p) /\ Kept(m, s, c, p) /\ Got(m, s, c.from)

InData(m, s, c, p) ==
  /\ s.chunk_phase = "Data" /\ c.size > 0 /\ s.chunk_line = <<>> /\ s.chunk_rem \in 1 .. c.size
  /\ p = LineEnd(c) + c.size - s.chunk_rem /\ Got(m, s, c.from + c.size - s.chunk_rem)

BehindData(m, s, c, p) ==
  /\ c.size > 0 /\ s.chunk_line = <<>> /\ Got(m, s, c.from + c.size)
  /\ \/ s.chunk_phase = "AfterData0" /\ p = LineEnd(c) + c.size
     \/ s.chunk_phase = "AfterData1" /\ p = LineEnd(c) + c.size + 1 /\ m.wire[p] = "r"

InTrailer(m, s, l, p) ==
  /\ m.sound /\ s.chunk_phase = "Trailers" /\ Inside(l, p) /\ Got(m, s, Len(m.body))
  /\ s.chunk_line = <<>> <=> (p = l.at \/ l.text = 0)

InFraming(m, s, p) ==
  \/ \E i \in 1 .. Len(m.chunks) :
       LET c == m.chunks[i] IN InSize(m, s, c, p) \/ InData(m, s, c, p) \/ BehindData(m, s, c, p)
  \/ \E j \in 1 .. Len(m.trailers) : InTrailer(m, s, m.trailers[j], p)

Chunked(m, s, p) ==
  m.framing = "chunked" /\ s.http_chunked /\ Coded(m, s, <<>>) /\ InFraming(m, s, p)

\* p bytes of a response that is not chunked were read; those up to e are counted.
Plain(m, s, p, e) ==
  /\ m.framing # "chunked" /\ ~s.http_chunked /\ Got(m, s, p - m.header) /\ Coded(m, s, m.layers)
  /\ m.framing = "close" => s.http_body_remaining = NoLength
  /\ m.framing = "length" =>
       /\ s.http_body_remaining \in Nat /\ s.http_body_remaining >= Len(m.wire) - e
       /\ Len(m.body) <= PageCap => s.http_body_remaining = Len(m.wire) - e

Waiting(m, s, n) ==
  /\ s.stream_len = n /\ n < m.header /\ n < StreamCap
  /\ ~s.http_chunked /\ Got(m, s, 0) /\ Coded(m, s, <<>>) /\ s.http_body_remaining = NoLength

\* The outcome, when n bytes were sent; fin: the server has closed.
Settled(m, s, n, fin) ==
  /\ Begins(m, s)
  /\ s.fetch_err = "none" /\ ~fin => n = Len(m.wire) /\ Got(m, s, Len(m.body))
  /\ s.fetch_err = "none" /\ s.header_found => DecodedAsLabelled(m, s)
  /\ s.fetch_err = "none" /\ s.http_chunked => n = Len(m.wire) /\ m.sound

\* A call of ingest_chunked_bytes in progress, on the first n bytes.
Decoding(c, n) ==
  c \in [loop : {"chunk"}, at : Nat, lim : Nat, end : {n}] /\ c.at < c.lim /\ c.lim <= n

Unsettled(m, s, n, c) ==
  /\ s.fetch_err = "none"
  /\ \/ ~s.header_found /\ c = NoCall /\ Waiting(m, s, n)
     \/ s.header_found /\ c = NoCall /\ Plain(m, s, n, n) /\ s.http_body_remaining # 0
     \/ s.header_found /\ c = NoCall /\ Chunked(m, s, n)
     \/ /\ s.header_found /\ c \in [loop : {"push"}, at : Nat, lim : Nat, end : {n}]
        /\ c.at < n /\ Plain(m, s, c.at, n)
     \/ s.header_found /\ Decoding(c, n) /\ Chunked(m, s, c.at)

DecoderInv(m, s, n, fin, c) ==
  /\ s \in HttpType /\ n \in 0 .. Len(m.wire) /\ fin \in BOOLEAN
  /\ IF s.fetch_done THEN c = NoCall /\ Settled(m, s, n, fin) ELSE ~fin /\ Unsettled(m, s, n, c)

\* All fields are there; the number of data bytes to come may be anything.
Fields(s) ==
  s = [ stream_len |-> s.stream_len, header_found |-> s.header_found, http_body_remaining |-> s.http_body_remaining,
        http_chunked |-> s.http_chunked, chunk_phase |-> s.chunk_phase, chunk_rem |-> s.chunk_rem,
        chunk_line |-> s.chunk_line, page |-> s.page, page_truncated |-> s.page_truncated,
        body_layers |-> s.body_layers, coded |-> s.coded, stop |-> s.stop,
        fetch_done |-> s.fetch_done, fetch_err |-> s.fetch_err ]

\* It stands in no framing, the fetch has failed, and the page still keeps to its buffer.
Failed(s) ==
  /\ Fields(s) /\ s.chunk_phase \in Phases /\ s.fetch_done = TRUE /\ s.fetch_err # "none"
  /\ s.page \in Seq(STRING) /\ Len(s.page) <= PageCap

\* The pieces of the header buffer behind an error.
Garbled(m, s, n, c) ==
  ~m.sound /\ n \in 0 .. Len(m.wire) /\ Failed(s) /\ (c = NoCall \/ Decoding(c, n))

HttpInv ==
  msg \in Responses /\ (~dropped => DecoderInv(msg, http, sent, eof, call) \/ Garbled(msg, http, sent, call))

-----------------------------------------------------------------------------
(* page_push_byte stores the next byte of the content or says that it did  *)
(* not fit, and touches nothing else.                                      *)
LEMMA PushGot ==
  ASSUME NEW m, m.body \in Seq(STRING), NEW s \in HttpType, NEW g \in Nat, Got(m, s, g), g < Len(m.body),
         NEW b, b = m.body[g + 1]
  PROVE  /\ PagePushByte(s, b) \in HttpType /\ Got(m, PagePushByte(s, b), g + 1)
         /\ \E p, t : PagePushByte(s, b) = [s EXCEPT !.page = p, !.page_truncated = t]
<1> DEFINE r == PagePushByte(s, b)
<1>1. PageCap \in Nat /\ Len(m.body) \in Nat /\ b \in STRING
  BY CapsAssumption
<1>2. CASE Len(s.page) < PageCap
  <2>1. r = [s EXCEPT !.page = Append(s.page, b)]
    BY <1>2 DEF PagePushByte
  <2>2. s.page \in Seq(STRING) /\ s.page_truncated \in BOOLEAN
    BY DEF HttpType
  <2>a. Append(s.page, b) \in Seq(STRING)
    BY <2>2, <1>1
  <2>3. r \in HttpType /\ r.page = Append(s.page, b) /\ r.page_truncated = s.page_truncated
    BY <2>1, <2>a DEF HttpType
  <2>4. /\ Len(r.page) = Len(s.page) + 1 /\ Len(s.page) \in Nat
        /\ \A k \in 1 .. Len(s.page) + 1 : r.page[k] = IF k = Len(s.page) + 1 THEN b ELSE s.page[k]
    BY <2>2, <2>3, <1>1
  <2>5. Len(s.page) = g
    BY <1>1, <1>2, <2>4 DEF Got, Smaller
  <2>6. Got(m, r, g + 1)
    BY <1>1, <1>2, <2>3, <2>4, <2>5 DEF Got, Begins, Smaller
  <2>7. r = [s EXCEPT !.page = r.page, !.page_truncated = s.page_truncated]
    BY <2>1, <2>3 DEF HttpType
  <2> QED
    BY <2>3, <2>6, <2>7
<1>3. CASE ~(Len(s.page) < PageCap)
  <2>1. r = [s EXCEPT !.page_truncated = TRUE]
    BY <1>3 DEF PagePushByte
  <2>2. r \in HttpType /\ r.page = s.page /\ r.page_truncated = TRUE /\ s.page \in Seq(STRING)
    BY <2>1 DEF HttpType
  <2>a. Len(s.page) \in Nat
    BY <2>2
  <2>3. Got(m, r, g + 1)
    <3>1. g >= PageCap /\ Len(s.page) = PageCap /\ g + 1 \in 0 .. Len(m.body) /\ Begins(m, s)
      BY <1>1, <1>3, <2>a DEF Got, Smaller
    <3>2. g + 1 > PageCap /\ Smaller(g + 1, PageCap) = PageCap
      BY <3>1, <1>1 DEF Smaller
    <3>3. Begins(m, r)
      BY <3>1, <2>2 DEF Begins
    <3> QED
      BY <3>1, <3>2, <3>3, <2>2 DEF Got
  <2>4. r = [s EXCEPT !.page = s.page, !.page_truncated = TRUE]
    BY <2>1 DEF HttpType
  <2> QED
    BY <2>2, <2>3, <2>4
<1> QED
  BY <1>2, <1>3

(* set_err settles the fetch with a message and leaves the page.           *)
LEMMA ErrFacts ==
  ASSUME NEW s \in HttpType, NEW e \in Errs
  PROVE  /\ SetErr(s, e) \in HttpType /\ SetErr(s, e).fetch_done /\ SetErr(s, e).fetch_err = e
         /\ SetErr(s, e).page = s.page /\ SetErr(s, e).page_truncated = s.page_truncated
         /\ SetErr(s, e).http_chunked = s.http_chunked /\ SetErr(s, e).header_found = s.header_found
<1> DEFINE u == [s EXCEPT !.fetch_err = e]
<1>1. u \in HttpType /\ u.fetch_err = e /\ u.page = s.page /\ u.page_truncated = s.page_truncated
      /\ u.http_chunked = s.http_chunked /\ u.header_found = s.header_found
  BY DEF HttpType
<1> HIDE DEF u
<1>2. DEFINE v == [u EXCEPT !.fetch_done = TRUE]
<1>3. v \in HttpType /\ v.fetch_done /\ v.fetch_err = u.fetch_err /\ v.page = u.page
      /\ v.page_truncated = u.page_truncated /\ v.http_chunked = u.http_chunked
      /\ v.header_found = u.header_found
  BY <1>1 DEF HttpType
<1>4. SetErr(s, e) = v
  BY DEF SetErr, u
<1> QED
  BY <1>1, <1>3, <1>4

LEMMA LayersLen ==
  ASSUME NEW s \in HttpType
  PROVE  s.body_layers \in LayersType /\ Len(s.body_layers) \in 0 .. 4
<1>1. PICK l \in LayersType : l = s.body_layers
  BY DEF HttpType
<1>2. l \in Seq(Codings) /\ Len(l) <= 4
  BY DEF LayersType, MaxLayers
<1>3. Len(l) \in Nat
  BY <1>2
<1>4. PICK n \in Nat : n = Len(l)
  BY <1>3
<1>5. n <= 4
  BY <1>2, <1>4
<1>6. n \in 0 .. 4
  BY ONLY n \in Nat, <1>5
<1> QED
  BY ONLY <1>1, <1>4, <1>6

(* Of the layers some come off, in turn, and then all are off or the next  *)
(* does not come off.                                                      *)
LEMMA LayersOffFacts ==
  ASSUME NEW s \in HttpType
  PROVE  /\ LayersOff(s) \in 0 .. Len(s.body_layers)
         /\ \A j \in 1 .. LayersOff(s) : LayerComesOff(s, j)
<1> DEFINE n == Len(s.body_layers)
           P(d) == (\A j \in 1 .. d : LayerComesOff(s, j)) /\ (d < n => ~LayerComesOff(s, d + 1))
<1>1. n \in 0 .. 4
  BY LayersLen
<1> HIDE DEF n
<1>2. \E d \in 0 .. n : P(d)
  <2>0. P(0) \/ (0 < n /\ LayerComesOff(s, 1))
    OBVIOUS
  <2>1. 0 < n /\ LayerComesOff(s, 1) => P(1) \/ (1 < n /\ LayerComesOff(s, 1) /\ LayerComesOff(s, 2))
    BY <1>1
  <2>2. 1 < n /\ LayerComesOff(s, 1) /\ LayerComesOff(s, 2) =>
          P(2) \/ (2 < n /\ LayerComesOff(s, 1) /\ LayerComesOff(s, 2) /\ LayerComesOff(s, 3))
    BY <1>1
  <2>3. 2 < n /\ LayerComesOff(s, 1) /\ LayerComesOff(s, 2) /\ LayerComesOff(s, 3) =>
          P(3) \/ (3 < n /\ LayerComesOff(s, 1) /\ LayerComesOff(s, 2) /\ LayerComesOff(s, 3) /\ LayerComesOff(s, 4))
    BY <1>1
  <2>4. 3 < n /\ LayerComesOff(s, 1) /\ LayerComesOff(s, 2) /\ LayerComesOff(s, 3) /\ LayerComesOff(s, 4) => P(4)
    BY <1>1
  <2>5. \A d \in 0 .. 3 : d < n => d + 1 \in 0 .. n
    BY <1>1
  <2>6. 0 \in 0 .. n /\ (0 < n => 1 \in 0 .. n) /\ (1 < n => 2 \in 0 .. n) /\ (2 < n => 3 \in 0 .. n) /\ (3 < n => 4 \in 0 .. n)
    BY <1>1
  <2> HIDE DEF P
  <2> QED
    BY ONLY <2>0, <2>1, <2>2, <2>3, <2>4, <2>6, Zenon
<1>3. LayersOff(s) = CHOOSE d \in 0 .. n : P(d)
  BY DEF LayersOff, n
<1> HIDE DEF P
<1>4. LayersOff(s) \in 0 .. n /\ P(LayersOff(s))
  BY <1>2, <1>3, Zenon
<1> QED
  BY <1>4 DEF P, n

(* Taking codings off settles the fetch and leaves the rest.               *)
LEMMA DoneFacts ==
  ASSUME NEW s \in HttpType, NEW k \in Nat, k <= s.coded, NEW r, NEW l \in LayersType,
         (r = Done(s, k) /\ l = s.body_layers) \/ r = [Done(s, k) EXCEPT !.body_layers = l]
  PROVE  /\ r \in HttpType /\ r.fetch_done /\ r.page = s.page /\ r.page_truncated = s.page_truncated
         /\ r.http_chunked = s.http_chunked /\ r.header_found = s.header_found /\ r.fetch_err = s.fetch_err
         /\ r.coded = s.coded - k
<1>1. PICK c \in Nat : c = s.coded - k
  BY DEF HttpType
<1>2. r = [s EXCEPT !.coded = c, !.fetch_done = TRUE, !.body_layers = l]
  BY <1>1 DEF Done, HttpType
<1> QED
  BY <1>1, <1>2 DEF HttpType

(* finish_fetch settles the fetch and leaves the page; what is then shown  *)
(* was decompressed as its label says.                                     *)
LEMMA FinishFacts ==
  ASSUME NEW s \in HttpType, ~s.fetch_done, msg \in Responses, s.fetch_err = "none", s.coded = Len(msg.codings)
  PROVE  /\ FinishFetch(s) \in HttpType /\ FinishFetch(s).fetch_done
         /\ FinishFetch(s).page = s.page /\ FinishFetch(s).page_truncated = s.page_truncated
         /\ FinishFetch(s).http_chunked = s.http_chunked /\ FinishFetch(s).header_found = s.header_found
         /\ s.body_layers = Labels(msg) /\ FinishFetch(s).fetch_err = "none" =>
              DecodedAsLabelled(msg, FinishFetch(s))
<1>1. PICK n \in 0 .. 4, lay \in LayersType : lay = s.body_layers /\ n = Len(s.body_layers)
  BY LayersLen
<1>2. PICK d \in 0 .. n : d = LayersOff(s) /\ \A j \in 1 .. d : LayerComesOff(s, j)
  BY <1>1, LayersOffFacts
<1>3. PICK len \in Nat : len = Len(msg.codings) /\ s.coded = len
  BY ResponsesAssumption DEF CodingsOk
<1>4. \A j \in 1 .. d : /\ len - j + 1 > 0 /\ msg.codings[len - j + 1] = lay[n - j + 1]
  BY <1>1, <1>2, <1>3 DEF LayerComesOff, Decompresses
<1>5. d <= len
  <2>1. CASE d > 0
    <3>1. d \in 1 .. d /\ len - d + 1 > 0
      BY <2>1, <1>4
    <3> QED
      BY <3>1
  <2> QED
    BY <2>1
<1>6. PICK r : r = FinishFetch(s)
  OBVIOUS
<1>7. PICK left : left = [s EXCEPT !.coded = s.coded - d]
  OBVIOUS
<1>8. left \in HttpType /\ left.page = s.page /\ left.page_truncated = s.page_truncated /\ left.http_chunked = s.http_chunked
      /\ left.header_found = s.header_found /\ left.coded = len - d
  <2>1. PICK c \in Nat : c = s.coded - d
    BY <1>3, <1>5
  <2>2. left = [s EXCEPT !.coded = c]
    BY <2>1, <1>7
  <2> QED
    BY <2>1, <2>2, <1>3 DEF HttpType
<1>a. PICK e \in Errs : e = "BODY BAD" /\ e # "none"
  BY DEF Errs
<1>b. \/ n = 0 /\ ~GzipMagic(s.page) /\ r = Done(s, 0)
      \/ n = 0 /\ Decompresses(s, s.coded, "gzip") /\ r = Done(s, 1)
      \/ r = SetErr(s, e) \/ r = SetErr(left, e)
      \/ n # 0 /\ d = n /\ r = Done(s, n)
      \/ n # 0 /\ BodyStartsLikeHtml(Bytes(msg, left)) /\ r = [Done(s, d) EXCEPT !.body_layers = <<>>]
  BY <1>1, <1>2, <1>6, <1>7, <1>a, Zenon DEF FinishFetch
<1>c. n = 0 <=> lay = <<>>
  BY <1>1, EmptySeq DEF LayersType
<1>9. SUFFICES /\ r \in HttpType /\ r.fetch_done /\ r.page = s.page /\ r.page_truncated = s.page_truncated
               /\ r.http_chunked = s.http_chunked /\ r.header_found = s.header_found
               /\ s.body_layers = Labels(msg) /\ r.fetch_err = "none" => DecodedAsLabelled(msg, r)
  BY <1>6
<1>10. CASE n = 0 /\ ~GzipMagic(s.page) /\ r = Done(s, 0)
  <2>1. /\ r \in HttpType /\ r.fetch_done /\ r.page = s.page /\ r.page_truncated = s.page_truncated
        /\ r.http_chunked = s.http_chunked /\ r.header_found = s.header_found /\ r.coded = s.coded - 0
    BY <1>1, <1>3, <1>10, DoneFacts
  <2>2. Len(msg.codings) - r.coded = 0
    BY <2>1, <1>3
  <2>3. \A i \in 1 .. 0 : msg.codings[r.coded + i] = Labels(msg)[i]
    OBVIOUS
  <2>4. s.body_layers = Labels(msg) => DecodedAsLabelled(msg, r)
    BY <2>1, <2>2, <2>3, <1>1, <1>10 DEF DecodedAsLabelled
  <2> QED
    BY <2>1, <2>4
<1>11. CASE n = 0 /\ Decompresses(s, s.coded, "gzip") /\ r = Done(s, 1)
  <2>1. s.coded > 0 /\ msg.codings[s.coded] = "gzip"
    BY <1>11 DEF Decompresses
  <2>2. /\ r \in HttpType /\ r.fetch_done /\ r.page = s.page /\ r.page_truncated = s.page_truncated
        /\ r.http_chunked = s.http_chunked /\ r.header_found = s.header_found /\ r.coded = s.coded - 1
    BY <2>1, <1>1, <1>3, <1>11, DoneFacts
  <2>3. Len(msg.codings) - r.coded = 1
    BY <2>2, <1>3
  <2>4. s.body_layers = Labels(msg) => DecodedAsLabelled(msg, r)
    BY <2>1, <2>3, <1>1, <1>3, <1>c, <1>11 DEF DecodedAsLabelled
  <2> QED
    BY <2>2, <2>4
<1>12. CASE r = SetErr(s, e) \/ r = SetErr(left, e)
  <2>1. /\ r \in HttpType /\ r.fetch_done /\ r.page = s.page /\ r.page_truncated = s.page_truncated
        /\ r.http_chunked = s.http_chunked /\ r.fetch_err = e /\ r.header_found = s.header_found
    BY <1>8, <1>12, ErrFacts
  <2> QED
    BY <2>1, <1>a
<1>13. CASE n # 0 /\ d = n /\ r = Done(s, n)
  <2>1. /\ r \in HttpType /\ r.fetch_done /\ r.page = s.page /\ r.page_truncated = s.page_truncated
        /\ r.http_chunked = s.http_chunked /\ r.header_found = s.header_found /\ r.coded = s.coded - n
    <3>1. PICK k \in Nat : k = n /\ k <= s.coded
      BY <1>3, <1>5, <1>13
    <3>2. r = Done(s, k) /\ lay = s.body_layers
      BY <3>1, <1>1, <1>13
    <3> QED
      BY <3>1, <3>2, lay \in LayersType, DoneFacts
  <2>2. Len(msg.codings) - r.coded = n /\ r.coded = len - n
    BY <2>1, <1>3
  <2>3. ASSUME NEW i \in 1 .. n PROVE msg.codings[r.coded + i] = lay[i]
    <3>1. PICK j \in 1 .. d : j = n - i + 1
      BY <1>13
    <3>2. len - j + 1 = r.coded + i /\ n - j + 1 = i
      BY <3>1, <2>2
    <3> QED
      BY <3>2, <1>4
  <2>4. s.body_layers = Labels(msg) => DecodedAsLabelled(msg, r)
    BY <2>2, <2>3, <1>1, <1>13 DEF DecodedAsLabelled
  <2> QED
    BY <2>1, <2>4
<1>14. CASE n # 0 /\ BodyStartsLikeHtml(Bytes(msg, left)) /\ r = [Done(s, d) EXCEPT !.body_layers = <<>>]
  <2>1. <<>> \in LayersType
    BY EmptySeq DEF LayersType, MaxLayers
  <2>2. /\ r \in HttpType /\ r.fetch_done /\ r.page = s.page /\ r.page_truncated = s.page_truncated
        /\ r.http_chunked = s.http_chunked /\ r.header_found = s.header_found /\ r.coded = s.coded - d
    BY <2>1, <1>1, <1>3, <1>5, <1>14, DoneFacts
  <2>3. Bytes(msg, r) = Bytes(msg, left)
    BY <2>2, <1>3, <1>8 DEF Bytes
  <2>4. s.body_layers = Labels(msg) => DecodedAsLabelled(msg, r)
    BY <2>3, <1>1, <1>c, <1>14 DEF DecodedAsLabelled
  <2> QED
    BY <2>2, <2>4
<1> QED
  BY <1>b, <1>10, <1>11, <1>12, <1>13, <1>14

(* A sequence extended by the first j elements of another.                 *)
LEMMA Extended ==
  ASSUME NEW x \in Seq(STRING), NEW d \in Seq(STRING), NEW j \in 0 .. Len(d),
         NEW p, p = x \o SubSeq(d, 1, j)
  PROVE  /\ p \in Seq(STRING) /\ Len(p) = Len(x) + j
         /\ \A k \in 1 .. Len(x) + j : p[k] = IF k <= Len(x) THEN x[k] ELSE d[k - Len(x)]
<1>1. PICK q : q = SubSeq(d, 1, j)
  OBVIOUS
<1>2. q \in Seq(STRING) /\ Len(q) = j /\ \A k \in 1 .. j : q[k] = d[k]
  BY <1>1
<1>3. p = x \o q
  BY <1>1
<1>4. /\ x \o q \in Seq(STRING) /\ Len(x \o q) = Len(x) + Len(q)
      /\ \A k \in 1 .. Len(x) + Len(q) : (x \o q)[k] = IF k <= Len(x) THEN x[k] ELSE q[k - Len(x)]
  BY <1>2, ConcatProperties
<1>5. Len(x) \in Nat
  OBVIOUS
<1>6. ASSUME NEW k \in 1 .. Len(x) + j PROVE p[k] = IF k <= Len(x) THEN x[k] ELSE d[k - Len(x)]
  <2>1. p[k] = IF k <= Len(x) THEN x[k] ELSE q[k - Len(x)]
    BY <1>2, <1>3, <1>4
  <2>2. k > Len(x) => k - Len(x) \in 1 .. j
    BY <1>5
  <2> QED
    BY <2>1, <2>2, <1>2, <1>5
<1> QED
  BY <1>2, <1>3, <1>4, <1>6

\* data are the n bytes of the content behind the first g; r is s with j of them in its page.
Piece(m, data, g, n) == g + n <= Len(m.body) /\ \A k \in 1 .. n : data[k] = m.body[g + k]
Appended(s, r, data, n, j) ==
  /\ Len(r.page) = Len(s.page) + j /\ (r.page_truncated <=> s.page_truncated \/ n > j)
  /\ \A k \in 1 .. Len(s.page) + j : r.page[k] = IF k <= Len(s.page) THEN s.page[k] ELSE data[k - Len(s.page)]

(* append_to_page: the bytes from g + 1 on, as many as the segment has.    *)
LEMMA AppendGot ==
  ASSUME NEW m, m.body \in Seq(STRING), NEW s \in HttpType, NEW g \in Nat, NEW n \in Nat, Got(m, s, g),
         NEW data, Piece(m, data, g, n), NEW j, j = Smaller(n, PageCap - Len(s.page)), NEW r, Appended(s, r, data, n, j)
  PROVE  Got(m, r, g + n) /\ (Len(m.body) <= PageCap => j = n)
<1>a. g + n <= Len(m.body) /\ \A k \in 1 .. n : data[k] = m.body[g + k]
  BY DEF Piece
<1>b. /\ Len(r.page) = Len(s.page) + j /\ (r.page_truncated <=> s.page_truncated \/ n > j)
      /\ \A k \in 1 .. Len(s.page) + j : r.page[k] = IF k <= Len(s.page) THEN s.page[k] ELSE data[k - Len(s.page)]
  BY DEF Appended
<1>0. s.page \in Seq(STRING)
  BY DEF HttpType
<1>1. PageCap \in Nat /\ Len(m.body) \in Nat /\ Len(s.page) \in Nat
  BY <1>0, CapsAssumption
<1>2. Len(s.page) <= PageCap /\ Len(s.page) = IF g < PageCap THEN g ELSE PageCap
  BY <1>1 DEF Got, Smaller
<1>3. j \in 0 .. n /\ j = IF n < PageCap - Len(s.page) THEN n ELSE PageCap - Len(s.page)
  BY <1>1, <1>2 DEF Smaller
<1>4. Len(r.page) = Len(s.page) + j
  BY <1>b
<1>5. Len(r.page) = Smaller(g + n, PageCap) /\ Len(r.page) <= PageCap /\ Len(r.page) <= Len(m.body)
  BY <1>1, <1>2, <1>3, <1>4, <1>a DEF Smaller
<1>6. ASSUME NEW k \in 1 .. Len(r.page) PROVE r.page[k] = m.body[k]
  <2>a. j \in Nat
    BY <1>3
  <2>0. k \in 1 .. Len(s.page) + j /\ k \in Nat
    BY ONLY <2>a, k \in 1 .. Len(r.page), <1>1, <1>4
  <2>1. CASE k <= Len(s.page)
    <3>1. s.page[k] = m.body[k]
      BY <2>0, <2>1, <1>1 DEF Got, Begins
    <3> QED
      BY <3>1, <2>0, <2>1, <1>4, <1>b
  <2>2. CASE ~(k <= Len(s.page))
    <3>1. Len(s.page) = g /\ k - g \in 1 .. n
      BY <2>0, <2>2, <1>1, <1>2, <1>3
    <3>2. data[k - g] = m.body[g + (k - g)] /\ g + (k - g) = k
      BY <3>1, <2>0, <1>a
    <3> QED
      BY <3>1, <3>2, <2>0, <2>2, <1>4, <1>b
  <2> QED
    BY <2>1, <2>2
<1>7. r.page_truncated <=> g + n > PageCap
  <2>1. s.page_truncated <=> g > PageCap
    BY DEF Got
  <2>2. (g > PageCap \/ n > j) <=> g + n > PageCap
    BY <1>1, <1>2, <1>3
  <2> QED
    BY <2>1, <2>2, <1>b
<1>8. Begins(m, r) /\ g + n \in 0 .. Len(m.body)
  BY <1>1, <1>5, <1>6, <1>a DEF Begins
<1>9. Got(m, r, g + n)
  BY <1>5, <1>7, <1>8 DEF Got
<1>10. Len(m.body) <= PageCap => j = n
  BY <1>1, <1>2, <1>3, <1>a
<1> QED
  BY <1>9, <1>10

-----------------------------------------------------------------------------
(***************************************************************************)
(* One byte of a chunked response.                                         *)
(***************************************************************************)
\* What the chunk machine leaves alone while the fetch goes on.
Same(s, r) ==
  /\ r.header_found = s.header_found /\ r.http_chunked = s.http_chunked /\ r.body_layers = s.body_layers
  /\ r.coded = s.coded /\ r.fetch_done = s.fetch_done /\ r.fetch_err = s.fetch_err

LEMMA GotSame ==
  ASSUME NEW m, NEW s, NEW r, NEW g, Got(m, s, g), r.page = s.page, r.page_truncated = s.page_truncated
  PROVE  Got(m, r, g)
  BY DEF Got, Begins

(* What a line has behind its first p bytes.                               *)
LEMMA LineByte ==
  ASSUME NEW m, m.wire \in Seq(STRING), NEW l, LineOk(m, l), NEW p \in Nat, Inside(l, p)
  PROVE  /\ p + 1 \in 1 .. Len(m.wire) /\ m.wire[p + 1] \in STRING
         /\ l.at \in Nat /\ l.text \in Nat /\ l.eol \in {1, 2} /\ LineEnd(l) = l.at + l.text + l.eol
         /\ p < l.at + l.text => m.wire[p + 1] \notin {"r", "n"}
         /\ p >= l.at + l.text => m.wire[p + 1] = IF p + 1 = LineEnd(l) THEN "n" ELSE "r"
<1>1. /\ Len(m.wire) \in Nat /\ l.at \in Nat /\ l.text \in Nat /\ l.eol \in {1, 2}
      /\ LineEnd(l) = l.at + l.text + l.eol /\ LineEnd(l) <= Len(m.wire)
  BY DEF LineOk, LineEnd
<1>2. l.at <= p /\ p < LineEnd(l)
  BY DEF Inside
<1>3. p + 1 \in 1 .. Len(m.wire)
  BY <1>1, <1>2
<1>4. p < l.at + l.text => m.wire[p + 1] \notin {"r", "n"}
  BY <1>1, <1>2, SMTT(30) DEF LineOk
<1>5. ASSUME p >= l.at + l.text PROVE m.wire[p + 1] = IF p + 1 = LineEnd(l) THEN "n" ELSE "r"
  <2>1. CASE p + 1 = LineEnd(l)
    BY <2>1 DEF LineOk
  <2>2. CASE p + 1 # LineEnd(l)
    <3>1. l.eol = 2 /\ p + 1 = l.at + l.text + 1
      BY <1>1, <1>2, <1>5, <2>2, SMTT(30)
    <3> QED
      BY <3>1, <2>2 DEF LineOk
  <2> QED
    BY <2>1, <2>2
<1> QED
  BY <1>1, <1>3, <1>4, <1>5

Move(s, l, rem, ph) == [s EXCEPT !.chunk_line = l, !.chunk_rem = rem, !.chunk_phase = ph]

(* The chunk machine moves on to phase ph, with rem bytes of data to come  *)
(* and the text l of a line.                                               *)
LEMMA Moved ==
  ASSUME NEW s \in HttpType, NEW l \in Seq(STRING), NEW rem \in Nat, NEW ph \in Phases
  PROVE  /\ Move(s, l, rem, ph) \in HttpType /\ Same(s, Move(s, l, rem, ph))
         /\ Move(s, l, rem, ph).page = s.page /\ Move(s, l, rem, ph).page_truncated = s.page_truncated
         /\ Move(s, l, rem, ph).chunk_line = l /\ Move(s, l, rem, ph).chunk_rem = rem
         /\ Move(s, l, rem, ph).chunk_phase = ph
<1> DEFINE r == Move(s, l, rem, ph)
<1>1. r \in HttpType
  BY DEF HttpType, Move
<1>2. /\ r.page = s.page /\ r.page_truncated = s.page_truncated
      /\ r.chunk_line = l /\ r.chunk_rem = rem /\ r.chunk_phase = ph
  BY DEF HttpType, Move
<1>3. Same(s, r)
  BY DEF HttpType, Same, Move
<1> QED
  BY <1>1, <1>2, <1>3

(* A byte that is not LF, in a size line or a trailer: the text is kept    *)
(* as far as there is room.                                                *)
LEMMA LineKeeps ==
  ASSUME NEW s \in HttpType, NEW b \in STRING, NEW r, r = LineAppend(s, b)
  PROVE  /\ r \in HttpType /\ Same(s, r) /\ r.page = s.page /\ r.page_truncated = s.page_truncated
         /\ r.chunk_rem = s.chunk_rem /\ r.chunk_phase = s.chunk_phase
         /\ r.chunk_line = IF b # "r" /\ Len(s.chunk_line) < LineCap THEN Append(s.chunk_line, b) ELSE s.chunk_line
<1>1. s.chunk_line \in Seq(STRING)
  BY DEF HttpType
<1>2. Append(s.chunk_line, b) \in Seq(STRING)
  BY <1>1
<1>3. CASE b # "r" /\ Len(s.chunk_line) < LineCap
  <2>1. r = [s EXCEPT !.chunk_line = Append(s.chunk_line, b)]
    BY <1>3 DEF LineAppend
  <2>2. r \in HttpType
    BY <1>2, <2>1 DEF HttpType
  <2>3. r.page = s.page /\ r.page_truncated = s.page_truncated /\ r.chunk_rem = s.chunk_rem
        /\ r.chunk_phase = s.chunk_phase /\ r.chunk_line = Append(s.chunk_line, b)
    BY <2>1 DEF HttpType
  <2>4. Same(s, r)
    BY <2>1 DEF HttpType, Same
  <2> QED
    BY <2>2, <2>3, <2>4, <1>3
<1>4. CASE ~(b # "r" /\ Len(s.chunk_line) < LineCap)
  <2>1. r = s
    BY <1>4 DEF LineAppend
  <2> QED
    BY <2>1, <1>4 DEF Same
<1> QED
  BY <1>3, <1>4

(* The line ends of the decoder and of the server agree.                   *)
LEMMA KeptMore ==
  ASSUME NEW m, m.wire \in Seq(STRING), NEW l, LineOk(m, l), NEW p \in Nat, Inside(l, p), p + 1 # LineEnd(l),
         NEW s \in HttpType, Kept(m, s, l, p), NEW r, r = LineAppend(s, m.wire[p + 1])
  PROVE  Inside(l, p + 1) /\ Kept(m, r, l, p + 1)
<1> DEFINE b == m.wire[p + 1]
<1>1. /\ l.at \in Nat /\ l.text \in Nat /\ LineEnd(l) \in Nat /\ l.at <= p /\ p + 1 < LineEnd(l) /\ b \in STRING
      /\ LineCap \in Nat
  BY LineByte, CapsAssumption, SMTT(30) DEF Inside
<1>2. r.chunk_line = IF b # "r" /\ Len(s.chunk_line) < LineCap THEN Append(s.chunk_line, b) ELSE s.chunk_line
  BY <1>1, LineKeeps
<1>3. s.chunk_line \in Seq(STRING)
  BY DEF HttpType
<1>4. Len(s.chunk_line) \in Nat /\ Len(s.chunk_line) = Smaller(Smaller(p - l.at, l.text), LineCap)
  BY <1>3 DEF Kept
<1>5. CASE p < l.at + l.text
  <2>1. b # "r"
    BY <1>5, LineByte
  <2>2. CASE Len(s.chunk_line) < LineCap
    <3>1. Len(s.chunk_line) = p - l.at
      BY <1>1, <1>4, <1>5, <2>2 DEF Smaller
    <3>2. r.chunk_line = Append(s.chunk_line, b)
      BY <1>2, <2>1, <2>2
    <3>3. /\ Len(r.chunk_line) = Len(s.chunk_line) + 1
          /\ \A k \in 1 .. Len(s.chunk_line) + 1 :
               r.chunk_line[k] = IF k = Len(s.chunk_line) + 1 THEN b ELSE s.chunk_line[k]
      BY <3>2, <1>1, <1>3
    <3>4. Len(r.chunk_line) = Smaller(Smaller(p + 1 - l.at, l.text), LineCap)
      BY <3>1, <3>3, <2>2, <1>1, <1>5, SMTT(30) DEF Smaller
    <3>5. ASSUME NEW k \in 1 .. Len(r.chunk_line) PROVE r.chunk_line[k] = m.wire[l.at + k]
      <4>0. k \in 1 .. Len(s.chunk_line) + 1
        BY <3>3
      <4>1. CASE k = Len(s.chunk_line) + 1
        <5>1. l.at + k = p + 1
          BY <4>1, <3>1, <1>1
        <5> QED
          BY <5>1, <4>0, <4>1, <3>3
      <4>2. CASE k # Len(s.chunk_line) + 1
        <5>1. k \in 1 .. Len(s.chunk_line)
          BY <4>0, <4>2, <1>4
        <5>2. s.chunk_line[k] = m.wire[l.at + k]
          BY <5>1 DEF Kept
        <5> QED
          BY <5>2, <4>0, <4>2, <3>3
      <4> QED
        BY <4>1, <4>2
    <3> QED
      BY <3>4, <3>5, <1>1, SMTT(30) DEF Kept, Inside
  <2>3. CASE ~(Len(s.chunk_line) < LineCap)
    <3>1. r.chunk_line = s.chunk_line
      BY <1>2, <2>3
    <3>2. Smaller(Smaller(p + 1 - l.at, l.text), LineCap) = Len(s.chunk_line)
      BY <1>1, <1>4, <1>5, <2>3 DEF Smaller
    <3> QED
      BY <3>1, <3>2, <1>1 DEF Kept, Inside
  <2> QED
    BY <2>2, <2>3
<1>6. CASE p >= l.at + l.text
  <2>1. b = "r"
    BY <1>6, LineByte
  <2>2. r.chunk_line = s.chunk_line
    BY <1>2, <2>1
  <2>3. Smaller(Smaller(p + 1 - l.at, l.text), LineCap) = Len(s.chunk_line)
    BY <1>1, <1>4, <1>6 DEF Smaller
  <2> QED
    BY <2>2, <2>3, <1>1, SMTT(30) DEF Kept, Inside
<1> QED
  BY <1>1, <1>5, <1>6

\* Behind the data of chunk i come their line end and the next chunk.
NextChunk(m, i, c) ==
  /\ LineOk(m, DataEnd(c)) /\ i + 1 \in 1 .. Len(m.chunks) /\ LineOk(m, m.chunks[i + 1])
  /\ m.chunks[i + 1].at = LineEnd(DataEnd(c)) /\ m.chunks[i + 1].from = c.from + c.size

(* What the server puts behind a size line: the trailers behind the last;  *)
(* else the data, their line end and the next chunk; or it is broken.      *)
LEMMA ChunkFacts ==
  ASSUME NEW m \in Responses, m.framing = "chunked", NEW i \in 1 .. Len(m.chunks), NEW c, c = m.chunks[i]
  PROVE  /\ m.wire \in Seq(STRING) /\ m.body \in Seq(STRING) /\ Len(m.chunks) \in Nat /\ SizeOk(m, c) /\ LineOk(m, c)
         /\ c.at \in Nat /\ c.text \in Nat /\ c.size \in Nat \cup {-1} /\ c.from \in Nat /\ LineEnd(c) \in Nat
         /\ c.size = -1 => ~m.sound
         /\ c.size = 0 => /\ m.sound /\ c.from = Len(m.body) /\ 1 \in 1 .. Len(m.trailers)
                          /\ m.trailers[1].at = LineEnd(c) /\ LineOk(m, m.trailers[1])
         /\ c.size > 0 => DataOk(m, c) /\ (NextChunk(m, i, c) \/ (~m.sound /\ NoDataEnd(m, c)))
<1>1. ChunkedOk(m) /\ m.wire \in Seq(STRING) /\ m.body \in Seq(STRING)
  BY ResponsesAssumption
<1>2. Len(m.chunks) \in Nat \ {0}
  BY <1>1 DEF ChunkedOk
<1>3. \A k \in 1 .. Len(m.chunks) : SizeOk(m, m.chunks[k])
  BY <1>1 DEF ChunkedOk
<1>4. SizeOk(m, c) /\ LineOk(m, c) /\ c.size \in Nat \cup {-1} /\ c.from \in Nat
  BY <1>3 DEF SizeOk
<1>5. c.at \in Nat /\ c.text \in Nat /\ LineEnd(c) \in Nat
  <2>1. c.at \in Nat /\ c.text \in Nat /\ c.eol \in {1, 2}
    BY <1>4 DEF LineOk
  <2> QED
    BY <2>1, SMTT(30) DEF LineEnd
<1>6. CASE i # Len(m.chunks)
  <2>1. i + 1 \in 1 .. Len(m.chunks) /\ i \in 1 .. Len(m.chunks) - 1
    BY <1>2, <1>6
  <2>2. /\ DataOk(m, c) /\ LineOk(m, DataEnd(c))
        /\ m.chunks[i + 1].at = LineEnd(DataEnd(c)) /\ m.chunks[i + 1].from = c.from + c.size
    BY <2>1, <1>1 DEF ChunkedOk
  <2>3. LineOk(m, m.chunks[i + 1])
    BY <2>1, <1>3 DEF SizeOk
  <2>4. NextChunk(m, i, c) /\ c.size > 0
    BY <2>1, <2>2, <2>3 DEF NextChunk, DataOk
  <2>5. c.size # -1 /\ c.size # 0
    BY ONLY <2>4, <1>4
  <2> QED
    BY <2>2, <2>4, <2>5, <1>1, <1>2, <1>4, <1>5
<1>7. CASE i = Len(m.chunks)
  <2>1. /\ m.sound => c.size = 0 /\ c.from = Len(m.body) /\ TrailersOk(m, c)
        /\ ~m.sound => c.size = -1 \/ (DataOk(m, c) /\ NoDataEnd(m, c))
    BY <1>1, <1>7 DEF ChunkedOk
  <2>2. CASE m.sound
    <3>1. /\ 1 \in 1 .. Len(m.trailers) /\ m.trailers[1].at = LineEnd(c) /\ LineOk(m, m.trailers[1])
      BY <2>1, <2>2 DEF TrailersOk
    <3> QED
      BY <3>1, <2>1, <2>2, <1>1, <1>2, <1>4, <1>5
  <2>3. CASE ~m.sound
    <3>1. c.size > 0 => DataOk(m, c) /\ NoDataEnd(m, c)
      BY <2>1, <2>3
    <3>2. c.size # 0
      BY <2>1, <2>3 DEF DataOk
    <3> QED
      BY <3>1, <3>2, <2>3, <1>1, <1>2, <1>4, <1>5
  <2> QED
    BY <2>2, <2>3
<1> QED
  BY <1>6, <1>7

(* The trailer lines up to the blank one, which ends the response.         *)
LEMMA TrailerFacts ==
  ASSUME NEW m \in Responses, m.framing = "chunked", m.sound, NEW j \in 1 .. Len(m.trailers), NEW l, l = m.trailers[j]
  PROVE  /\ m.wire \in Seq(STRING) /\ m.body \in Seq(STRING) /\ LineOk(m, l) /\ l.text \in Nat
         /\ l.text = 0 => LineEnd(l) = Len(m.wire)
         /\ l.text # 0 => /\ j + 1 \in 1 .. Len(m.trailers) /\ LineOk(m, m.trailers[j + 1])
                          /\ m.trailers[j + 1].at = LineEnd(l)
<1>0. ChunkedOk(m) /\ m.wire \in Seq(STRING) /\ m.body \in Seq(STRING)
  BY ResponsesAssumption
<1>1. TrailersOk(m, m.chunks[Len(m.chunks)]) /\ m.wire \in Seq(STRING) /\ m.body \in Seq(STRING)
  BY <1>0 DEF ChunkedOk
<1>2. Len(m.trailers) \in Nat \ {0}
  BY <1>1 DEF TrailersOk
<1>3. \A k \in 1 .. Len(m.trailers) : LineOk(m, m.trailers[k]) /\ (m.trailers[k].text = 0 <=> k = Len(m.trailers))
  BY <1>1 DEF TrailersOk
<1>4. LineOk(m, l) /\ (l.text = 0 <=> j = Len(m.trailers))
  BY <1>3
<1>5. l.text \in Nat
  BY <1>4 DEF LineOk
<1>6. l.text = 0 => LineEnd(l) = Len(m.wire)
  BY <1>1, <1>4 DEF TrailersOk
<1>7. ASSUME l.text # 0
      PROVE  j + 1 \in 1 .. Len(m.trailers) /\ LineOk(m, m.trailers[j + 1]) /\ m.trailers[j + 1].at = LineEnd(l)
  <2>1. j + 1 \in 1 .. Len(m.trailers) /\ j \in 1 .. Len(m.trailers) - 1
    BY <1>2, <1>4, <1>7
  <2>2. m.trailers[j + 1].at = LineEnd(l)
    BY <2>1, <1>1 DEF TrailersOk
  <2> QED
    BY <2>1, <2>2, <1>3
<1> QED
  BY <1>1, <1>4, <1>5, <1>6, <1>7

(* An empty line buffer at the start of a line.                            *)
LEMMA LineStarts ==
  ASSUME NEW m, NEW l, LineOk(m, l), NEW r, r.chunk_line = <<>>, NEW p, p = l.at
  PROVE  Inside(l, p) /\ Kept(m, r, l, p)
<1>1. l.at \in Nat /\ l.text \in Nat /\ l.eol \in {1, 2} /\ LineCap \in Nat
  BY CapsAssumption DEF LineOk
<1>2. Inside(l, p)
  BY <1>1 DEF Inside, LineEnd
<1>3. Len(r.chunk_line) = 0 /\ Smaller(Smaller(p - l.at, l.text), LineCap) = 0
  BY <1>1 DEF Smaller
<1> QED
  BY <1>2, <1>3 DEF Kept

(* At the LF of a size line the buffer holds its text, as far as it has    *)
(* room, and parse_chunk_size_line reads the size.                         *)
LEMMA SizeRead ==
  ASSUME NEW m \in Responses, m.framing = "chunked", NEW i \in 1 .. Len(m.chunks), NEW c, c = m.chunks[i],
         NEW s \in HttpType, NEW p \in Nat, InSize(m, s, c, p), p + 1 = LineEnd(c)
  PROVE  ParseChunkSize(s.chunk_line) = c.size
<1>1. m.wire \in Seq(STRING) /\ SizeOk(m, c) /\ LineOk(m, c) /\ c.at \in Nat /\ c.text \in Nat /\ LineEnd(c) \in Nat
  BY ChunkFacts
<1>3. c.eol \in {1, 2} /\ LineEnd(c) = c.at + c.text + c.eol /\ LineEnd(c) <= Len(m.wire)
  BY <1>1 DEF LineOk, LineEnd
<1>4. PICK at \in Nat, text \in Nat, eol \in {1, 2} : at = c.at /\ text = c.text /\ eol = c.eol
  BY <1>1, <1>3
<1>5. s.chunk_line \in Seq(STRING)
  BY DEF HttpType
<1>6. PICK w \in Seq(STRING), x \in Seq(STRING) : w = m.wire /\ x = s.chunk_line
  BY <1>1, <1>5
<1>7. /\ Len(x) = Smaller(Smaller(p - at, text), LineCap) /\ p + 1 = at + text + eol /\ p + 1 <= Len(w)
      /\ \A k \in 1 .. Len(x) : x[k] = w[at + k]
  BY <1>3, <1>4, <1>6 DEF InSize, Kept
<1>8. LineCap \in Nat /\ Len(w) \in Nat
  BY CapsAssumption
<1>9. PICK n \in Nat : n = Smaller(text, LineCap)
  BY <1>8 DEF Smaller
<1>10. at + n <= Len(w) /\ Len(x) = n
  BY <1>7, <1>8, <1>9 DEF Smaller
<1>11. PICK q : q = SubSeq(w, at + 1, at + n)
  OBVIOUS
<1>12. \A k \in at + 1 .. at + n : w[k] \in STRING
  BY <1>8, <1>10
<1>a. PICK lo \in Int, hi \in Int : lo = at + 1 /\ hi = at + n
  OBVIOUS
<1>b. q = SubSeq(w, lo, hi) /\ \A k \in lo .. hi : w[k] \in STRING
  BY <1>a, <1>11, <1>12
<1>c. /\ q \in Seq(STRING) /\ Len(q) = IF lo <= hi THEN hi - lo + 1 ELSE 0
      /\ \A k \in 1 .. hi - lo + 1 : q[k] = w[lo + k - 1]
  <2>1. q \in Seq(STRING) /\ Len(q) = IF lo <= hi THEN hi - lo + 1 ELSE 0
    BY ONLY <1>b, lo \in Int, hi \in Int, SubSeqProperties, SMTT(30)
  <2>2. \A k \in 1 .. hi - lo + 1 : SubSeq(w, lo, hi)[k] = w[lo + k - 1]
    BY ONLY <1>b, lo \in Int, hi \in Int, SubSeqProperties, SMTT(30)
  <2> QED
    BY ONLY <1>b, <2>1, <2>2
<1>13. q \in Seq(STRING) /\ Len(q) = n
  <2>1. (IF lo <= hi THEN hi - lo + 1 ELSE 0) = n
    BY ONLY <1>a, lo \in Int, hi \in Int, at \in Nat, n \in Nat
  <2> QED
    BY <2>1, <1>c
<1>14. ASSUME NEW k \in 1 .. n PROVE q[k] = x[k]
  <2>1. k \in 1 .. hi - lo + 1 /\ lo + k - 1 = at + k
    BY ONLY <1>a, at \in Nat, n \in Nat, k \in 1 .. n
  <2>2. q[k] = w[lo + k - 1]
    BY ONLY <2>1, <1>c
  <2>3. x[k] = w[at + k]
    BY <1>7, <1>10
  <2> QED
    BY ONLY <2>1, <2>2, <2>3
<1>15. x = q
  BY <1>10, <1>13, <1>14, SeqEqual
<1>16. s.chunk_line = SubSeq(m.wire, c.at + 1, c.at + Smaller(c.text, LineCap))
  BY <1>4, <1>6, <1>9, <1>11, <1>15
<1> QED
  BY <1>1, <1>16 DEF SizeOk

\* The fetch fails in the framing of m.
Broken(m, s, r) == ~m.sound /\ \E e \in Errs \ {"none"} : r = [SetErr(s, e) EXCEPT !.stop = TRUE]

(* A byte of a size line.                                                  *)
LEMMA SizeByte ==
  ASSUME NEW m \in Responses, m.framing = "chunked", NEW i \in 1 .. Len(m.chunks), NEW c, c = m.chunks[i],
         NEW s \in HttpType, NEW p \in Nat, InSize(m, s, c, p), NEW r, r = ChunkSizeByte(s, m.wire[p + 1])
  PROVE  (r \in HttpType /\ Same(s, r) /\ InFraming(m, r, p + 1)) \/ Broken(m, s, r)
<1>1. /\ m.wire \in Seq(STRING) /\ LineOk(m, c) /\ c.at \in Nat /\ c.text \in Nat /\ LineEnd(c) \in Nat
      /\ c.size \in Nat \cup {-1} /\ c.from \in Nat
  BY ChunkFacts
<1>2. LineOk(m, c) /\ Inside(c, p) /\ Kept(m, s, c, p) /\ Got(m, s, c.from) /\ s.chunk_phase = "SizeLine"
  BY <1>1 DEF InSize
<1>3. CASE p + 1 # LineEnd(c)
  <2>1. m.wire[p + 1] \in STRING /\ m.wire[p + 1] # "n"
    BY <1>1, <1>2, <1>3, LineByte, SMTT(30)
  <2>2. r = LineAppend(s, m.wire[p + 1])
    BY <2>1 DEF ChunkSizeByte
  <2>3. /\ r \in HttpType /\ Same(s, r) /\ r.page = s.page /\ r.page_truncated = s.page_truncated
        /\ r.chunk_phase = "SizeLine"
    BY <2>1, <2>2, <1>2, LineKeeps
  <2>4. Inside(c, p + 1) /\ Kept(m, r, c, p + 1)
    BY <2>2, <1>1, <1>2, <1>3, KeptMore
  <2>5. Got(m, r, c.from)
    BY <2>3, <1>2, GotSame
  <2>6. InSize(m, r, c, p + 1)
    BY <2>3, <2>4, <2>5 DEF InSize
  <2> QED
    BY <2>3, <2>6 DEF InFraming
<1>5. CASE p + 1 = LineEnd(c) /\ c.size = -1
  <2>1. m.wire[p + 1] = "n" /\ ~m.sound
    BY <1>2, <1>5, ChunkFacts DEF LineOk
  <2>2. ParseChunkSize(s.chunk_line) = -1
    BY <1>5, SizeRead
  <2>3. r = [SetErr(s, "HTTP CHUNK SZ") EXCEPT !.stop = TRUE] /\ "HTTP CHUNK SZ" \in Errs \ {"none"}
    BY <2>1, <2>2 DEF ChunkSizeByte, Errs
  <2> QED
    BY <2>1, <2>3 DEF Broken
<1>4. CASE p + 1 = LineEnd(c) /\ c.size # -1
  <2>1. m.wire[p + 1] = "n"
    BY <1>2, <1>4 DEF LineOk
  <2>2. ParseChunkSize(s.chunk_line) = c.size
    BY <1>4, SizeRead
  <2>3. c.size # -1 /\ c.size \in Nat
    BY <1>1, <1>4
  <2>4. PICK e \in Seq(STRING), rem \in Nat : e = <<>> /\ rem = c.size
    BY <2>3, EmptySeq
  <2>5. PICK ph \in Phases : ph = IF c.size = 0 THEN "Trailers" ELSE "Data"
    BY DEF Phases
  <2>6. r = [s EXCEPT !.chunk_line = <<>>, !.chunk_rem = c.size, !.chunk_phase = IF c.size = 0 THEN "Trailers" ELSE "Data"]
    BY <2>1, <2>2, <2>3 DEF ChunkSizeByte
  <2>7. r = Move(s, e, rem, ph)
    BY <2>4, <2>5, <2>6 DEF Move
  <2>a. /\ r \in HttpType /\ Same(s, r) /\ r.page = s.page /\ r.page_truncated = s.page_truncated
        /\ r.chunk_line = e /\ r.chunk_rem = rem /\ r.chunk_phase = ph
    BY ONLY s \in HttpType, e \in Seq(STRING), rem \in Nat, ph \in Phases, <2>7, Moved
  <2>8. /\ r \in HttpType /\ Same(s, r) /\ r.page = s.page /\ r.page_truncated = s.page_truncated
        /\ r.chunk_line = <<>> /\ r.chunk_rem = c.size /\ r.chunk_phase = ph
    BY <2>4, <2>a
  <2>9. Got(m, r, c.from)
    BY <2>8, <1>2, GotSame
  <2>10. CASE c.size = 0
    <3>1. /\ m.sound /\ 1 \in 1 .. Len(m.trailers) /\ m.trailers[1].at = LineEnd(c) /\ LineOk(m, m.trailers[1])
          /\ c.from = Len(m.body)
      BY <2>10, ChunkFacts
    <3>2. Inside(m.trailers[1], p + 1)
      BY <3>1, <2>8, <1>4, LineStarts
    <3>3. InTrailer(m, r, m.trailers[1], p + 1)
      BY <3>1, <3>2, <2>5, <2>8, <2>9, <2>10, <1>4 DEF InTrailer
    <3> QED
      BY <3>1, <3>3, <2>8 DEF InFraming
  <2>11. CASE c.size # 0
    <3>1. r.chunk_phase = "Data" /\ c.size > 0 /\ r.chunk_rem \in 1 .. c.size
      BY <2>3, <2>5, <2>8, <2>11
    <3>2. p + 1 = LineEnd(c) + c.size - r.chunk_rem /\ c.from + c.size - r.chunk_rem = c.from
      BY <2>3, <2>8, <1>1, <1>4, SMTT(30)
    <3>3. InData(m, r, c, p + 1)
      BY <3>1, <3>2, <2>8, <2>9 DEF InData
    <3> QED
      BY <3>3, <2>8 DEF InFraming
  <2> QED
    BY <2>10, <2>11
<1> QED
  BY <1>3, <1>4, <1>5

(* page_push_byte is about the page only.                                  *)
LEMMA PushSame ==
  ASSUME NEW s \in HttpType, NEW b, NEW r, r = PagePushByte(s, b)
  PROVE  /\ Same(s, r) /\ r.chunk_line = s.chunk_line /\ r.chunk_rem = s.chunk_rem /\ r.chunk_phase = s.chunk_phase
         /\ r.http_body_remaining = s.http_body_remaining /\ r.stream_len = s.stream_len
<1>1. CASE Len(s.page) < PageCap
  <2>1. r = [s EXCEPT !.page = Append(s.page, b)]
    BY <1>1 DEF PagePushByte
  <2>2. /\ r.chunk_line = s.chunk_line /\ r.chunk_rem = s.chunk_rem /\ r.chunk_phase = s.chunk_phase
        /\ r.http_body_remaining = s.http_body_remaining /\ r.stream_len = s.stream_len
    BY <2>1 DEF HttpType
  <2>3. Same(s, r)
    BY <2>1 DEF HttpType, Same
  <2> QED
    BY <2>2, <2>3
<1>2. CASE ~(Len(s.page) < PageCap)
  <2>1. r = [s EXCEPT !.page_truncated = TRUE]
    BY <1>2 DEF PagePushByte
  <2>2. /\ r.chunk_line = s.chunk_line /\ r.chunk_rem = s.chunk_rem /\ r.chunk_phase = s.chunk_phase
        /\ r.http_body_remaining = s.http_body_remaining /\ r.stream_len = s.stream_len
    BY <2>1 DEF HttpType
  <2>3. Same(s, r)
    BY <2>1 DEF HttpType, Same
  <2> QED
    BY <2>2, <2>3
<1> QED
  BY <1>1, <1>2

(* A byte of the data of a chunk.                                          *)
LEMMA DataByte ==
  ASSUME NEW m \in Responses, m.framing = "chunked", NEW i \in 1 .. Len(m.chunks), NEW c, c = m.chunks[i],
         NEW s \in HttpType, NEW p \in Nat, InData(m, s, c, p), NEW r, r = ChunkDataByte(s, m.wire[p + 1])
  PROVE  r \in HttpType /\ Same(s, r) /\ InFraming(m, r, p + 1)
<1> DEFINE b == m.wire[p + 1]
           u == PagePushByte(s, b)
<1>1. /\ m.wire \in Seq(STRING) /\ m.body \in Seq(STRING) /\ DataOk(m, c) /\ LineEnd(c) \in Nat
      /\ c.size \in Nat /\ c.from \in Nat
  <2>1. /\ m.wire \in Seq(STRING) /\ m.body \in Seq(STRING) /\ c.size \in Nat \cup {-1} /\ c.from \in Nat
        /\ LineEnd(c) \in Nat /\ (c.size > 0 => DataOk(m, c))
    BY ChunkFacts
  <2>2. c.size > 0
    BY DEF InData
  <2> QED
    BY <2>1, <2>2
<1>2. /\ c.size > 0 /\ s.chunk_line = <<>> /\ s.chunk_rem \in 1 .. c.size /\ s.chunk_phase = "Data"
      /\ p = LineEnd(c) + c.size - s.chunk_rem /\ Got(m, s, c.from + c.size - s.chunk_rem)
  BY DEF InData
<1>3. c.from + c.size <= Len(m.body) /\ \A k \in 1 .. c.size : m.wire[LineEnd(c) + k] = m.body[c.from + k]
  BY <1>1, <1>2 DEF DataOk
<1>4. PICK g \in Nat, k \in 1 .. c.size :
        /\ g = c.from + c.size - s.chunk_rem /\ k = c.size - s.chunk_rem + 1 /\ g + 1 = c.from + k /\ p + 1 = LineEnd(c) + k
  <2>a. /\ c.size \in Nat /\ c.from \in Nat /\ LineEnd(c) \in Nat /\ s.chunk_rem \in 1 .. c.size
        /\ p = LineEnd(c) + c.size - s.chunk_rem
    BY ONLY <1>1, <1>2
  <2>1. c.from + c.size - s.chunk_rem \in Nat /\ c.size - s.chunk_rem + 1 \in 1 .. c.size
    BY ONLY <2>a, SMTT(30)
  <2>2. c.from + c.size - s.chunk_rem + 1 = c.from + (c.size - s.chunk_rem + 1)
        /\ p + 1 = LineEnd(c) + (c.size - s.chunk_rem + 1)
    BY ONLY <2>a
  <2> QED
    BY ONLY <2>1, <2>2
<1>5. b = m.body[g + 1] /\ g < Len(m.body) /\ Got(m, s, g)
  <2>1. b = m.body[g + 1]
    BY <1>3, <1>4
  <2>2. Len(m.body) \in Nat
    BY <1>1
  <2>3. s.chunk_rem \in Int /\ s.chunk_rem >= 1 /\ g = c.from + c.size - s.chunk_rem
    BY <1>1, <1>2, <1>4
  <2>5. g < Len(m.body)
    BY ONLY <2>2, <2>3, <1>1, <1>3, SMTT(30)
  <2> QED
    BY <2>1, <2>5, <1>2, <1>4
<1>6. u \in HttpType /\ Got(m, u, g + 1)
  BY <1>1, <1>5, PushGot
<1>7. Same(s, u) /\ u.chunk_line = s.chunk_line /\ u.chunk_rem = s.chunk_rem
  BY PushSame
<1>8. PICK v \in HttpType : v = u
  BY <1>6
<1>9. PICK e \in Seq(STRING), rem \in Nat, ph \in Phases :
        e = <<>> /\ rem = s.chunk_rem - 1 /\ ph = IF s.chunk_rem = 1 THEN "AfterData0" ELSE "Data"
  <2>1. s.chunk_rem - 1 \in Nat
    BY <1>1, <1>2, SMTT(30)
  <2>2. (IF s.chunk_rem = 1 THEN "AfterData0" ELSE "Data") \in Phases
    BY DEF Phases
  <2> QED
    BY <2>1, <2>2, EmptySeq
<1>10. r = Move(v, e, rem, ph)
  <2>1. v.chunk_line = e /\ v.chunk_rem - 1 = rem
    BY <1>2, <1>7, <1>8, <1>9
  <2>2. r = [v EXCEPT !.chunk_rem = rem, !.chunk_phase = ph]
    BY <2>1, <1>8, <1>9 DEF ChunkDataByte
  <2> QED
    BY <2>1, <2>2 DEF Move, HttpType
<1>11. /\ r \in HttpType /\ Same(v, r) /\ r.page = v.page /\ r.page_truncated = v.page_truncated
       /\ r.chunk_line = e /\ r.chunk_rem = rem /\ r.chunk_phase = ph
  BY ONLY v \in HttpType, e \in Seq(STRING), rem \in Nat, ph \in Phases, <1>10, Moved
<1>12. Same(s, r)
  BY <1>7, <1>8, <1>11 DEF Same
<1>13. Got(m, r, g + 1)
  BY <1>6, <1>8, <1>11, GotSame
<1>14. CASE s.chunk_rem = 1
  <2>a. r.chunk_phase = "AfterData0" /\ r.chunk_line = <<>>
    BY <1>9, <1>11, <1>14
  <2>b. g = c.from + c.size - 1 /\ p = LineEnd(c) + c.size - 1
    BY <1>2, <1>4, <1>14
  <2>c. g + 1 = c.from + c.size /\ p + 1 = LineEnd(c) + c.size
    BY ONLY <2>b, <1>1, SMTT(30)
  <2>1. g + 1 = c.from + c.size /\ p + 1 = LineEnd(c) + c.size /\ r.chunk_phase = "AfterData0" /\ r.chunk_line = <<>>
    BY <2>a, <2>c
  <2>2. BehindData(m, r, c, p + 1)
    BY <2>1, <1>2, <1>13 DEF BehindData
  <2> QED
    BY <2>2, <1>11, <1>12 DEF InFraming
<1>15. CASE s.chunk_rem # 1
  <2>a. r.chunk_phase = "Data" /\ r.chunk_line = <<>> /\ r.chunk_rem = s.chunk_rem - 1
    BY <1>9, <1>11, <1>15
  <2>b. s.chunk_rem \in Int /\ 1 <= s.chunk_rem /\ s.chunk_rem <= c.size /\ s.chunk_rem # 1
    BY <1>1, <1>2, <1>15
  <2>c. s.chunk_rem - 1 \in 1 .. c.size
    BY ONLY <2>b, <1>1
  <2>d. g = c.from + c.size - s.chunk_rem /\ p = LineEnd(c) + c.size - s.chunk_rem
    BY <1>2, <1>4
  <2>e. p + 1 = LineEnd(c) + c.size - (s.chunk_rem - 1) /\ g + 1 = c.from + c.size - (s.chunk_rem - 1)
    BY ONLY <2>b, <2>d, <1>1, SMTT(30)
  <2>1. /\ r.chunk_phase = "Data" /\ r.chunk_line = <<>> /\ r.chunk_rem \in 1 .. c.size
        /\ p + 1 = LineEnd(c) + c.size - r.chunk_rem /\ g + 1 = c.from + c.size - r.chunk_rem
    BY <2>a, <2>c, <2>e
  <2>2. InData(m, r, c, p + 1)
    BY <2>1, <1>2, <1>13 DEF InData
  <2> QED
    BY <2>2, <1>11, <1>12 DEF InFraming
<1> QED
  BY <1>14, <1>15

(* What comes behind the data of a chunk: the bytes q + 1 and q + 2.       *)
LEMMA DataEndBytes ==
  ASSUME NEW m \in Responses, m.framing = "chunked", NEW i \in 1 .. Len(m.chunks), NEW c, c = m.chunks[i], c.size > 0,
         NEW q, q = LineEnd(c) + c.size
  PROVE  /\ q \in Nat /\ c.from + c.size \in Nat /\ q < Len(m.wire) /\ Len(m.wire) \in Nat
         /\ \/ NextChunk(m, i, c) /\ m.wire[q + 1] = "n" /\ LineEnd(DataEnd(c)) = q + 1
            \/ /\ NextChunk(m, i, c) /\ m.wire[q + 1] = "r" /\ m.wire[q + 2] = "n" /\ LineEnd(DataEnd(c)) = q + 2
               /\ q + 2 <= Len(m.wire)
            \/ ~m.sound /\ m.wire[q + 1] \notin {"r", "n"}
            \/ ~m.sound /\ m.wire[q + 1] = "r" /\ m.wire[q + 2] # "n" /\ q + 2 <= Len(m.wire)
<1>1. /\ m.wire \in Seq(STRING) /\ LineEnd(c) \in Nat /\ c.size \in Nat \cup {-1} /\ c.from \in Nat
      /\ DataOk(m, c) /\ (NextChunk(m, i, c) \/ (~m.sound /\ NoDataEnd(m, c)))
  BY ChunkFacts
<1>2. q \in Nat /\ c.from + c.size \in Nat /\ Len(m.wire) \in Nat /\ q < Len(m.wire)
  BY <1>1, SMTT(30) DEF DataOk
<1>3. CASE ~m.sound /\ NoDataEnd(m, c)
  BY <1>2, <1>3 DEF NoDataEnd
<1>4. CASE NextChunk(m, i, c)
  <2>1. PICK l : l = DataEnd(c)
    OBVIOUS
  <2>2. LineOk(m, l) /\ l.at = q /\ l.text = 0
    BY <2>1, <1>4 DEF NextChunk, DataEnd
  <2>3. PICK gap \in {1, 2} : gap = l.eol
    BY <2>2 DEF LineOk
  <2>4. LineEnd(l) = q + gap
    BY <2>2, <2>3, <1>2 DEF LineEnd
  <2>5. q + gap <= Len(m.wire) /\ m.wire[q + gap] = "n" /\ (gap = 2 => m.wire[q + 1] = "r")
    <3>1. LineEnd(l) <= Len(m.wire) /\ m.wire[LineEnd(l)] = "n" /\ (l.eol = 2 => m.wire[l.at + l.text + 1] = "r")
      BY <2>2 DEF LineOk
    <3>2. l.at + l.text + 1 = q + 1
      BY <2>2, <1>2
    <3> QED
      BY <3>1, <3>2, <2>3, <2>4
  <2> QED
    BY <2>1, <2>3, <2>4, <2>5, <1>2, <1>4
<1> QED
  BY <1>1, <1>3, <1>4

(* The line end behind the data of a chunk.                                *)
LEMMA BehindDataByte ==
  ASSUME NEW m \in Responses, m.framing = "chunked", NEW i \in 1 .. Len(m.chunks), NEW c, c = m.chunks[i],
         NEW s \in HttpType, NEW p \in Nat, BehindData(m, s, c, p), NEW r, r = ChunkAfterData(s, m.wire[p + 1])
  PROVE  (r \in HttpType /\ Same(s, r) /\ InFraming(m, r, p + 1)) \/ Broken(m, s, r)
<1>1. PICK q : q = LineEnd(c) + c.size
  OBVIOUS
<1>2. /\ c.size > 0 /\ s.chunk_line = <<>> /\ Got(m, s, c.from + c.size)
      /\ \/ s.chunk_phase = "AfterData0" /\ p = q
         \/ s.chunk_phase = "AfterData1" /\ p = q + 1 /\ m.wire[p] = "r"
  BY <1>1 DEF BehindData
<1>3. /\ q \in Nat
      /\ \/ NextChunk(m, i, c) /\ m.wire[q + 1] = "n" /\ LineEnd(DataEnd(c)) = q + 1
         \/ NextChunk(m, i, c) /\ m.wire[q + 1] = "r" /\ m.wire[q + 2] = "n" /\ LineEnd(DataEnd(c)) = q + 2
         \/ ~m.sound /\ m.wire[q + 1] \notin {"r", "n"}
         \/ ~m.sound /\ m.wire[q + 1] = "r" /\ m.wire[q + 2] # "n"
  BY <1>1, <1>2, DataEndBytes, SMTT(30)
<1>4. q + 1 + 1 = q + 2
  BY <1>3
<1>7. s.chunk_rem \in Nat
  BY DEF HttpType
<1>8. PICK e \in Seq(STRING), rem \in Nat : e = s.chunk_line /\ rem = s.chunk_rem
  BY <1>2, <1>7, EmptySeq
<1>9. CASE s.chunk_phase = "AfterData0" /\ m.wire[p + 1] = "r"
  <2>1. p = q
    BY <1>2, <1>9
  <2>2. r = [s EXCEPT !.chunk_phase = "AfterData1"]
    BY <1>9 DEF ChunkAfterData
  <2>3. PICK ph \in Phases : ph = "AfterData1"
    BY DEF Phases
  <2>4. r = Move(s, e, rem, ph)
    BY <2>2, <2>3, <1>8 DEF Move, HttpType
  <2>5. /\ r \in HttpType /\ Same(s, r) /\ r.page = s.page /\ r.page_truncated = s.page_truncated
        /\ r.chunk_line = e /\ r.chunk_rem = rem /\ r.chunk_phase = ph
    BY ONLY s \in HttpType, e \in Seq(STRING), rem \in Nat, ph \in Phases, <2>4, Moved
  <2>6. Got(m, r, c.from + c.size)
    BY <2>5, <1>2, GotSame
  <2>8. BehindData(m, r, c, p + 1)
    BY <2>1, <2>3, <2>5, <2>6, <1>1, <1>2, <1>8, <1>9 DEF BehindData
  <2> QED
    BY <2>5, <2>8 DEF InFraming
<1>10. CASE m.wire[p + 1] = "n"
  <2>1. r = [s EXCEPT !.chunk_phase = "SizeLine"]
    BY <1>10 DEF ChunkAfterData
  <2>2. NextChunk(m, i, c) /\ LineEnd(DataEnd(c)) = p + 1
    BY <1>2, <1>3, <1>4, <1>10
  <2>3. PICK ph \in Phases : ph = "SizeLine"
    BY DEF Phases
  <2>4. r = Move(s, e, rem, ph)
    BY <2>1, <2>3, <1>8 DEF Move, HttpType
  <2>5. /\ r \in HttpType /\ Same(s, r) /\ r.page = s.page /\ r.page_truncated = s.page_truncated
        /\ r.chunk_line = e /\ r.chunk_rem = rem /\ r.chunk_phase = ph
    BY ONLY s \in HttpType, e \in Seq(STRING), rem \in Nat, ph \in Phases, <2>4, Moved
  <2>6. PICK d : d = m.chunks[i + 1]
    OBVIOUS
  <2>7. i + 1 \in 1 .. Len(m.chunks) /\ LineOk(m, d) /\ d.at = p + 1 /\ d.from = c.from + c.size
    BY <2>2, <2>6 DEF NextChunk
  <2>8. Got(m, r, d.from)
    BY <2>5, <2>7, <1>2, GotSame
  <2>9. r.chunk_line = <<>>
    BY <2>5, <1>2, <1>8
  <2>10. Inside(d, p + 1) /\ Kept(m, r, d, p + 1)
    BY <2>7, <2>9, LineStarts
  <2>11. InSize(m, r, d, p + 1)
    BY <2>3, <2>5, <2>8, <2>10 DEF InSize
  <2> QED
    BY <2>5, <2>6, <2>7, <2>11 DEF InFraming
<1>11. CASE m.wire[p + 1] # "n" /\ ~(s.chunk_phase = "AfterData0" /\ m.wire[p + 1] = "r")
  <2>1. ~m.sound
    BY <1>2, <1>3, <1>4, <1>11
  <2>2. r = [SetErr(s, "HTTP CHUNK CRLF") EXCEPT !.stop = TRUE] /\ "HTTP CHUNK CRLF" \in Errs \ {"none"}
    BY <1>11 DEF ChunkAfterData, Errs
  <2> QED
    BY <2>1, <2>2 DEF Broken
<1> QED
  BY <1>9, <1>10, <1>11

(* A byte of a trailer line before its LF.                                 *)
LEMMA TrailerText ==
  ASSUME NEW m \in Responses, m.framing = "chunked", NEW j \in 1 .. Len(m.trailers), NEW l, l = m.trailers[j],
         NEW s \in HttpType, NEW p \in Nat, InTrailer(m, s, l, p), p + 1 # LineEnd(l),
         NEW r, r = ChunkTrailerByte(s, m.wire[p + 1])
  PROVE  r \in HttpType /\ Same(s, r) /\ InTrailer(m, r, l, p + 1)
<1> DEFINE b == m.wire[p + 1]
<1>1. m.wire \in Seq(STRING) /\ LineOk(m, l) /\ l.text \in Nat
  BY TrailerFacts DEF InTrailer
<1>2. /\ s.chunk_phase = "Trailers" /\ Inside(l, p) /\ Got(m, s, Len(m.body))
      /\ (s.chunk_line = <<>> <=> (p = l.at \/ l.text = 0)) /\ m.sound
  BY DEF InTrailer
<1>3. /\ b \in STRING /\ l.at \in Nat /\ LineEnd(l) \in Nat
      /\ p < l.at + l.text => b \notin {"r", "n"}
      /\ p >= l.at + l.text => b = "r"
  <2>1. /\ b \in STRING /\ l.at \in Nat /\ l.text \in Nat /\ l.eol \in {1, 2} /\ LineEnd(l) = l.at + l.text + l.eol
        /\ p < l.at + l.text => b \notin {"r", "n"}
        /\ p >= l.at + l.text => b = IF p + 1 = LineEnd(l) THEN "n" ELSE "r"
    BY <1>1, <1>2, LineByte
  <2> QED
    BY <2>1
<1>4. b # "n"
  BY <1>1, <1>3
<1>5. l.at <= p /\ p + 1 < LineEnd(l) /\ Inside(l, p + 1) /\ p + 1 # l.at
  BY <1>2, <1>3 DEF Inside
<1>6. r = LineAppend(s, b)
  BY <1>4 DEF ChunkTrailerByte
<1>7. /\ r \in HttpType /\ Same(s, r) /\ r.page = s.page /\ r.page_truncated = s.page_truncated
      /\ r.chunk_phase = s.chunk_phase
      /\ r.chunk_line = IF b # "r" /\ Len(s.chunk_line) < LineCap THEN Append(s.chunk_line, b) ELSE s.chunk_line
  BY <1>3, <1>6, LineKeeps, ZenonT(60)
<1>8. Got(m, r, Len(m.body))
  BY <1>2, <1>7, GotSame
<1>9. s.chunk_line \in Seq(STRING) /\ LineCap \in Nat \ {0}
  BY CapsAssumption DEF HttpType
<1>10. r.chunk_line = <<>> <=> l.text = 0
  <2>1. CASE p < l.at + l.text
    <3>1. b # "r" /\ l.text # 0
      BY <2>1, <1>1, <1>3, <1>5
    <3>2. CASE Len(s.chunk_line) < LineCap
      <4>1. r.chunk_line = Append(s.chunk_line, b)
        BY <3>1, <3>2, <1>7
      <4>2. Append(s.chunk_line, b) # <<>>
        <5>1. Len(Append(s.chunk_line, b)) = Len(s.chunk_line) + 1 /\ Len(s.chunk_line) \in Nat
          BY <1>3, <1>9
        <5>2. Len(Append(s.chunk_line, b)) # 0
          BY ONLY <5>1
        <5>3. Len(<<>>) = 0
          BY EmptySeq
        <5> QED
          BY ONLY <5>2, <5>3
      <4> QED
        BY <4>1, <4>2, <3>1
    <3>3. CASE ~(Len(s.chunk_line) < LineCap)
      <4>1. s.chunk_line # <<>>
        BY <3>3, <1>9
      <4> QED
        BY <4>1, <3>1, <3>3, <1>7
    <3> QED
      BY <3>2, <3>3
  <2>2. CASE p >= l.at + l.text
    <3>1. r.chunk_line = s.chunk_line
      BY <2>2, <1>3, <1>7
    <3>2. p = l.at => l.text = 0
      BY <2>2, <1>1, <1>3
    <3> QED
      BY <3>1, <3>2, <1>2
  <2> QED
    BY <2>1, <2>2, <1>1, <1>3
<1>11. InTrailer(m, r, l, p + 1)
  BY <1>2, <1>5, <1>7, <1>8, <1>10 DEF InTrailer
<1> QED
  BY <1>7, <1>11

(* The LF of a trailer line: on to the next one; behind the blank line, on *)
(* the last byte of the response, finish_fetch.                            *)
LEMMA TrailerEnd ==
  ASSUME NEW m \in Responses, m.framing = "chunked", NEW j \in 1 .. Len(m.trailers), NEW l, l = m.trailers[j],
         NEW s \in HttpType, NEW p \in Nat, InTrailer(m, s, l, p), p + 1 = LineEnd(l),
         NEW r, r = ChunkTrailerByte(s, m.wire[p + 1])
  PROVE  \/ r \in HttpType /\ Same(s, r) /\ InFraming(m, r, p + 1)
         \/ r = [FinishFetch(s) EXCEPT !.stop = TRUE] /\ p + 1 = Len(m.wire) /\ Got(m, s, Len(m.body)) /\ m.sound
<1>1. /\ m.wire \in Seq(STRING) /\ LineOk(m, l) /\ l.text \in Nat
      /\ l.text = 0 => LineEnd(l) = Len(m.wire)
  BY TrailerFacts DEF InTrailer
<1>2. /\ s.chunk_phase = "Trailers" /\ Inside(l, p) /\ Got(m, s, Len(m.body))
      /\ (s.chunk_line = <<>> <=> (p = l.at \/ l.text = 0)) /\ m.sound
  BY DEF InTrailer
<1>3. m.wire[p + 1] = "n" /\ l.at \in Nat /\ l.eol \in {1, 2} /\ LineEnd(l) = l.at + l.text + l.eol
  BY <1>1 DEF LineOk, LineEnd
<1>4. CASE l.text = 0
  <2>1. r = [FinishFetch(s) EXCEPT !.stop = TRUE]
    BY <1>2, <1>3, <1>4 DEF ChunkTrailerByte
  <2> QED
    BY <2>1, <1>1, <1>2, <1>4
<1>5. CASE l.text # 0
  <2>1. p # l.at
    BY <1>1, <1>3, <1>5, SMTT(30)
  <2>2. r = [s EXCEPT !.chunk_line = <<>>]
    BY <2>1, <1>2, <1>3, <1>5 DEF ChunkTrailerByte
  <2>3. s.chunk_rem \in Nat /\ s.chunk_phase \in Phases
    BY DEF HttpType
  <2>4. PICK e \in Seq(STRING), rem \in Nat, ph \in Phases : e = <<>> /\ rem = s.chunk_rem /\ ph = s.chunk_phase
    BY <2>3, EmptySeq
  <2>5. r = Move(s, e, rem, ph)
    BY <2>2, <2>4 DEF Move, HttpType
  <2>6. /\ r \in HttpType /\ Same(s, r) /\ r.page = s.page /\ r.page_truncated = s.page_truncated
        /\ r.chunk_line = e /\ r.chunk_rem = rem /\ r.chunk_phase = ph
    BY ONLY s \in HttpType, e \in Seq(STRING), rem \in Nat, ph \in Phases, <2>5, Moved
  <2>7. PICK d : d = m.trailers[j + 1]
    OBVIOUS
  <2>8. j + 1 \in 1 .. Len(m.trailers) /\ LineOk(m, d) /\ d.at = p + 1
    BY <2>7, <1>2, <1>5, TrailerFacts
  <2>9. Got(m, r, Len(m.body)) /\ r.chunk_line = <<>> /\ r.chunk_phase = "Trailers"
    BY <2>4, <2>6, <1>2, GotSame
  <2>10. Inside(d, p + 1)
    BY <2>8, <2>9, LineStarts
  <2>11. InTrailer(m, r, d, p + 1)
    BY <2>8, <2>9, <2>10, <1>2 DEF InTrailer
  <2> QED
    BY <2>6, <2>7, <2>8, <2>11 DEF InFraming
<1> QED
  BY <1>4, <1>5

(* Every byte of the framing: the machine moves on in it, or the response  *)
(* ends, or the framing breaks.                                            *)
LEMMA FramingByte ==
  ASSUME NEW m \in Responses, m.framing = "chunked", NEW s \in HttpType, NEW p \in Nat, InFraming(m, s, p),
         NEW r, r = ChunkByte(s, m.wire[p + 1])
  PROVE  \/ r \in HttpType /\ Same(s, r) /\ InFraming(m, r, p + 1)
         \/ r = [FinishFetch(s) EXCEPT !.stop = TRUE] /\ p + 1 = Len(m.wire) /\ Got(m, s, Len(m.body)) /\ m.sound
         \/ Broken(m, s, r)
<1>1. CASE \E i \in 1 .. Len(m.chunks) : InSize(m, s, m.chunks[i], p)
  <2>a. PICK i \in 1 .. Len(m.chunks) : InSize(m, s, m.chunks[i], p)
    BY <1>1
  <2>1. PICK c : c = m.chunks[i] /\ InSize(m, s, c, p)
    BY <2>a
  <2>2. r = ChunkSizeByte(s, m.wire[p + 1])
    BY <2>1 DEF InSize, ChunkByte
  <2> QED
    BY <2>1, <2>2, SizeByte
<1>2. CASE \E i \in 1 .. Len(m.chunks) : InData(m, s, m.chunks[i], p)
  <2>a. PICK i \in 1 .. Len(m.chunks) : InData(m, s, m.chunks[i], p)
    BY <1>2
  <2>1. PICK c : c = m.chunks[i] /\ InData(m, s, c, p)
    BY <2>a
  <2>2. r = ChunkDataByte(s, m.wire[p + 1])
    BY <2>1 DEF InData, ChunkByte
  <2> QED
    BY <2>1, <2>2, DataByte
<1>3. CASE \E i \in 1 .. Len(m.chunks) : BehindData(m, s, m.chunks[i], p)
  <2>a. PICK i \in 1 .. Len(m.chunks) : BehindData(m, s, m.chunks[i], p)
    BY <1>3
  <2>1. PICK c : c = m.chunks[i] /\ BehindData(m, s, c, p)
    BY <2>a
  <2>2. r = ChunkAfterData(s, m.wire[p + 1])
    BY <2>1 DEF BehindData, ChunkByte
  <2> QED
    BY <2>1, <2>2, BehindDataByte
<1>4. CASE \E j \in 1 .. Len(m.trailers) : InTrailer(m, s, m.trailers[j], p)
  <2>a. PICK j \in 1 .. Len(m.trailers) : InTrailer(m, s, m.trailers[j], p)
    BY <1>4
  <2>1. PICK l : l = m.trailers[j] /\ InTrailer(m, s, l, p)
    BY <2>a
  <2>2. r = ChunkTrailerByte(s, m.wire[p + 1])
    BY <2>1 DEF InTrailer, ChunkByte
  <2>3. CASE p + 1 # LineEnd(l)
    <3>1. r \in HttpType /\ Same(s, r) /\ InTrailer(m, r, l, p + 1)
      BY <2>1, <2>2, <2>3, TrailerText
    <3> QED
      BY <3>1, <2>1 DEF InFraming
  <2>4. CASE p + 1 = LineEnd(l)
    BY <2>1, <2>2, <2>4, TrailerEnd
  <2> QED
    BY <2>3, <2>4
<1> QED
  BY <1>1, <1>2, <1>3, <1>4 DEF InFraming

-----------------------------------------------------------------------------
(***************************************************************************)
(* The steps.                                                              *)
(***************************************************************************)
\* The bytes left in the header buffer do not matter to what follows.
Agree(s, r) ==
  /\ Same(s, r) /\ r.page = s.page /\ r.page_truncated = s.page_truncated /\ r.chunk_line = s.chunk_line
  /\ r.chunk_rem = s.chunk_rem /\ r.chunk_phase = s.chunk_phase
  /\ r.http_body_remaining = s.http_body_remaining

Buffered(s, k) == [s EXCEPT !.stream_len = k]

LEMMA BufferedFacts ==
  ASSUME NEW s \in HttpType, NEW k \in Nat
  PROVE  Buffered(s, k) \in HttpType /\ Agree(s, Buffered(s, k)) /\ Buffered(s, k).stream_len = k
<1>1. Buffered(s, k) \in HttpType
  BY DEF HttpType, Buffered
<1>2. Agree(s, Buffered(s, k)) /\ Buffered(s, k).stream_len = k
  BY DEF HttpType, Buffered, Agree, Same
<1> QED
  BY <1>1, <1>2

LEMMA AgreeGot ==
  ASSUME NEW m, NEW s, NEW r, Agree(s, r), NEW g, Got(m, s, g)
  PROVE  Got(m, r, g)
  BY DEF Agree, Got, Begins

LEMMA AgreeDecoded ==
  ASSUME NEW m, NEW s, NEW r, Agree(s, r), DecodedAsLabelled(m, s)
  PROVE  DecodedAsLabelled(m, r)
<1>1. r.coded = s.coded /\ r.page = s.page
  BY DEF Agree, Same
<1> QED
  BY <1>1, Zenon DEF DecodedAsLabelled, Bytes

LEMMA AgreeFraming ==
  ASSUME NEW m, NEW s, NEW r, Agree(s, r), NEW p, InFraming(m, s, p)
  PROVE  InFraming(m, r, p)
<1>1. \A c : InSize(m, s, c, p) => InSize(m, r, c, p)
  BY AgreeGot DEF Agree, InSize, Kept
<1>2. \A c : InData(m, s, c, p) => InData(m, r, c, p)
  BY AgreeGot DEF Agree, InData
<1>3. \A c : BehindData(m, s, c, p) => BehindData(m, r, c, p)
  BY AgreeGot DEF Agree, BehindData
<1>4. \A l : InTrailer(m, s, l, p) => InTrailer(m, r, l, p)
  BY AgreeGot DEF Agree, InTrailer
<1> QED
  BY <1>1, <1>2, <1>3, <1>4 DEF InFraming

(* The decoder of a chunked response that goes on has not read the last    *)
(* byte, and its page is a beginning of the content.                       *)
LEMMA FramingInside ==
  ASSUME NEW m \in Responses, m.framing = "chunked", NEW s, NEW p \in Nat, InFraming(m, s, p)
  PROVE  p < Len(m.wire) /\ Begins(m, s)
<1>1. ASSUME NEW i \in 1 .. Len(m.chunks), NEW c, c = m.chunks[i],
             InSize(m, s, c, p) \/ InData(m, s, c, p) \/ BehindData(m, s, c, p)
      PROVE  p < Len(m.wire) /\ Begins(m, s)
  <2>1. /\ LineOk(m, c) /\ LineEnd(c) \in Nat /\ c.size \in Nat \cup {-1} /\ c.at \in Nat
        /\ m.wire \in Seq(STRING)
    BY <1>1, ChunkFacts
  <2>2. LineEnd(c) <= Len(m.wire) /\ Len(m.wire) \in Nat
    BY <2>1 DEF LineOk
  <2>3. CASE InSize(m, s, c, p)
    <3>1. p < LineEnd(c) /\ c.at <= p /\ Begins(m, s)
      BY <2>3 DEF InSize, Inside, Got
    <3> QED
      BY ONLY p \in Nat, <3>1, <2>1, <2>2
  <2>4. PICK q : q = LineEnd(c) + c.size
    OBVIOUS
  <2>5. CASE InData(m, s, c, p)
    <3>0. /\ c.size > 0 /\ s.chunk_rem \in 1 .. c.size /\ p = LineEnd(c) + c.size - s.chunk_rem
          /\ Got(m, s, c.from + c.size - s.chunk_rem)
      BY <2>5 DEF InData
    <3>a. Begins(m, s)
      BY <3>0 DEF Got
    <3>1. c.size > 0 /\ s.chunk_rem \in 1 .. c.size /\ p = q - s.chunk_rem /\ Begins(m, s)
      BY ONLY <3>0, <3>a, <2>1, <2>4
    <3>2. q \in Nat /\ q < Len(m.wire)
      BY <3>1, <2>4, <1>1, DataEndBytes
    <3> QED
      BY ONLY <3>1, <3>2, <2>1, <2>2
  <2>6. CASE BehindData(m, s, c, p)
    <3>1. c.size > 0 /\ Got(m, s, c.from + c.size) /\ (p = q \/ (p = q + 1 /\ m.wire[q + 1] = "r"))
      BY <2>4, <2>6 DEF BehindData
    <3>2. q \in Nat /\ q < Len(m.wire) /\ (m.wire[q + 1] = "r" => q + 2 <= Len(m.wire))
      BY <3>1, <2>4, <1>1, DataEndBytes
    <3>3. Begins(m, s)
      BY <3>1 DEF Got
    <3>4. p < Len(m.wire)
      BY ONLY <3>1, <3>2, <2>2
    <3> QED
      BY <3>3, <3>4
  <2> QED
    BY <1>1, <2>3, <2>5, <2>6
<1>2. ASSUME NEW j \in 1 .. Len(m.trailers), NEW l, l = m.trailers[j], InTrailer(m, s, l, p)
      PROVE  p < Len(m.wire) /\ Begins(m, s)
  <2>1. LineOk(m, l) /\ m.wire \in Seq(STRING)
    BY <1>2, TrailerFacts DEF InTrailer
  <2>2. p < LineEnd(l) /\ LineEnd(l) <= Len(m.wire) /\ LineEnd(l) \in Nat /\ Len(m.wire) \in Nat /\ Begins(m, s)
    BY <1>2, <2>1, SMTT(30) DEF LineOk, LineEnd, InTrailer, Inside, Got
  <2> QED
    BY ONLY p \in Nat, <2>2
<1> QED
  BY <1>1, <1>2 DEF InFraming

(* What a fetch not yet settled looks like between two calls, by framing.  *)
LEMMA PlainFacts ==
  ASSUME NEW m \in Responses, m.framing # "chunked"
  PROVE  /\ m.wire \in Seq(STRING) /\ m.body \in Seq(STRING) /\ m.header \in Nat
         /\ Len(m.wire) \in Nat /\ Len(m.body) \in Nat /\ Len(m.wire) = m.header + Len(m.body)
         /\ \A k \in 1 .. Len(m.body) : m.wire[m.header + k] = m.body[k]
         /\ m.length = IF m.framing = "length" THEN Len(m.body) ELSE NoLength
         /\ m.framing \in {"length", "close"}
<1>1. /\ m.wire \in Seq(STRING) /\ m.body \in Seq(STRING) /\ m.header \in 1 .. Len(m.wire) /\ PlainOk(m)
      /\ m.framing \in {"length", "close"}
  BY ResponsesAssumption
<1>2. Len(m.wire) \in Nat /\ Len(m.body) \in Nat
  BY <1>1
<1> QED
  BY <1>1, <1>2 DEF PlainOk

(* The length counted down to 0: the content is complete and finish_fetch  *)
(* settles the fetch.                                                      *)
LEMMA PlainFinish ==
  ASSUME NEW s \in HttpType, ~s.fetch_done, s.fetch_err = "none", msg \in Responses,
         NEW n \in 0 .. Len(msg.wire), Plain(msg, s, n, n), s.http_body_remaining = 0,
         NEW r \in HttpType, Agree(FinishFetch(s), r)
  PROVE  DecoderInv(msg, r, n, FALSE, NoCall)
<1>1. /\ msg.framing # "chunked" /\ ~s.http_chunked /\ Got(msg, s, n - msg.header)
      /\ msg.framing = "close" => s.http_body_remaining = NoLength
      /\ msg.framing = "length" => s.http_body_remaining >= Len(msg.wire) - n
  BY DEF Plain
<1>2. /\ Len(msg.wire) \in Nat /\ msg.header \in Nat /\ Len(msg.body) \in Nat
      /\ Len(msg.wire) = msg.header + Len(msg.body) /\ msg.framing \in {"length", "close"}
  BY <1>1, PlainFacts
<1>3. NoLength # 0
  BY DEF NoLength
<1>4. n = Len(msg.wire) /\ n - msg.header = Len(msg.body)
  BY <1>1, <1>2, <1>3
<1>5. Got(msg, s, Len(msg.body))
  BY <1>1, <1>4
<1>a. s.coded = Len(msg.codings) /\ s.body_layers = Labels(msg)
  BY <1>1 DEF Plain, Coded, Labels
<1>6. /\ FinishFetch(s) \in HttpType /\ FinishFetch(s).fetch_done
      /\ FinishFetch(s).page = s.page /\ FinishFetch(s).page_truncated = s.page_truncated
      /\ FinishFetch(s).http_chunked = s.http_chunked
      /\ FinishFetch(s).fetch_err = "none" => DecodedAsLabelled(msg, FinishFetch(s))
  BY <1>a, FinishFacts
<1>b. /\ r.fetch_done /\ r.page = s.page /\ r.page_truncated = s.page_truncated /\ ~r.http_chunked
      /\ r.fetch_err = FinishFetch(s).fetch_err
  BY <1>1, <1>6 DEF Agree, Same
<1>7. /\ r.fetch_done /\ r.page = s.page /\ r.page_truncated = s.page_truncated /\ ~r.http_chunked
      /\ r.fetch_err = "none" => DecodedAsLabelled(msg, r)
  BY <1>b, <1>6, AgreeDecoded
<1>8. Got(msg, r, Len(msg.body)) /\ Begins(msg, r)
  BY <1>5, <1>7, GotSame DEF Got
<1>9. Settled(msg, r, n, FALSE)
  BY <1>4, <1>7, <1>8 DEF Settled
<1> QED
  BY <1>7, <1>9 DEF DecoderInv

(* The end of the first call: the body so far was pushed.                  *)
LEMMA PlainPushed ==
  ASSUME NEW s \in HttpType, s.fetch_done = FALSE, s.fetch_err = "none", s.header_found, msg \in Responses,
         NEW n \in 0 .. Len(msg.wire), Plain(msg, s, n, n)
  PROVE  DecoderInv(msg, BodyPushed(s), n, FALSE, NoCall)
<1> DEFINE r == BodyPushed(s)
<1>1. CASE s.http_body_remaining = 0
  <2>1. FinishFetch(s) \in HttpType
    BY FinishFacts DEF Plain, Coded
  <2>2. r = Buffered(FinishFetch(s), 0)
    BY <1>1 DEF BodyPushed, Buffered
  <2>3. r \in HttpType /\ Agree(FinishFetch(s), r)
    BY <2>1, <2>2, BufferedFacts
  <2> QED
    BY <2>3, <1>1, PlainFinish
<1>2. CASE s.http_body_remaining # 0
  <2>1. r = Buffered(s, 0)
    BY <1>2 DEF BodyPushed, Buffered
  <2>2. r \in HttpType /\ Agree(s, r)
    BY <2>1, BufferedFacts
  <2>3. Plain(msg, r, n, n)
    BY <2>2, AgreeGot DEF Agree, Same, Plain, Coded
  <2>4. ~r.fetch_done /\ r.fetch_err = "none" /\ r.header_found /\ r.http_body_remaining # 0
    BY <2>2, <1>2 DEF Agree, Same
  <2>5. Unsettled(msg, r, n, NoCall)
    BY <2>3, <2>4 DEF Unsettled
  <2> QED
    BY <2>2, <2>4, <2>5 DEF DecoderInv
<1> QED
  BY <1>1, <1>2

(* A byte behind the header, of a response that is not chunked.            *)
LEMMA PlainPush ==
  ASSUME NEW m \in Responses, NEW s \in HttpType, NEW p \in Nat, NEW e \in Nat, Plain(m, s, p, e), p < e,
         e <= Len(m.wire), NEW r, r = PagePushByte(s, m.wire[p + 1])
  PROVE  r \in HttpType /\ Same(s, r) /\ Plain(m, r, p + 1, e)
<1>1. m.framing # "chunked" /\ Got(m, s, p - m.header) /\ ~s.http_chunked /\ Coded(m, s, m.layers)
  BY DEF Plain
<1>2. /\ m.wire \in Seq(STRING) /\ m.body \in Seq(STRING) /\ m.header \in Nat /\ Len(m.body) \in Nat
      /\ Len(m.wire) = m.header + Len(m.body)
      /\ \A k \in 1 .. Len(m.body) : m.wire[m.header + k] = m.body[k]
  BY <1>1, PlainFacts
<1>3. PICK g \in Nat : g = p - m.header
  BY <1>1, <1>2 DEF Got
<1>4. g < Len(m.body) /\ p + 1 = m.header + (g + 1) /\ p + 1 - m.header = g + 1
  BY <1>2, <1>3
<1>5. m.wire[p + 1] = m.body[g + 1]
  BY <1>2, <1>4, SMTT(30)
<1>6. r \in HttpType /\ Got(m, r, g + 1)
  BY <1>1, <1>2, <1>3, <1>4, <1>5, PushGot, ZenonT(60)
<1>7. Same(s, r) /\ r.http_body_remaining = s.http_body_remaining
  BY PushSame
<1>8. Plain(m, r, p + 1, e)
  <2> DEFINE q == p + 1
  <2>b. PICK h \in Nat : h = m.header
    BY <1>2
  <2>c. g = p - h
    BY <2>b, <1>3
  <2>d. q - h = g + 1
    BY ONLY p \in Nat, g \in Nat, h \in Nat, <2>c
  <2>a. q - m.header = g + 1
    BY ONLY <2>b, <2>d
  <2>2. ~r.http_chunked /\ Coded(m, r, m.layers)
    BY <1>1, <1>7 DEF Same, Coded
  <2>3. /\ m.framing = "close" => r.http_body_remaining = NoLength
        /\ m.framing = "length" =>
             /\ r.http_body_remaining \in Nat /\ r.http_body_remaining >= Len(m.wire) - e
             /\ Len(m.body) <= PageCap => r.http_body_remaining = Len(m.wire) - e
    BY <1>7 DEF Plain
  <2> HIDE DEF q
  <2>1. Got(m, r, q - m.header)
    BY ONLY <2>a, <1>6
  <2>4. Plain(m, r, q, e)
    BY <2>1, <2>2, <2>3, <1>1 DEF Plain
  <2> QED
    BY <2>4 DEF q
<1> QED
  BY <1>6, <1>7, <1>8

(* Only decoding goes on behind an error.                                  *)
LEMMA NotGarbled ==
  ASSUME HttpInv, ~dropped, ~http.fetch_done \/ call.loop = "push"
  PROVE  msg \in Responses /\ DecoderInv(msg, http, sent, eof, call)
<1>1. NoCall.loop = "none"
  BY DEF NoCall
<1>2. ~Garbled(msg, http, sent, call)
  BY <1>1 DEF Garbled, Failed, Decoding
<1> QED
  BY <1>2 DEF HttpInv

(* The loop of the first call behind the header.                           *)
LEMMA PushInv ==
  ASSUME HttpInv, ~dropped, PushByte
  PROVE  DecoderInv(msg, http', sent, eof, call')
<1>1. msg \in Responses /\ DecoderInv(msg, http, sent, eof, call) /\ call.loop = "push"
  BY NotGarbled DEF PushByte
<1>2. NoCall.loop = "none"
  BY DEF NoCall
<1>3. http \in HttpType /\ sent \in 0 .. Len(msg.wire) /\ http.fetch_done = FALSE /\ eof = FALSE /\ Unsettled(msg, http, sent, call)
  BY <1>1, <1>2 DEF DecoderInv, HttpType
<1>4. /\ http.fetch_err = "none" /\ http.header_found /\ Plain(msg, http, call.at, sent)
      /\ call \in [loop : {"push"}, at : Nat, lim : Nat, end : {sent}] /\ call.at < sent
  BY <1>1, <1>2, <1>3 DEF Unsettled, Decoding
<1>5. call.at \in Nat /\ call.end = sent
  BY <1>4
<1>6. msg.wire \in Seq(STRING)
  BY <1>1, ResponsesAssumption
<1>7. Len(msg.wire) \in Nat
  BY <1>6
<1>8. PICK s : s = PagePushByte(http, msg.wire[call.at + 1])
  OBVIOUS
<1>9. s \in HttpType /\ Same(http, s) /\ Plain(msg, s, call.at + 1, sent)
  BY <1>1, <1>3, <1>4, <1>5, <1>7, <1>8, PlainPush
<1>10. s.fetch_done = FALSE /\ s.fetch_err = "none" /\ s.header_found
  BY <1>3, <1>4, <1>9 DEF Same
<1>11. CASE call.at + 1 = sent
  <2>1. http' = BodyPushed(s) /\ call' = NoCall
    BY <1>5, <1>8, <1>11 DEF PushByte
  <2>2. DecoderInv(msg, BodyPushed(s), sent, FALSE, NoCall)
    BY <1>1, <1>3, <1>9, <1>10, <1>11, PlainPushed
  <2> QED
    BY <2>1, <2>2, <1>3
<1>12. CASE call.at + 1 # sent
  <2>1. http' = s /\ call' = [call EXCEPT !.at = call.at + 1]
    BY <1>5, <1>8, <1>12 DEF PushByte
  <2>2. PICK c : c = call'
    OBVIOUS
  <2>3. c \in [loop : {"push"}, at : Nat, lim : Nat, end : {sent}] /\ c.at = call.at + 1
    BY <2>1, <2>2, <1>4
  <2>4. c.at < sent
    BY <2>3, <1>3, <1>4, <1>5, <1>7, <1>12
  <2>5. Unsettled(msg, s, sent, c)
    BY <2>3, <2>4, <1>9, <1>10 DEF Unsettled
  <2> QED
    BY <2>1, <2>2, <2>5, <1>3, <1>9, <1>10 DEF DecoderInv
<1> QED
  BY <1>11, <1>12

(* The loop goes on behind byte `at', if need be in the next piece.        *)
LEMMA CallMoves ==
  ASSUME NEW n \in Nat, NEW c, Decoding(c, n), NEW at \in Nat, c.at < at, at <= c.lim, at # n,
         NEW d, d = IF at = c.lim THEN Loop("chunk", at, n, TailPiece) ELSE [c EXCEPT !.at = at]
  PROVE  Decoding(d, n) /\ d.at = at
<1>1. c \in [loop : {"chunk"}, at : Nat, lim : Nat, end : {n}] /\ c.lim <= n
  BY DEF Decoding
<1>2. c.lim \in Nat /\ at < n
  BY <1>1
<1>3. CASE at = c.lim
  <2>1. d = [loop |-> "chunk", at |-> at, lim |-> Smaller(n, at + TailPiece), end |-> n]
    BY <1>3 DEF Loop
  <2>2. TailPiece \in Nat \ {0}
    BY CapsAssumption
  <2>3. PICK k \in Nat : k = Smaller(n, at + TailPiece)
    BY <2>2 DEF Smaller
  <2>4. at < k /\ k <= n
    BY <2>2, <2>3, <1>2 DEF Smaller
  <2> QED
    BY <2>1, <2>3, <2>4 DEF Decoding
<1>4. CASE at # c.lim
  <2>1. d = [c EXCEPT !.at = at] /\ at < c.lim
    BY <1>2, <1>4
  <2> QED
    BY <2>1, <1>1 DEF Decoding
<1> QED
  BY <1>3, <1>4

(* A decoder in the framing has all its fields.                            *)
LEMMA TypeFields == ASSUME NEW s \in HttpType PROVE Fields(s)
  BY DEF HttpType, Fields

(* One byte of ingest_chunked_bytes.                                       *)
LEMMA DecodeInv ==
  ASSUME msg \in Responses, DecoderInv(msg, http, sent, eof, call), DecodeByte
  PROVE  DecoderInv(msg, http', sent, eof, call') \/ Garbled(msg, http', sent, call')
<1>1. msg \in Responses /\ DecoderInv(msg, http, sent, eof, call) /\ call.loop = "chunk"
  BY DEF DecodeByte
<1>2. NoCall.loop = "none"
  BY DEF NoCall
<1>3. http \in HttpType /\ sent \in 0 .. Len(msg.wire) /\ http.fetch_done = FALSE /\ eof = FALSE /\ Unsettled(msg, http, sent, call)
  BY <1>1, <1>2 DEF DecoderInv, HttpType
<1>4. /\ http.fetch_err = "none" /\ http.header_found /\ Chunked(msg, http, call.at)
      /\ Decoding(call, sent) /\ call.at < call.lim /\ call.lim <= sent
  BY <1>1, <1>2, <1>3 DEF Unsettled, Decoding
<1>5. call.at \in Nat /\ call.lim \in Nat /\ call.end = sent
  BY <1>4 DEF Decoding
<1>6. msg.wire \in Seq(STRING)
  BY <1>1, ResponsesAssumption
<1>7. Len(msg.wire) \in Nat /\ sent \in Nat /\ sent <= Len(msg.wire)
  BY <1>3, <1>6
<1>8. msg.framing = "chunked" /\ http.http_chunked /\ Coded(msg, http, <<>>) /\ InFraming(msg, http, call.at)
  BY <1>4 DEF Chunked
<1>9. PICK p \in Nat : p = call.at
  BY <1>5
<1>10. PICK s : s = ChunkByte(http, msg.wire[p + 1])
  OBVIOUS
<1>a. \/ s \in HttpType /\ Same(http, s) /\ InFraming(msg, s, p + 1)
      \/ s = [FinishFetch(http) EXCEPT !.stop = TRUE] /\ p + 1 = Len(msg.wire) /\ Got(msg, http, Len(msg.body)) /\ msg.sound
      \/ Broken(msg, http, s)
  BY <1>1, <1>3, <1>8, <1>9, <1>10, FramingByte
<1>11. CASE s \in HttpType /\ Same(http, s) /\ InFraming(msg, s, p + 1)
  <2>1. s.stop = FALSE /\ s.stream_len \in Nat
    BY <1>11 DEF HttpType
  <2>2. PICK k \in Nat : k = IF p + 1 = sent THEN 0 ELSE s.stream_len
    BY <2>1
  <2>3. http' = [s EXCEPT !.stop = FALSE, !.stream_len = k]
    BY <2>1, <2>2, <1>5, <1>9, <1>10 DEF DecodeByte
  <2>4. http' = Buffered(s, k)
    BY <2>1, <2>3, <1>11 DEF Buffered, HttpType
  <2>5. PICK r : r = http'
    OBVIOUS
  <2>6. r \in HttpType /\ Agree(s, r)
    BY <2>4, <2>5, <1>11, BufferedFacts
  <2>7. InFraming(msg, r, p + 1)
    BY <2>6, <1>11, AgreeFraming
  <2>8. r.fetch_done = FALSE /\ r.fetch_err = "none" /\ r.header_found /\ r.http_chunked /\ Coded(msg, r, <<>>)
    BY <2>6, <1>3, <1>4, <1>8, <1>11 DEF Agree, Same, Coded
  <2>9. Chunked(msg, r, p + 1)
    BY <2>7, <2>8, <1>8 DEF Chunked
  <2>11. PICK c : c = call'
    OBVIOUS
  <2>12. CASE p + 1 = sent
    <3>1. c = NoCall /\ Chunked(msg, r, sent)
      BY <2>1, <2>9, <2>11, <2>12, <1>5, <1>9, <1>10 DEF DecodeByte
    <3>2. Unsettled(msg, r, sent, c)
      BY <3>1, <2>8 DEF Unsettled
    <3> QED
      BY <3>2, <2>5, <2>6, <2>8, <2>11, <1>3 DEF DecoderInv
  <2>13. CASE p + 1 # sent
    <3>1. c = IF p + 1 = call.lim THEN Loop("chunk", p + 1, sent, TailPiece) ELSE [call EXCEPT !.at = p + 1]
      BY <2>1, <2>11, <2>13, <1>5, <1>9, <1>10 DEF DecodeByte
    <3>2. call.at < p + 1 /\ p + 1 <= call.lim /\ p + 1 \in Nat
      BY <1>4, <1>5, <1>9
    <3>3. Decoding(c, sent) /\ c.at = p + 1
      BY ONLY <3>1, <3>2, <2>13, <1>4, <1>7, CallMoves
    <3>4. Unsettled(msg, r, sent, c)
      BY <3>3, <2>8, <2>9 DEF Unsettled
    <3> QED
      BY <3>4, <2>5, <2>6, <2>8, <2>11, <1>3 DEF DecoderInv
  <2> QED
    BY <2>12, <2>13
<1>12. CASE s = [FinishFetch(http) EXCEPT !.stop = TRUE] /\ p + 1 = Len(msg.wire) /\ Got(msg, http, Len(msg.body)) /\ msg.sound
  <2>1. sent = Len(msg.wire) /\ call.lim = sent
    BY <1>4, <1>5, <1>7, <1>9, <1>12
  <2>2. PICK f : f = FinishFetch(http)
    OBVIOUS
  <2>3. /\ f \in HttpType /\ f.fetch_done /\ f.page = http.page /\ f.page_truncated = http.page_truncated
        /\ f.fetch_err = "none" => DecodedAsLabelled(msg, f)
    <3>1. http.coded = Len(msg.codings) /\ http.body_layers = Labels(msg)
      BY <1>8 DEF Coded, Labels
    <3> QED
      BY <3>1, <2>2, <1>1, <1>3, <1>4, FinishFacts
  <2>a. s = [f EXCEPT !.stop = TRUE] /\ f.stop = FALSE
    BY <2>2, <2>3, <1>12 DEF HttpType
  <2>4. s.stop /\ [s EXCEPT !.stop = FALSE, !.stream_len = 0] = Buffered(f, 0)
    BY <2>a, <2>3 DEF HttpType, Buffered
  <2>5. http' = [s EXCEPT !.stop = FALSE, !.stream_len = 0] /\ call' = NoCall
    BY <2>1, <2>4, <1>5, <1>9, <1>10 DEF DecodeByte
  <2>6. PICK r : r = http'
    OBVIOUS
  <2>7. r \in HttpType /\ Agree(f, r)
    BY <2>3, <2>4, <2>5, <2>6, BufferedFacts
  <2>8. r.fetch_done /\ r.page = http.page /\ r.page_truncated = http.page_truncated
        /\ (r.fetch_err = "none" => DecodedAsLabelled(msg, r))
    <3>1. r.fetch_done /\ r.page = http.page /\ r.page_truncated = http.page_truncated /\ r.fetch_err = f.fetch_err
      BY <2>3, <2>7 DEF Agree, Same
    <3> QED
      BY <3>1, <2>3, <2>7, AgreeDecoded
  <2>9. Got(msg, r, Len(msg.body)) /\ Begins(msg, r)
    BY <2>8, <1>12, GotSame DEF Got
  <2>10. Settled(msg, r, sent, eof)
    BY <2>1, <2>8, <2>9, <1>12 DEF Settled
  <2> QED
    BY <2>5, <2>6, <2>7, <2>8, <2>10, <1>3 DEF DecoderInv
<1>13. CASE Broken(msg, http, s)
  <2>1. PICK e \in Errs : e # "none" /\ s = [SetErr(http, e) EXCEPT !.stop = TRUE] /\ ~msg.sound
    BY <1>13 DEF Broken
  <2>2. PICK f : f = SetErr(http, e)
    OBVIOUS
  <2>3. f \in HttpType /\ f.fetch_done /\ f.fetch_err = e /\ f.page = http.page
    BY <2>2, <1>3, ErrFacts
  <2>4. s = [f EXCEPT !.stop = TRUE] /\ f.stop = FALSE /\ f.stream_len \in Nat /\ f.fetch_done = TRUE
    BY <2>1, <2>2, <2>3 DEF HttpType
  <2>5. s.stop /\ s.stream_len \in Nat
    BY <2>3, <2>4 DEF HttpType
  <2>6. PICK n \in Nat : n = IF call.lim = sent THEN 0 ELSE s.stream_len
    BY <2>5
  <2>7. http' = [s EXCEPT !.stop = FALSE, !.stream_len = n]
    BY <2>5, <2>6, <1>5, <1>9, <1>10 DEF DecodeByte
  <2>8. http' = Buffered(f, n)
    BY <2>3, <2>4, <2>7 DEF HttpType, Buffered
  <2>9. PICK r : r = http'
    OBVIOUS
  <2>10. r \in HttpType /\ Agree(f, r)
    BY <2>3, <2>8, <2>9, BufferedFacts
  <2>11. Begins(msg, http)
    BY <1>1, <1>5, <1>8, FramingInside
  <2>12. /\ r.fetch_done = TRUE /\ r.fetch_err # "none" /\ r.page = http.page /\ r.page \in Seq(STRING)
         /\ r.chunk_phase \in Phases
    BY <2>1, <2>3, <2>4, <2>10 DEF Agree, Same, HttpType
  <2>13. Fields(r)
    BY <2>10, TypeFields
  <2>14. Failed(r)
    BY <2>11, <2>12, <2>13 DEF Failed, Begins
  <2>15. PICK c : c = call'
    OBVIOUS
  <2>16. c = NoCall \/ Decoding(c, sent)
    <3>1. CASE call.lim = sent
      BY <3>1, <2>5, <2>15, <1>5, <1>9, <1>10 DEF DecodeByte
    <3>2. CASE call.lim # sent
      <4>1. c = IF call.lim = call.lim THEN Loop("chunk", call.lim, sent, TailPiece) ELSE [call EXCEPT !.at = call.lim]
        BY <3>2, <2>5, <2>15, <1>5, <1>9, <1>10 DEF DecodeByte
      <4>2. call.lim <= call.lim
        BY <1>5
      <4> QED
        BY ONLY <4>1, <4>2, <3>2, <1>4, <1>5, <1>7, CallMoves
    <3> QED
      BY <3>1, <3>2
  <2> QED
    BY <2>1, <2>9, <2>14, <2>15, <2>16, <1>3 DEF Garbled
<1> QED
  BY <1>a, <1>11, <1>12, <1>13

(* What a byte can do to a decoder that has failed.                        *)
LEMMA FailedLine ==
  ASSUME NEW s, Failed(s), NEW l, NEW rem, NEW ph \in Phases
  PROVE  Failed(Move(s, l, rem, ph)) /\ Failed([s EXCEPT !.chunk_line = l]) /\ Failed([s EXCEPT !.chunk_phase = ph])
<1>1. /\ Fields(s) /\ s.chunk_phase \in Phases /\ s.fetch_done = TRUE /\ s.fetch_err # "none"
      /\ s.page \in Seq(STRING) /\ Len(s.page) <= PageCap
  BY DEF Failed
<1>2. PICK u, v, w : u = Move(s, l, rem, ph) /\ v = [s EXCEPT !.chunk_line = l] /\ w = [s EXCEPT !.chunk_phase = ph]
  OBVIOUS
<1>3. Fields(u) /\ u.chunk_phase = ph /\ u.fetch_done = s.fetch_done /\ u.fetch_err = s.fetch_err /\ u.page = s.page
  BY <1>1, <1>2 DEF Fields, Move
<1>4. Fields(v) /\ v.chunk_phase = s.chunk_phase /\ v.fetch_done = s.fetch_done /\ v.fetch_err = s.fetch_err /\ v.page = s.page
  BY <1>1, <1>2 DEF Fields
<1>5. Fields(w) /\ w.chunk_phase = ph /\ w.fetch_done = s.fetch_done /\ w.fetch_err = s.fetch_err /\ w.page = s.page
  BY <1>1, <1>2 DEF Fields
<1> QED
  BY <1>1, <1>2, <1>3, <1>4, <1>5 DEF Failed

LEMMA FailedErr ==
  ASSUME NEW s, Failed(s), NEW e, e # "none"
  PROVE  Failed([SetErr(s, e) EXCEPT !.stop = TRUE]) /\ Failed([s EXCEPT !.stop = TRUE])
<1>1. /\ Fields(s) /\ s.chunk_phase \in Phases /\ s.fetch_done = TRUE /\ s.fetch_err # "none"
      /\ s.page \in Seq(STRING) /\ Len(s.page) <= PageCap
  BY DEF Failed
<1>2. PICK u, v, w : u = SetErr(s, e) /\ v = [u EXCEPT !.stop = TRUE] /\ w = [s EXCEPT !.stop = TRUE]
  OBVIOUS
<1>3. Fields(u) /\ u.chunk_phase = s.chunk_phase /\ u.fetch_done = TRUE /\ u.fetch_err = e /\ u.page = s.page
  BY <1>1, <1>2 DEF Fields, SetErr
<1>4. Fields(v) /\ v.chunk_phase = u.chunk_phase /\ v.fetch_done = u.fetch_done /\ v.fetch_err = u.fetch_err /\ v.page = u.page
  BY <1>2, <1>3 DEF Fields
<1>5. Fields(w) /\ w.chunk_phase = s.chunk_phase /\ w.fetch_done = s.fetch_done /\ w.fetch_err = s.fetch_err /\ w.page = s.page
  BY <1>1, <1>2 DEF Fields
<1> QED
  BY <1>1, <1>2, <1>3, <1>4, <1>5 DEF Failed

LEMMA FailedPush ==
  ASSUME NEW s, Failed(s), NEW b \in STRING
  PROVE  Failed(PagePushByte(s, b))
<1>1. /\ Fields(s) /\ s.chunk_phase \in Phases /\ s.fetch_done = TRUE /\ s.fetch_err # "none"
      /\ s.page \in Seq(STRING) /\ Len(s.page) <= PageCap
  BY DEF Failed
<1>2. PICK u : u = PagePushByte(s, b)
  OBVIOUS
<1>3. CASE Len(s.page) < PageCap
  <2>1. PICK x : x = Append(s.page, b)
    OBVIOUS
  <2>2. x \in Seq(STRING) /\ Len(x) = Len(s.page) + 1 /\ Len(s.page) \in Nat /\ PageCap \in Nat
    BY <2>1, <1>1, CapsAssumption
  <2>3. u = [s EXCEPT !.page = x]
    BY <2>1, <1>2, <1>3 DEF PagePushByte
  <2>4. Fields(u) /\ u.chunk_phase = s.chunk_phase /\ u.fetch_done = s.fetch_done /\ u.fetch_err = s.fetch_err /\ u.page = x
    BY <2>3, <1>1 DEF Fields
  <2>5. Len(x) <= PageCap
    BY <2>2, <1>3
  <2> QED
    BY <2>2, <2>4, <2>5, <1>1, <1>2 DEF Failed
<1>4. CASE ~(Len(s.page) < PageCap)
  <2>1. u = [s EXCEPT !.page_truncated = TRUE]
    BY <1>2, <1>4 DEF PagePushByte
  <2>2. Fields(u) /\ u.chunk_phase = s.chunk_phase /\ u.fetch_done = s.fetch_done /\ u.fetch_err = s.fetch_err /\ u.page = s.page
    BY <2>1, <1>1 DEF Fields
  <2> QED
    BY <2>2, <1>1, <1>2 DEF Failed
<1> QED
  BY <1>3, <1>4

(* A byte behind an error: nothing undoes it, and the page keeps to its    *)
(* buffer.                                                                 *)
LEMMA FailedByte ==
  ASSUME NEW s, Failed(s), NEW b \in STRING
  PROVE  Failed(ChunkByte(s, b))
<1>1. s.chunk_phase \in Phases /\ s.fetch_done
  BY DEF Failed
<1>2. Failed(LineAppend(s, b))
  BY <1>1, FailedLine DEF LineAppend
<1>3. CASE s.chunk_phase = "SizeLine"
  <2>1. ChunkByte(s, b) = ChunkSizeByte(s, b)
    BY <1>3 DEF ChunkByte
  <2>2. CASE b = "n" /\ ParseChunkSize(s.chunk_line) = -1
    <3>0. PICK e \in Errs : e = "HTTP CHUNK SZ" /\ e # "none"
      BY DEF Errs
    <3>1. ChunkSizeByte(s, b) = [SetErr(s, e) EXCEPT !.stop = TRUE]
      BY <3>0, <2>2 DEF ChunkSizeByte
    <3>2. e # "none"
      BY <3>0
    <3>3. Failed([SetErr(s, e) EXCEPT !.stop = TRUE])
      BY ONLY Failed(s), <3>2, FailedErr
    <3> QED
      BY <3>1, <3>3, <2>1
  <2>3. CASE b = "n" /\ ParseChunkSize(s.chunk_line) # -1
    <3>1. PICK rem, l : rem = ParseChunkSize(s.chunk_line) /\ l = <<>>
      OBVIOUS
    <3>2. PICK ph \in Phases : ph = IF rem = 0 THEN "Trailers" ELSE "Data"
      BY DEF Phases
    <3>3. ChunkSizeByte(s, b) = Move(s, l, rem, ph)
      BY <3>1, <3>2, <2>3 DEF ChunkSizeByte, Move
    <3>4. Failed(Move(s, l, rem, ph))
      BY ONLY Failed(s), ph \in Phases, FailedLine
    <3> QED
      BY <3>3, <3>4, <2>1
  <2>4. CASE b # "n"
    BY <2>1, <2>4, <1>2 DEF ChunkSizeByte
  <2> QED
    BY <2>2, <2>3, <2>4
<1>4. CASE s.chunk_phase = "Data"
  <2>1. PICK u : u = PagePushByte(s, b)
    OBVIOUS
  <2>2. PICK ph \in Phases : ph = IF s.chunk_rem = 1 THEN "AfterData0" ELSE "Data"
    BY DEF Phases
  <2>a. PICK rem, l : rem = u.chunk_rem - 1 /\ l = u.chunk_line
    OBVIOUS
  <2>3. ChunkByte(s, b) = [u EXCEPT !.chunk_rem = rem, !.chunk_phase = ph]
    BY <2>a, <2>1, <2>2, <1>4 DEF ChunkByte, ChunkDataByte
  <2>4. Failed(u)
    BY <2>1, FailedPush
  <2>5. [u EXCEPT !.chunk_rem = rem, !.chunk_phase = ph] = Move(u, l, rem, ph)
    BY <2>a, <2>4 DEF Failed, Fields, Move
  <2>6. Failed(Move(u, l, rem, ph))
    BY ONLY <2>4, ph \in Phases, FailedLine
  <2> QED
    BY <2>3, <2>5, <2>6
<1>5. CASE s.chunk_phase \in {"AfterData0", "AfterData1"}
  <2>1. ChunkByte(s, b) = ChunkAfterData(s, b)
    BY <1>5 DEF ChunkByte
  <2>2. "AfterData1" \in Phases /\ "SizeLine" \in Phases /\ "HTTP CHUNK CRLF" # "none"
    BY DEF Phases
  <2>3. Failed([s EXCEPT !.chunk_phase = "AfterData1"]) /\ Failed([s EXCEPT !.chunk_phase = "SizeLine"])
    BY <2>2, FailedLine
  <2>4. Failed([SetErr(s, "HTTP CHUNK CRLF") EXCEPT !.stop = TRUE])
    BY <2>2, FailedErr
  <2> QED
    BY <2>1, <2>3, <2>4 DEF ChunkAfterData
<1>6. CASE s.chunk_phase = "Trailers"
  <2>1. ChunkByte(s, b) = ChunkTrailerByte(s, b)
    BY <1>6 DEF ChunkByte
  <2>2. FinishFetch(s) = s
    BY <1>1 DEF FinishFetch
  <2>3. Failed([s EXCEPT !.stop = TRUE]) /\ Failed([s EXCEPT !.chunk_line = <<>>])
    <3>1. "BODY BAD" # "none"
      OBVIOUS
    <3> QED
      BY <3>1, <1>1, FailedErr, FailedLine
  <2> QED
    BY <2>1, <2>2, <2>3, <1>2 DEF ChunkTrailerByte
<1> QED
  BY <1>1, <1>3, <1>4, <1>5, <1>6 DEF Phases

(* The pieces of the header buffer behind an error are decoded, in vain.   *)
LEMMA GarbledInv ==
  ASSUME msg \in Responses, Garbled(msg, http, sent, call), DecodeByte
  PROVE  Garbled(msg, http', sent, call')
<1>1. ~msg.sound /\ sent \in 0 .. Len(msg.wire) /\ Failed(http) /\ Decoding(call, sent)
  BY DEF Garbled, DecodeByte, NoCall
<1>2. /\ call.at \in Nat /\ call.lim \in Nat /\ call.end = sent /\ call.at < call.lim /\ call.lim <= sent
  BY <1>1 DEF Decoding
<1>3. msg.wire \in Seq(STRING)
  BY ResponsesAssumption
<1>4. Len(msg.wire) \in Nat /\ sent \in Nat /\ sent <= Len(msg.wire)
  BY <1>1, <1>3
<1>5. call.at + 1 \in 1 .. Len(msg.wire)
  BY <1>2, <1>4
<1>b. msg.wire[call.at + 1] \in STRING
  BY ONLY <1>3, <1>5
<1>a. PICK b \in STRING : b = msg.wire[call.at + 1]
  BY <1>b
<1>6. PICK s : b = msg.wire[call.at + 1] /\ s = ChunkByte(http, b)
  BY <1>a
<1>7. PICK at \in Nat : at = IF s.stop THEN call.lim ELSE call.at + 1
  BY <1>2
<1>8. call.at < at /\ at <= call.lim
  BY <1>2, <1>7
<1>9. PICK r, c, k : r = http' /\ c = call' /\ k = IF at = sent THEN 0 ELSE s.stream_len
  OBVIOUS
<1>10. r = [s EXCEPT !.stop = FALSE, !.stream_len = k]
  BY <1>2, <1>6, <1>7, <1>9 DEF DecodeByte
<1>11. c = IF at = sent THEN NoCall ELSE IF at = call.lim THEN Loop("chunk", at, sent, TailPiece) ELSE [call EXCEPT !.at = at]
  BY <1>2, <1>6, <1>7, <1>9 DEF DecodeByte
<1>12. Failed(s)
  BY <1>1, <1>6, FailedByte
<1>13. Failed(r)
  <2>1. Fields(r) /\ r.chunk_phase = s.chunk_phase /\ r.fetch_done = s.fetch_done /\ r.fetch_err = s.fetch_err /\ r.page = s.page
    BY <1>10, <1>12 DEF Failed, Fields
  <2> QED
    BY <2>1, <1>12 DEF Failed
<1>14. c = NoCall \/ Decoding(c, sent)
  <2>1. CASE at # sent
    <3>1. c = IF at = call.lim THEN Loop("chunk", at, sent, TailPiece) ELSE [call EXCEPT !.at = at]
      BY <2>1, <1>11
    <3> QED
      BY ONLY <3>1, <2>1, <1>1, <1>4, <1>8, at \in Nat, CallMoves
  <2> QED
    BY <2>1, <1>11
<1> QED
  BY <1>1, <1>9, <1>13, <1>14 DEF Garbled

(* The FIN settles every fetch, a chunked one with an error.               *)
LEMMA FinInv ==
  ASSUME HttpInv, ~dropped, Fin
  PROVE  DecoderInv(msg, http', sent, eof', call')
<1>1. /\ msg \in Responses /\ DecoderInv(msg, http, sent, eof, call) /\ call.loop = "none" /\ ~http.fetch_done
      /\ http' = FinishOnEof(http) /\ eof' = TRUE /\ call' = call
  BY NotGarbled DEF Fin
<1>2. http \in HttpType /\ sent \in 0 .. Len(msg.wire) /\ Unsettled(msg, http, sent, call)
  BY <1>1 DEF DecoderInv
<1>3. call = NoCall /\ http.fetch_err = "none"
  BY <1>1, <1>2 DEF Unsettled, Decoding
<1>4. Begins(msg, http)
  <2>1. sent \in Nat
    BY <1>1, <1>2, ResponsesAssumption
  <2>2. Waiting(msg, http, sent) \/ Plain(msg, http, sent, sent) \/ Chunked(msg, http, sent)
    BY <1>1, <1>2 DEF Unsettled, Decoding
  <2>3. CASE Chunked(msg, http, sent)
    BY <2>1, <2>3, <1>1, FramingInside DEF Chunked
  <2> QED
    BY <2>2, <2>3 DEF Waiting, Plain, Got
<1>5. PICK r : r = http'
  OBVIOUS
<1>6. /\ r \in HttpType /\ r.fetch_done /\ r.page = http.page /\ (r.fetch_err = "none" => ~r.http_chunked)
      /\ r.fetch_err = "none" /\ r.header_found => DecodedAsLabelled(msg, r)
  <2>1. CASE http.http_chunked
    <3>1. PICK e \in Errs : e = "HTTP CHUNK EOF" /\ e # "none"
      BY DEF Errs
    <3>2. r = SetErr(http, e)
      BY <3>1, <2>1, <1>1, <1>5 DEF FinishOnEof
    <3>3. r \in HttpType /\ r.fetch_done /\ r.page = http.page /\ r.fetch_err = e
      BY <3>2, <1>2, ErrFacts
    <3> QED
      BY <3>1, <3>3
  <2>2. CASE ~http.http_chunked
    <3>1. r = FinishFetch(http)
      BY <2>2, <1>1, <1>5 DEF FinishOnEof
    <3>2. /\ http.coded = Len(msg.codings)
          /\ http.header_found => http.body_layers = Labels(msg)
      BY <2>2, <1>1, <1>2 DEF Unsettled, Decoding, Waiting, Plain, Chunked, Coded, Labels
    <3>3. /\ r \in HttpType /\ r.fetch_done /\ r.page = http.page /\ r.http_chunked = http.http_chunked
          /\ r.header_found = http.header_found
          /\ http.body_layers = Labels(msg) /\ r.fetch_err = "none" => DecodedAsLabelled(msg, r)
      BY <3>1, <3>2, <1>1, <1>2, <1>3, FinishFacts
    <3> QED
      BY <3>2, <3>3, <2>2
  <2> QED
    BY <2>1, <2>2
<1>7. Settled(msg, r, sent, TRUE)
  BY <1>4, <1>6 DEF Settled, Begins
<1> QED
  BY <1>1, <1>2, <1>3, <1>5, <1>6, <1>7 DEF DecoderInv

LEMMA InitInv ==
  ASSUME Init
  PROVE  HttpInv
<1>1. msg \in Responses /\ sent = 0 /\ eof = FALSE /\ call = NoCall
  BY DEF Init
<1>2. msg.body \in Seq(STRING) /\ msg.wire \in Seq(STRING) /\ msg.header \in 1 .. Len(msg.wire)
  BY <1>1, ResponsesAssumption
<1>3. Len(msg.body) \in Nat /\ Len(msg.wire) \in Nat /\ PageCap \in Nat /\ StreamCap \in Nat \ {0}
  BY <1>2, CapsAssumption
<1>4. http \in HttpType
  <2>1. "SizeLine" \in Phases /\ "none" \in Errs /\ NoLength \in Nat \cup {NoLength} /\ <<>> \in Seq(STRING)
    BY EmptySeq DEF Phases, Errs
  <2>2. <<>> \in LayersType /\ Len(msg.codings) \in Nat
    BY <1>1, ResponsesAssumption, EmptySeq DEF LayersType, MaxLayers, CodingsOk
  <2> QED
    BY <2>1, <2>2 DEF Init, HttpType
<1>5. /\ http.stream_len = 0 /\ ~http.header_found /\ ~http.http_chunked /\ http.page = <<>>
      /\ http.page_truncated = FALSE /\ Coded(msg, http, <<>>) /\ http.http_body_remaining = NoLength
      /\ http.fetch_done = FALSE /\ http.fetch_err = "none"
  BY DEF Init, Coded
<1>6. Len(http.page) = 0
  BY <1>5, EmptySeq
<1>7. Got(msg, http, 0)
  BY <1>3, <1>5, <1>6 DEF Got, Begins, Smaller
<1>8. Waiting(msg, http, 0)
  BY <1>2, <1>3, <1>5, <1>7 DEF Waiting
<1>9. Unsettled(msg, http, 0, NoCall)
  BY <1>5, <1>8 DEF Unsettled
<1>a. 0 \in 0 .. Len(msg.wire)
  BY <1>3
<1>10. DecoderInv(msg, http, 0, FALSE, NoCall)
  BY <1>4, <1>5, <1>9, <1>a DEF DecoderInv
<1> QED
  BY <1>1, <1>10 DEF HttpInv

(* append_to_page: the next bytes of the content, counted as far as they   *)
(* were stored.                                                            *)
LEMMA AppendInv ==
  ASSUME msg \in Responses, NEW s \in HttpType, s.fetch_done = FALSE, s.fetch_err = "none", s.header_found,
         NEW p \in Nat, NEW n \in Nat \ {0}, p + n <= Len(msg.wire), Plain(msg, s, p, p),
         NEW r, r = AppendToPage(s, SubSeq(msg.wire, p + 1, p + n))
  PROVE  DecoderInv(msg, r, p + n, FALSE, NoCall)
<1>1. msg.framing # "chunked" /\ Got(msg, s, p - msg.header) /\ ~s.http_chunked /\ Coded(msg, s, msg.layers)
  BY DEF Plain
<1>2. /\ msg.wire \in Seq(STRING) /\ msg.body \in Seq(STRING) /\ msg.header \in Nat /\ Len(msg.body) \in Nat
      /\ Len(msg.wire) \in Nat /\ Len(msg.wire) = msg.header + Len(msg.body)
      /\ \A k \in 1 .. Len(msg.body) : msg.wire[msg.header + k] = msg.body[k]
      /\ msg.framing \in {"length", "close"}
  BY <1>1, PlainFacts
<1>3. PICK g \in Nat, q \in Nat : g = p - msg.header /\ q = p + n
  BY <1>1, <1>2 DEF Got
<1>4. PICK h \in Nat, w \in Nat, len \in Nat : h = msg.header /\ w = Len(msg.wire) /\ len = Len(msg.body)
  BY <1>2
<1>5. w = h + len /\ g = p - h /\ q = p + n /\ q <= w
  BY <1>2, <1>3, <1>4
<1>6. g + n <= len /\ p = h + g /\ q - h = g + n /\ q \in 0 .. w
  BY ONLY p \in Nat, n \in Nat \ {0}, g \in Nat, q \in Nat, h \in Nat, w \in Nat, len \in Nat, <1>5
<1>7. PICK data : data = SubSeq(msg.wire, p + 1, q)
  OBVIOUS
<1>8. data \in Seq(STRING) /\ Len(data) = n /\ \A k \in 1 .. n : data[k] = msg.body[g + k]
  <2>1. \A k \in p + 1 .. q : k \in 1 .. w
    BY ONLY p \in Nat, q \in Nat, w \in Nat, <1>6
  <2>2. \A k \in p + 1 .. q : msg.wire[k] \in STRING
    BY <2>1, <1>2, <1>4
  <2>3. q - (p + 1) + 1 = n /\ p + 1 <= q /\ p + 1 \in Int /\ q \in Int
    BY ONLY p \in Nat, q \in Nat, n \in Nat \ {0}, <1>5
  <2>4. data \in Seq(STRING) /\ Len(data) = n
    BY ONLY <2>2, <2>3, <1>7, SubSeqProperties
  <2>5. ASSUME NEW k \in 1 .. n PROVE data[k] = msg.body[g + k]
    <3>1. p + 1 + k - 1 = h + (g + k) /\ g + k \in 1 .. len
      BY ONLY k \in 1 .. n, p \in Nat, n \in Nat \ {0}, g \in Nat, h \in Nat, len \in Nat, <1>6
    <3>2. data[k] = msg.wire[p + 1 + k - 1]
      BY ONLY k \in 1 .. n, <2>2, <2>3, <1>7, SubSeqProperties
    <3> QED
      BY <3>1, <3>2, <1>2, <1>4
  <2> QED
    BY <2>4, <2>5
<1>9. s.page \in Seq(STRING) /\ s.page_truncated \in BOOLEAN /\ s.http_body_remaining \in Nat \cup {NoLength}
  BY DEF HttpType
<1>10. PageCap \in Nat /\ Len(s.page) \in Nat /\ Len(s.page) <= PageCap
  BY <1>1, <1>9, CapsAssumption DEF Got, Begins
<1>a. Smaller(n, PageCap - Len(s.page)) \in 0 .. n
  BY ONLY n \in Nat \ {0}, <1>10 DEF Smaller
<1>11. PICK j \in 0 .. n : j = Smaller(n, PageCap - Len(s.page))
  BY <1>a
<1>12. PICK pg, t : pg = s.page \o SubSeq(data, 1, j) /\ t = (s.page_truncated \/ n > j)
  OBVIOUS
<1>13. /\ pg \in Seq(STRING) /\ Len(pg) = Len(s.page) + j /\ t \in BOOLEAN
       /\ \A k \in 1 .. Len(s.page) + j : pg[k] = IF k <= Len(s.page) THEN s.page[k] ELSE data[k - Len(s.page)]
  <2>1. PICK x \in Seq(STRING), d \in Seq(STRING) : x = s.page /\ d = data
    BY <1>8, <1>9
  <2>2. pg = x \o SubSeq(d, 1, j) /\ j \in 0 .. Len(d)
    BY <2>1, <1>8, <1>12
  <2>3. /\ pg \in Seq(STRING) /\ Len(pg) = Len(x) + j
        /\ \A k \in 1 .. Len(x) + j : pg[k] = IF k <= Len(x) THEN x[k] ELSE d[k - Len(x)]
    BY ONLY x \in Seq(STRING), d \in Seq(STRING), <2>2, Extended
  <2>4. t \in BOOLEAN
    BY <1>12
  <2> QED
    BY ONLY <2>1, <2>3, <2>4
<1>14. PICK s1 : s1 = [s EXCEPT !.page = pg, !.page_truncated = t]
  OBVIOUS
<1>15. s1 \in HttpType /\ s1.page = pg /\ s1.page_truncated = t
  BY <1>13, <1>14 DEF HttpType
<1>16. Same(s, s1) /\ s1.http_body_remaining = s.http_body_remaining
  BY <1>14 DEF HttpType, Same
<1>17. Got(msg, s1, q - msg.header) /\ (Len(msg.body) <= PageCap => j = n)
  <2>1. Got(msg, s, g) /\ g + n <= Len(msg.body)
    BY <1>1, <1>3, <1>4, <1>6
  <2>2. s1.page_truncated <=> s.page_truncated \/ n > j
    BY <1>12, <1>15
  <2>3. Got(msg, s1, g + n) /\ (Len(msg.body) <= PageCap => j = n)
    <3>1. Appended(s, s1, data, n, j)
      BY <2>2, <1>13, <1>15 DEF Appended
    <3>2. n \in Nat /\ Piece(msg, data, g, n)
      BY <2>1, <1>8 DEF Piece
    <3> QED
      BY ONLY <3>1, <3>2, <2>1, <1>2, <1>11, s \in HttpType, g \in Nat, AppendGot
  <2> QED
    BY ONLY <2>3, <1>4, <1>6
<1>18. CASE s.http_body_remaining = NoLength
  <2>1. r = s1
    BY <1>3, <1>7, <1>8, <1>11, <1>12, <1>14, <1>18 DEF AppendToPage
  <2>2. msg.framing = "close" /\ NoLength # 0
    BY <1>2, <1>18 DEF Plain, NoLength
  <2>3. Plain(msg, s1, q, q)
    BY <2>2, <1>1, <1>16, <1>17, <1>18 DEF Plain, Same, Coded
  <2>4. Unsettled(msg, s1, q, NoCall)
    BY <2>2, <2>3, <1>16, <1>18 DEF Unsettled, Same
  <2> QED
    BY <2>1, <2>4, <1>3, <1>4, <1>6, <1>15, <1>16 DEF DecoderInv, Same
<1>19. CASE s.http_body_remaining # NoLength
  <2>1. PICK rem \in Nat : rem = s.http_body_remaining
    BY <1>9, <1>19
  <2>2. PICK k \in Nat : k = IF rem < j THEN 0 ELSE rem - j
    BY <1>11
  <2>3. PICK s2 : s2 = [s1 EXCEPT !.http_body_remaining = k]
    OBVIOUS
  <2>4. s2 \in HttpType /\ Same(s1, s2) /\ s2.http_body_remaining = k
        /\ s2.page = s1.page /\ s2.page_truncated = s1.page_truncated
    BY <2>3, <1>15 DEF HttpType, Same
  <2>5. r = IF k = 0 THEN FinishFetch(s2) ELSE s2
    <3>1. s2 = [s1 EXCEPT !.http_body_remaining = IF s.http_body_remaining < j THEN 0 ELSE s.http_body_remaining - j]
      BY <2>1, <2>2, <2>3
    <3>2. r = IF s2.http_body_remaining = 0 THEN FinishFetch(s2) ELSE s2
      BY <3>1, <1>3, <1>7, <1>8, <1>11, <1>12, <1>14, <1>19, Zenon DEF AppendToPage
    <3> QED
      BY <3>2, <2>4
  <2>6. msg.framing = "length" /\ rem >= w - p /\ (len <= PageCap => rem = w - p)
    BY <2>1, <1>2, <1>4, <1>19 DEF Plain
  <2>7. k >= w - q
    BY ONLY <2>2, <2>6, p \in Nat, q \in Nat, w \in Nat, k \in Nat, rem \in Nat, n \in Nat \ {0}, j \in 0 .. n, <1>5
  <2>8. len <= PageCap => k = w - q
    <3>1. len <= PageCap => j = n
      BY <1>4, <1>17
    <3> QED
      BY ONLY <3>1, <2>2, <2>6, p \in Nat, q \in Nat, w \in Nat, k \in Nat, rem \in Nat, n \in Nat \ {0}, j \in 0 .. n, <1>5
  <2>9. Got(msg, s2, q - msg.header)
    BY <2>4, <1>17, GotSame
  <2>10. Plain(msg, s2, q, q)
    BY <2>4, <2>6, <2>7, <2>8, <2>9, <1>1, <1>4, <1>16 DEF Plain, Same, Coded
  <2>11. s2.fetch_done = FALSE /\ s2.fetch_err = "none" /\ s2.header_found
    BY <2>4, <1>16 DEF Same
  <2>12. q \in 0 .. Len(msg.wire)
    BY <1>4, <1>6
  <2>13. CASE k = 0
    <3>1. r = FinishFetch(s2)
      BY <2>5, <2>13
    <3>2. r \in HttpType /\ Agree(FinishFetch(s2), r)
      BY <3>1, <2>4, <2>10, <2>11, FinishFacts DEF Agree, Same, Plain, Coded
    <3>3. DecoderInv(msg, r, q, FALSE, NoCall)
      BY <3>2, <2>4, <2>10, <2>11, <2>12, <2>13, PlainFinish
    <3> QED
      BY <3>3, <1>3
  <2>14. CASE k # 0
    <3>1. Unsettled(msg, s2, q, NoCall)
      BY <2>4, <2>10, <2>11, <2>14 DEF Unsettled
    <3>2. DecoderInv(msg, s2, q, FALSE, NoCall)
      BY <3>1, <2>4, <2>11, <2>12 DEF DecoderInv
    <3> QED
      BY <3>2, <2>5, <2>14, <1>3
  <2> QED
    BY <2>13, <2>14
<1> QED
  BY <1>18, <1>19

(* A segment of the body.                                                  *)
LEMMA BodyInv ==
  ASSUME HttpInv, ~dropped, NEW n \in SegmentSizes, Segment(n), http.header_found
  PROVE  DecoderInv(msg, http', sent', eof', call')
<1>1. /\ msg \in Responses /\ DecoderInv(msg, http, sent, eof, call) /\ call.loop = "none" /\ ~http.fetch_done
      /\ sent + n <= Len(msg.wire) /\ IngestBody(n) /\ sent' = sent + n /\ eof' = eof
  BY NotGarbled DEF Segment
<1>2. /\ http \in HttpType /\ sent \in 0 .. Len(msg.wire) /\ eof = FALSE /\ Unsettled(msg, http, sent, call)
      /\ http.fetch_done = FALSE
  BY <1>1 DEF DecoderInv, HttpType
<1>3. n \in Nat \ {0}
  BY CapsAssumption
<1>4. msg.wire \in Seq(STRING)
  BY <1>1, ResponsesAssumption
<1>5. Len(msg.wire) \in Nat /\ sent \in Nat
  BY <1>2, <1>4
<1>6. sent + n \in 0 .. Len(msg.wire) /\ sent + n \in Nat /\ sent < sent + n
  BY <1>1, <1>3, <1>5
<1>7. /\ call = NoCall /\ http.fetch_err = "none"
      /\ Plain(msg, http, sent, sent) \/ Chunked(msg, http, sent)
  BY <1>1, <1>2 DEF Unsettled, Decoding
<1>8. CASE Chunked(msg, http, sent)
  <2>1. http' = http /\ call' = Loop("chunk", sent, sent + n, n)
    BY <1>1, <1>8 DEF IngestBody, Chunked
  <2>2. PICK q \in Nat : q = sent + n
    BY <1>6
  <2>3. Smaller(q, q) = q
    BY DEF Smaller
  <2>4. PICK c : c = call'
    OBVIOUS
  <2>5. c = [loop |-> "chunk", at |-> sent, lim |-> q, end |-> q]
    BY <2>1, <2>2, <2>3, <2>4 DEF Loop
  <2>6. c \in [loop : {"chunk"}, at : Nat, lim : Nat, end : {q}] /\ c.at = sent /\ c.lim = q
    BY <2>5, <1>5
  <2>7. Decoding(c, q)
    BY <2>2, <2>6, <1>6 DEF Decoding
  <2>8. Unsettled(msg, http, q, c)
    BY <2>6, <2>7, <1>7, <1>8 DEF Unsettled
  <2>9. DecoderInv(msg, http, q, FALSE, c)
    BY <2>2, <2>8, <1>2, <1>6 DEF DecoderInv
  <2> QED
    BY <2>1, <2>2, <2>4, <2>9, <1>1, <1>2
<1>9. CASE Plain(msg, http, sent, sent)
  <2>1. http' = AppendToPage(http, SubSeq(msg.wire, sent + 1, sent + n)) /\ call' = NoCall
    BY <1>1, <1>7, <1>9 DEF IngestBody, Plain
  <2>2. PICK r : r = http'
    OBVIOUS
  <2>3. PICK p \in Nat : p = sent
    BY <1>5
  <2>4. r = AppendToPage(http, SubSeq(msg.wire, p + 1, p + n)) /\ Plain(msg, http, p, p) /\ p + n <= Len(msg.wire)
    BY <2>1, <2>2, <2>3, <1>1, <1>9
  <2>5. DecoderInv(msg, r, p + n, FALSE, NoCall)
    BY ONLY <2>4, p \in Nat, <1>1, <1>2, <1>3, <1>7, http.header_found, AppendInv
  <2> QED
    BY <2>1, <2>2, <2>3, <2>5, <1>1, <1>2
<1> QED
  BY <1>7, <1>8, <1>9

(* The header is complete, in a buffer that holds the first `end' bytes.   *)
LEMMA FoundInv ==
  ASSUME msg \in Responses, NEW s \in HttpType, NEW end \in 0 .. Len(msg.wire), msg.header <= end,
         s.fetch_done = FALSE, s.fetch_err = "none", Got(msg, s, 0), s.http_chunked = FALSE, Coded(msg, s, <<>>),
         call = NoCall, HeaderComplete(s, end)
  PROVE  DecoderInv(msg, http', end, FALSE, call')
<1>1. /\ msg.wire \in Seq(STRING) /\ msg.body \in Seq(STRING) /\ msg.header \in 1 .. Len(msg.wire)
      /\ msg.framing \in {"length", "chunked", "close"} /\ msg.layers \in LayersType
      /\ msg.refused \in BOOLEAN
  BY ResponsesAssumption DEF LayersType
<1>2. Len(msg.wire) \in Nat /\ Len(msg.body) \in Nat
  BY <1>1
<1>3. PICK h \in Nat, q \in Nat : h = msg.header /\ q = end
  BY <1>1, <1>2
<1>4. h <= q /\ q <= Len(msg.wire) /\ q \in 0 .. Len(msg.wire) /\ (end - msg.header = 0 <=> q = h)
  BY <1>2, <1>3
<1>5. PICK u : u = [s EXCEPT !.header_found = TRUE]
  OBVIOUS
<1>6. /\ u \in HttpType /\ u.header_found = TRUE /\ u.fetch_done = FALSE /\ u.fetch_err = "none"
      /\ u.http_chunked = FALSE /\ Coded(msg, u, <<>>) /\ u.page = s.page /\ u.page_truncated = s.page_truncated
  BY <1>5 DEF HttpType, Coded
<1>7. Got(msg, u, 0)
  BY <1>6, GotSame
<1>8. PICK r, c : r = http' /\ c = call'
  OBVIOUS
<1>9. CASE msg.framing = "chunked"
  <2>1. /\ r = [u EXCEPT !.http_chunked = TRUE, !.chunk_phase = "SizeLine", !.chunk_line = <<>>,
                         !.stream_len = IF q = h THEN 0 ELSE u.stream_len]
        /\ c = IF q = h THEN NoCall ELSE Loop("chunk", h, q, TailPiece)
    BY <1>3, <1>4, <1>5, <1>8, <1>9 DEF HeaderComplete
  <2>2. PICK ph \in Phases, e \in Seq(STRING) : ph = "SizeLine" /\ e = <<>>
    BY EmptySeq DEF Phases
  <2>3. u.stream_len \in Nat
    BY <1>6 DEF HttpType
  <2>4. PICK k \in Nat : k = IF q = h THEN 0 ELSE u.stream_len
    BY <2>3
  <2>5. r = [u EXCEPT !.http_chunked = TRUE, !.chunk_phase = ph, !.chunk_line = e, !.stream_len = k]
    BY <2>1, <2>2, <2>4
  <2>6. r \in HttpType
    BY <2>5, <1>6 DEF HttpType
  <2>7. /\ r.http_chunked = TRUE /\ r.chunk_phase = ph /\ r.chunk_line = e /\ r.page = u.page
        /\ r.page_truncated = u.page_truncated /\ r.header_found = u.header_found /\ r.fetch_done = u.fetch_done
        /\ r.fetch_err = u.fetch_err /\ Coded(msg, r, <<>>)
    BY <2>5, <1>6 DEF HttpType, Coded
  <2>8. Got(msg, r, 0)
    BY <2>7, <1>7, GotSame
  <2>9. PICK d : d = msg.chunks[1]
    OBVIOUS
  <2>10. 1 \in 1 .. Len(msg.chunks) /\ d.at = h /\ d.from = 0
    BY <2>9, <1>3, <1>9, ResponsesAssumption DEF ChunkedOk
  <2>11. LineOk(msg, d)
    BY <2>9, <2>10, <1>9, ChunkFacts
  <2>12. Inside(d, h) /\ Kept(msg, r, d, h)
    BY <2>2, <2>7, <2>10, <2>11, LineStarts
  <2>13. InSize(msg, r, d, h)
    BY <2>2, <2>7, <2>8, <2>10, <2>12 DEF InSize
  <2>14. Chunked(msg, r, h)
    BY <2>7, <2>9, <2>10, <2>13, <1>6, <1>9 DEF Chunked, InFraming
  <2>15. r.header_found /\ r.fetch_done = FALSE /\ r.fetch_err = "none"
    BY <2>7, <1>6
  <2>16. Unsettled(msg, r, q, c)
    <3>1. CASE q = h
      BY <3>1, <2>1, <2>14, <2>15 DEF Unsettled
    <3>2. CASE q # h
      <4>1. TailPiece \in Nat \ {0} /\ h < q
        BY <3>2, <1>4, CapsAssumption
      <4>2. PICK lim \in Nat : lim = Smaller(q, h + TailPiece)
        BY <4>1 DEF Smaller
      <4>3. h < lim /\ lim <= q
        BY <4>1, <4>2 DEF Smaller
      <4>4. c = [loop |-> "chunk", at |-> h, lim |-> lim, end |-> q]
        BY <3>2, <4>2, <2>1 DEF Loop
      <4>5. c \in [loop : {"chunk"}, at : Nat, lim : Nat, end : {q}] /\ c.at = h /\ c.lim = lim
        BY <4>4
      <4>6. Decoding(c, q)
        BY <4>3, <4>5 DEF Decoding
      <4> QED
        BY <4>5, <4>6, <2>14, <2>15 DEF Unsettled
    <3> QED
      BY <3>1, <3>2
  <2>17. DecoderInv(msg, r, q, FALSE, c)
    BY <2>6, <2>15, <2>16, <1>4 DEF DecoderInv
  <2> QED
    BY <2>17, <1>3, <1>8
<1>10. CASE msg.framing # "chunked" /\ msg.refused
  <2>1. PICK e \in Errs : e = "HTTP ENC" /\ e # "none"
    BY DEF Errs
  <2>2. r = SetErr(u, e) /\ c = NoCall
    BY <2>1, <1>5, <1>8, <1>10 DEF HeaderComplete
  <2>3. r \in HttpType /\ r.fetch_done /\ r.fetch_err = e /\ r.page = u.page
    BY <2>2, <1>6, ErrFacts
  <2>4. Begins(msg, r)
    BY <2>3, <1>7 DEF Got, Begins
  <2>5. Settled(msg, r, q, FALSE)
    BY <2>1, <2>3, <2>4 DEF Settled
  <2>6. DecoderInv(msg, r, q, FALSE, c)
    BY <2>2, <2>3, <2>5, <1>4 DEF DecoderInv
  <2> QED
    BY <2>6, <1>3, <1>8
<1>11. CASE msg.framing # "chunked" /\ ~msg.refused
  <2>1. /\ Len(msg.wire) = h + Len(msg.body) /\ msg.framing \in {"length", "close"}
        /\ msg.length = IF msg.framing = "length" THEN Len(msg.body) ELSE NoLength
    BY <1>3, <1>11, PlainFacts
  <2>2. PICK lay \in LayersType : lay = msg.layers
    BY <1>1
  <2>3. PICK rem \in Nat \cup {NoLength} :
          /\ rem = IF msg.length = NoLength THEN NoLength ELSE msg.length - Smaller(end - msg.header, msg.length)
          /\ msg.framing = "close" => rem = NoLength
          /\ msg.framing = "length" => rem \in Nat /\ rem = Len(msg.wire) - q
    <3>1. CASE msg.framing = "close"
      BY <3>1, <2>1
    <3>2. CASE msg.framing = "length"
      <4>1. PICK len \in Nat : len = Len(msg.body) /\ msg.length = len /\ len # NoLength
        BY <3>2, <2>1, <1>2 DEF NoLength
      <4>2. q - h <= len /\ Smaller(q - h, len) = q - h
        BY <4>1, <2>1, <1>4 DEF Smaller
      <4>3. PICK k \in Nat : k = len - (q - h)
        BY <4>2
      <4>4. k = Len(msg.wire) - q
        BY <4>1, <4>3, <2>1
      <4>5. k = IF msg.length = NoLength THEN NoLength ELSE msg.length - Smaller(end - msg.header, msg.length)
        BY <4>1, <4>2, <4>3, <1>3
      <4> QED
        BY <4>3, <4>4, <4>5, <3>2
    <3> QED
      BY <3>1, <3>2, <2>1
  <2>4. PICK v : v = [u EXCEPT !.body_layers = lay, !.http_body_remaining = rem]
    OBVIOUS
  <2>5. v \in HttpType
    BY <2>4, <1>6 DEF HttpType
  <2>6. /\ Coded(msg, v, lay) /\ v.http_body_remaining = rem /\ v.header_found = TRUE /\ v.fetch_done = FALSE
        /\ v.fetch_err = "none" /\ v.http_chunked = FALSE /\ v.page = u.page /\ v.page_truncated = u.page_truncated
    BY <2>4, <1>6 DEF HttpType, Coded
  <2>7. Got(msg, v, 0) /\ h - msg.header = 0
    BY <2>6, <1>3, <1>7, GotSame
  <2>8. Plain(msg, v, h, q)
    <3>1. Got(msg, v, h - msg.header)
      BY ONLY <2>7
    <3>2. /\ msg.framing = "close" => v.http_body_remaining = NoLength
          /\ msg.framing = "length" => v.http_body_remaining \in Nat /\ v.http_body_remaining = Len(msg.wire) - q
      BY <2>3, <2>6
    <3>3. msg.framing = "length" => v.http_body_remaining >= Len(msg.wire) - q
      BY <3>2, <1>2
    <3> QED
      BY <3>1, <3>2, <3>3, <2>2, <2>6, <1>11 DEF Plain
  <2>9. /\ r = IF q = h THEN BodyPushed(v) ELSE v
        /\ c = IF q = h THEN NoCall ELSE Loop("push", msg.header, end, end - msg.header)
    BY <2>2, <2>3, <2>4, <1>4, <1>5, <1>8, <1>11 DEF HeaderComplete
  <2>10. CASE q = h
    <3>1. DecoderInv(msg, BodyPushed(v), q, FALSE, NoCall)
      BY <2>5, <2>6, <2>8, <2>10, <1>4, PlainPushed
    <3> QED
      BY <3>1, <2>9, <2>10, <1>3, <1>8
  <2>11. CASE q # h
    <3>1. h + (q - h) = q /\ Smaller(q, q) = q /\ h < q
      BY <2>11, <1>4 DEF Smaller
    <3>2. c = [loop |-> "push", at |-> h, lim |-> q, end |-> q]
      BY <3>1, <2>9, <2>11, <1>3 DEF Loop
    <3>3. c \in [loop : {"push"}, at : Nat, lim : Nat, end : {q}] /\ c.at = h
      BY <3>2
    <3>4. Unsettled(msg, v, q, c)
      BY <3>1, <3>3, <2>6, <2>8 DEF Unsettled
    <3>5. DecoderInv(msg, v, q, FALSE, c)
      BY <3>4, <2>5, <2>6, <1>4 DEF DecoderInv
    <3> QED
      BY <3>5, <2>9, <2>11, <1>3, <1>8
  <2> QED
    BY <2>10, <2>11
<1> QED
  BY <1>9, <1>10, <1>11

(* A segment before the header is complete, all of which fits the buffer.  *)
LEMMA HeaderInv ==
  ASSUME HttpInv, ~dropped, ~dropped', NEW n \in SegmentSizes, Segment(n), ~http.header_found
  PROVE  DecoderInv(msg, http', sent', eof', call')
<1>1. /\ msg \in Responses /\ DecoderInv(msg, http, sent, eof, call) /\ call.loop = "none" /\ ~http.fetch_done
      /\ sent + n <= Len(msg.wire) /\ IngestHeader(n) /\ sent' = sent + n /\ eof' = eof
  BY NotGarbled DEF Segment
<1>2. /\ http \in HttpType /\ sent \in 0 .. Len(msg.wire) /\ eof = FALSE /\ Unsettled(msg, http, sent, call)
      /\ http.fetch_done = FALSE
  BY <1>1 DEF DecoderInv, HttpType
<1>3. call = NoCall /\ Waiting(msg, http, sent) /\ http.fetch_err = "none"
  BY <1>1, <1>2 DEF Unsettled
<1>4. /\ http.stream_len = sent /\ sent < StreamCap /\ ~http.http_chunked /\ Got(msg, http, 0)
      /\ Coded(msg, http, <<>>) /\ http.http_body_remaining = NoLength
  BY <1>3 DEF Waiting
<1>5. msg.wire \in Seq(STRING) /\ msg.header \in 1 .. Len(msg.wire) /\ n \in Nat \ {0} /\ StreamCap \in Nat \ {0}
  BY <1>1, ResponsesAssumption, CapsAssumption
<1>6. Len(msg.wire) \in Nat /\ sent \in Nat
  BY <1>2, <1>5
<1>7. PICK q \in Nat : q = sent + n
  BY <1>5, <1>6
<1>8. http.stream_len + Smaller(n, StreamCap - http.stream_len) = q /\ q <= StreamCap /\ q \in 0 .. Len(msg.wire)
  <2>1. ~(n > StreamCap - sent)
    BY <1>1, <1>4 DEF IngestHeader
  <2>2. Smaller(n, StreamCap - sent) = n
    BY <2>1, <1>5, <1>6 DEF Smaller
  <2> QED
    BY <2>1, <2>2, <1>1, <1>4, <1>5, <1>6, <1>7
<1>9. PICK s : s = Buffered(http, q)
  OBVIOUS
<1>10. s \in HttpType /\ Agree(http, s) /\ s.stream_len = q
  BY <1>2, <1>7, <1>9, BufferedFacts
<1>11. /\ s.header_found = http.header_found /\ s.fetch_done = FALSE /\ s.fetch_err = "none" /\ s.http_chunked = http.http_chunked
       /\ Coded(msg, s, <<>>) /\ s.http_body_remaining = NoLength /\ s.page = http.page
  BY <1>2, <1>3, <1>4, <1>10 DEF Agree, Same, Coded
<1>12. Got(msg, s, 0)
  BY <1>4, <1>10, AgreeGot
<1>13. \/ msg.header <= q /\ HeaderComplete(s, q)
       \/ /\ msg.header > q
          /\ http' = IF q >= StreamCap THEN SetErr(s, "HTTP HDR TOO BIG") ELSE s
          /\ call' = NoCall
  BY <1>1, <1>3, <1>8, <1>9 DEF IngestHeader, Buffered
<1>14. CASE msg.header <= q /\ HeaderComplete(s, q)
  <2>1. s.http_chunked = FALSE
    BY <1>4, <1>10, <1>11 DEF HttpType
  <2>2. DecoderInv(msg, http', q, FALSE, call')
    BY <2>1, <1>1, <1>3, <1>8, <1>10, <1>11, <1>12, <1>14, FoundInv
  <2> QED
    BY <2>2, <1>1, <1>2, <1>7
<1>15. CASE /\ msg.header > q /\ call' = NoCall
            /\ http' = IF q >= StreamCap THEN SetErr(s, "HTTP HDR TOO BIG") ELSE s
  <2>1. PICK r : r = http'
    OBVIOUS
  <2>2. CASE q >= StreamCap
    <3>1. PICK e \in Errs : e = "HTTP HDR TOO BIG" /\ e # "none"
      BY DEF Errs
    <3>2. r = SetErr(s, e)
      BY <3>1, <2>1, <2>2, <1>15
    <3>3. r \in HttpType /\ r.fetch_done /\ r.fetch_err = e /\ r.page = s.page
      BY <3>2, <1>10, ErrFacts
    <3>4. Begins(msg, r)
      BY <3>3, <1>12 DEF Got, Begins
    <3>5. Settled(msg, r, q, FALSE)
      BY <3>1, <3>3, <3>4 DEF Settled
    <3>6. DecoderInv(msg, r, q, FALSE, NoCall)
      BY <3>3, <3>5, <1>8 DEF DecoderInv
    <3> QED
      BY <3>6, <2>1, <1>1, <1>2, <1>7, <1>15
  <2>3. CASE ~(q >= StreamCap)
    <3>1. q < msg.header /\ q < StreamCap
      BY <2>3, <1>5, <1>6, <1>15
    <3>2. Waiting(msg, s, q)
      BY <3>1, <1>4, <1>10, <1>11, <1>12 DEF Waiting
    <3>3. Unsettled(msg, s, q, NoCall)
      BY <3>2, <1>11 DEF Unsettled
    <3>4. DecoderInv(msg, s, q, FALSE, NoCall)
      BY <3>3, <1>8, <1>10, <1>11 DEF DecoderInv
    <3> QED
      BY <3>4, <2>3, <1>1, <1>2, <1>7, <1>15
  <2> QED
    BY <2>2, <2>3
<1> QED
  BY <1>13, <1>14, <1>15

(* HttpInv is inductive.                                                   *)
LEMMA StepInv ==
  ASSUME HttpInv, [Next]_vars
  PROVE  HttpInv'
<1>1. CASE UNCHANGED vars
  BY <1>1 DEF vars, HttpInv
<1>2. ASSUME NEW n \in SegmentSizes, Segment(n) PROVE HttpInv'
  <2>1. msg' = msg /\ (~dropped' => ~dropped)
    BY <1>2 DEF Segment, IngestBody, IngestHeader
  <2>2. ASSUME ~dropped' PROVE DecoderInv(msg, http', sent', eof', call')
    BY <1>2, <2>1, <2>2, BodyInv, HeaderInv
  <2> QED
    BY <2>1, <2>2 DEF HttpInv
<1>3. CASE PushByte
  <2>1. msg' = msg /\ sent' = sent /\ eof' = eof /\ dropped' = dropped
    BY <1>3 DEF PushByte
  <2>2. ~dropped => DecoderInv(msg, http', sent, eof, call')
    BY <1>3, PushInv
  <2> QED
    BY <2>1, <2>2 DEF HttpInv
<1>4. CASE DecodeByte
  <2>1. msg' = msg /\ sent' = sent /\ eof' = eof /\ dropped' = dropped
    BY <1>4 DEF DecodeByte
  <2>2. ~dropped => DecoderInv(msg, http', sent, eof, call') \/ Garbled(msg, http', sent, call')
    BY <1>4, DecodeInv, GarbledInv DEF HttpInv
  <2> QED
    BY <2>1, <2>2 DEF HttpInv
<1>5. CASE Fin
  <2>1. msg' = msg /\ sent' = sent /\ dropped' = dropped
    BY <1>5 DEF Fin
  <2>2. ~dropped => DecoderInv(msg, http', sent, eof', call')
    BY <1>5, FinInv
  <2> QED
    BY <2>1, <2>2 DEF HttpInv
<1> QED
  BY <1>1, <1>2, <1>3, <1>4, <1>5 DEF Next

LEMMA HttpInvHolds == Spec => []HttpInv
<1>1. Init => HttpInv
  BY InitInv
<1>2. HttpInv /\ [Next]_vars => HttpInv'
  BY StepInv
<1> QED
  BY <1>1, <1>2, PTL DEF Spec

-----------------------------------------------------------------------------
(***************************************************************************)
(* The three promises.                                                     *)
(***************************************************************************)
(* The page so far is a beginning of the content, whoever comes next.      *)
LEMMA PageBegins ==
  ASSUME msg \in Responses, DecoderInv(msg, http, sent, eof, call)
  PROVE  Begins(msg, http)
<1>1. msg \in Responses /\ DecoderInv(msg, http, sent, eof, call)
  OBVIOUS
<1>2. CASE http.fetch_done
  BY <1>1, <1>2 DEF DecoderInv, Settled
<1>3. CASE ~http.fetch_done
  <2>1. Unsettled(msg, http, sent, call) /\ sent \in 0 .. Len(msg.wire)
    BY <1>1, <1>3 DEF DecoderInv
  <2>2. sent \in Nat
    BY <2>1, <1>1, ResponsesAssumption
  <2>3. PICK p \in Nat : Waiting(msg, http, p) \/ (\E e : Plain(msg, http, p, e)) \/ Chunked(msg, http, p)
    BY <2>1, <2>2 DEF Unsettled, Decoding
  <2>4. CASE Chunked(msg, http, p)
    BY <2>4, <1>1, FramingInside DEF Chunked
  <2> QED
    BY <2>3, <2>4 DEF Waiting, Plain, Got
<1> QED
  BY <1>2, <1>3

(* A page that begins the content is the prefix of its length.             *)
LEMMA BeginsPrefix ==
  ASSUME msg \in Responses, http \in HttpType, Begins(msg, http),
         NEW n \in Nat, Len(http.page) = Smaller(Len(msg.body), n)
  PROVE  http.page = Prefix(msg.body, n)
<1>1. http.page \in Seq(STRING) /\ msg.body \in Seq(STRING)
  BY ResponsesAssumption DEF HttpType
<1>2. PICK x \in Seq(STRING), b \in Seq(STRING) : x = http.page /\ b = msg.body
  BY <1>1
<1>3. Len(x) \in Nat /\ Len(b) \in Nat
  BY <1>2
<1>4. PICK k \in 0 .. Len(b) : k = Smaller(Len(b), n)
  BY <1>3 DEF Smaller
<1>5. Len(x) = k /\ \A i \in 1 .. k : x[i] = b[i]
  BY <1>2, <1>4 DEF Begins
<1>6. PICK y : y = SubSeq(b, 1, k)
  OBVIOUS
<1>7. y \in Seq(STRING) /\ Len(y) = k /\ \A i \in 1 .. k : y[i] = b[i]
  BY <1>6
<1>8. x = y
  BY <1>5, <1>7, SeqEqual
<1> QED
  BY <1>2, <1>4, <1>6, <1>8 DEF Prefix

LEMMA InvContent == ASSUME HttpInv PROVE PageIsContent
<1>1. SUFFICES ASSUME ~dropped, DecoderInv(msg, http, sent, eof, call)
               PROVE  /\ http.page = Prefix(msg.body, Len(http.page)) /\ Len(http.page) <= PageCap
                      /\ Shown /\ ~eof => /\ sent = Len(msg.wire)
                                          /\ http.page = Prefix(msg.body, PageCap)
                                          /\ http.page_truncated = (Len(msg.body) > PageCap)
                      /\ Shown /\ http.header_found => DecodedAsLabelled(msg, http)
  BY DEF HttpInv, PageIsContent, Garbled, Failed, Shown
<1>2. msg \in Responses /\ DecoderInv(msg, http, sent, eof, call) /\ Begins(msg, http) /\ PageCap \in Nat
  BY <1>1, PageBegins, CapsAssumption DEF HttpInv
<1>3. http \in HttpType /\ http.page \in Seq(STRING) /\ msg.body \in Seq(STRING) /\ http.page_truncated \in BOOLEAN
  BY <1>2, ResponsesAssumption DEF DecoderInv, HttpType
<1>4. Len(http.page) \in Nat /\ Len(msg.body) \in Nat
  BY <1>3
<1>5. Len(http.page) <= PageCap /\ Len(http.page) <= Len(msg.body)
  BY <1>2 DEF Begins
<1>6. http.page = Prefix(msg.body, Len(http.page))
  <2>1. Len(http.page) = Smaller(Len(msg.body), Len(http.page))
    BY <1>4, <1>5 DEF Smaller
  <2> QED
    BY <2>1, <1>2, <1>3, <1>4, BeginsPrefix
<1>7. ASSUME Shown, ~eof
      PROVE  /\ sent = Len(msg.wire) /\ http.page = Prefix(msg.body, PageCap)
             /\ http.page_truncated = (Len(msg.body) > PageCap)
  <2>1. sent = Len(msg.wire) /\ Got(msg, http, Len(msg.body))
    BY <1>2, <1>7 DEF Shown, DecoderInv, Settled
  <2>2. Len(http.page) = Smaller(Len(msg.body), PageCap) /\ (http.page_truncated <=> Len(msg.body) > PageCap)
    BY <2>1 DEF Got
  <2>3. http.page = Prefix(msg.body, PageCap)
    BY <2>2, <1>2, <1>3, BeginsPrefix
  <2>4. http.page_truncated = (Len(msg.body) > PageCap)
    BY <2>2, <1>3, <1>4
  <2> QED
    BY <2>1, <2>3, <2>4
<1>8. ASSUME Shown, http.header_found PROVE DecodedAsLabelled(msg, http)
  BY <1>2, <1>8 DEF Shown, DecoderInv, Settled
<1> QED
  BY <1>5, <1>6, <1>7, <1>8

LEMMA InvSettles == ASSUME HttpInv PROVE SettlesWithLastByte
<1>1. SUFFICES ASSUME ~dropped, call.loop = "none", sent = Len(msg.wire), ~http.fetch_done,
                      msg.framing = "chunked" \/ (msg.framing = "length" /\ Len(msg.body) <= PageCap)
               PROVE  FALSE
  BY DEF SettlesWithLastByte
<1>2. msg \in Responses /\ Unsettled(msg, http, sent, call)
  BY <1>1, NotGarbled DEF DecoderInv
<1>3. msg.wire \in Seq(STRING) /\ msg.header \in 1 .. Len(msg.wire)
  BY <1>2, ResponsesAssumption
<1>4. Len(msg.wire) \in Nat
  BY <1>3
<1>5. \/ Waiting(msg, http, sent) \/ Chunked(msg, http, sent)
      \/ Plain(msg, http, sent, sent) /\ http.http_body_remaining # 0
  BY <1>1, <1>2 DEF Unsettled, Decoding
<1>6. CASE Waiting(msg, http, sent)
  BY <1>1, <1>3, <1>4, <1>6 DEF Waiting
<1>7. CASE Chunked(msg, http, sent)
  <2>1. sent \in Nat /\ msg.framing = "chunked" /\ InFraming(msg, http, sent)
    BY <1>1, <1>4, <1>7 DEF Chunked
  <2>2. sent < Len(msg.wire)
    BY <2>1, <1>2, FramingInside
  <2> QED
    BY <2>2, <1>1, <1>4
<1>8. CASE Plain(msg, http, sent, sent) /\ http.http_body_remaining # 0
  <2>1. http.http_body_remaining = Len(msg.wire) - Len(msg.wire)
    BY <1>1, <1>8 DEF Plain
  <2> QED
    BY <2>1, <1>4, <1>8
<1> QED
  BY <1>5, <1>6, <1>7, <1>8

LEMMA InvBad == ASSUME HttpInv PROVE BadChunksAreAnError
  BY DEF HttpInv, BadChunksAreAnError, Shown, DecoderInv, Settled, Garbled, Failed

(* net.rs, ingest_tcp_payload, ingest_chunked_bytes and append_to_page:    *)
(* for all capacities, all responses and every way to cut them into        *)
(* segments, the page keeps to its buffer and is the content, flagged when *)
(* cut at the page capacity and never compressed bytes.                    *)
THEOREM PageContent == Spec => []PageIsContent
<1>1. HttpInv => PageIsContent
  BY InvContent
<1> QED
  BY <1>1, HttpInvHolds, PTL

(* The last byte of a chunked response, or of one with a Content-Length    *)
(* that fits the page, settles the fetch: no wait for the server to close. *)
THEOREM LastByteSettles == Spec => []SettlesWithLastByte
<1>1. HttpInv => SettlesWithLastByte
  BY InvSettles
<1> QED
  BY <1>1, HttpInvHolds, PTL

(* finish_plain_http_on_tcp_eof and ingest_chunked_bytes: a chunked        *)
(* response cut short by a FIN, wherever in the framing, or with broken    *)
(* framing is never shown, whatever the bytes behind the break look like.  *)
THEOREM BadChunksNeverShown == Spec => []BadChunksAreAnError
<1>1. HttpInv => BadChunksAreAnError
  BY InvBad
<1> QED
  BY <1>1, HttpInvHolds, PTL
=============================================================================
