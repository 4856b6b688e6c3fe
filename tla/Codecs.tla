------------------------------ MODULE Codecs -------------------------------
(***************************************************************************)
(* What a query and its answer go through between the client and the index: *)
(* the text of the query is parsed, a vector in it may be base 64, queries   *)
(* and results are written into and read from the bodies of packets, and    *)
(* the executor searches the indexes the query selects.                     *)
(***************************************************************************)
EXTENDS ByteCells, FiniteSetsExt, SequencesExt

CONSTANTS Blobs,          \* vectors as bytes, for base 64
          Queries,        \* RemoteQuery: [type, text]
          Results,        \* RemoteSearchResult: [status, indexes]
          MajorVersions,  \* major versions of the reading side
          Alphabet,       \* characters of a query
          MaxQuery,       \* bound: characters of a query
          Served,         \* indexes of the server: name -> [type, dim, points]
          Names,          \* index names of a query
          Vectors,        \* query vectors: [dim, types it converts to]
          MaxDistance     \* larger than every distance

VARIABLE wire             \* what is being converted, or NoWire

NoWire == [kind |-> "none"]

(***************************************************************************)
(* Base64. A character is its 6-bit value, Pad, or anything else.           *)
(***************************************************************************)
Pad == 65

\* c_decTable[c]
Dec(c) == IF c < 64 THEN c ELSE 64

Group(b0, b1, b2) ==
  <<b0 \div 4, (b0 % 4) * 16 + (b1 \div 16), (b1 % 16) * 4 + (b2 \div 64), b2 % 64>>

Base64(bytes) ==
  [kind |-> "base64", at |-> "encode", bytes |-> bytes, left |-> bytes, text |-> <<>>,
   out |-> <<>>, ok |-> TRUE]

EncodeGroup ==
  /\ wire.kind = "base64" /\ wire.at = "encode"
  /\ Len(wire.left) >= 3
  /\ LET b == wire.left
     IN  wire' = [wire EXCEPT !.text = @ \o Group(b[1], b[2], b[3]),
                              !.left = SubSeq(@, 4, Len(@))]

EncodeTail ==
  /\ wire.kind = "base64" /\ wire.at = "encode"
  /\ Len(wire.left) < 3
  /\ LET b == wire.left
         tail == CASE Len(b) = 0 -> <<>>
                   [] Len(b) = 1 -> SubSeq(Group(b[1], 0, 0), 1, 2) \o <<Pad, Pad>>
                   [] Len(b) = 2 -> SubSeq(Group(b[1], b[2], 0), 1, 3) \o <<Pad>>
     IN  wire' = [wire EXCEPT !.text = @ \o tail, !.left = wire.text \o tail,
                              !.at = IF wire.text \o tail = <<>> THEN "end" ELSE "decode"]

\* The three bytes of four characters; the high bits fall off.
Ungroup(c) ==
  LET u(i) == Dec(c[i])
  IN  <<(u(1) * 4 + u(2) \div 16) % 256, (u(2) * 16 + u(3) \div 4) % 256,
        (u(3) * 64 + u(4)) % 256>>

\* Groups but the last. (An empty text is never decoded: ExtractVector.)
DecodeGroup ==
  /\ wire.kind = "base64" /\ wire.at = "decode"
  /\ Len(wire.left) > 4
  /\ LET c == SubSeq(wire.left, 1, 4)
     IN  wire' = IF \E i \in 1 .. 4 : Dec(c[i]) > 63
                 THEN [wire EXCEPT !.ok = FALSE, !.at = "end"]
                 ELSE [wire EXCEPT !.out = @ \o Ungroup(c), !.left = SubSeq(@, 5, Len(@))]

\* The last group. The test of the bits behind two bytes looks at u3, which is
\* 64 when the character is the padding.
DecodeTail ==
  /\ wire.kind = "base64" /\ wire.at = "decode"
  /\ Len(wire.left) <= 4
  /\ LET c == wire.left
         refused == \/ Dec(c[1]) > 63 \/ Dec(c[2]) > 63 \/ (c[3] = Pad /\ c[4] # Pad)
                    \/ (Dec(c[3]) > 63 /\ c[3] # Pad)
                    \/ (Dec(c[4]) > 63 /\ c[4] # Pad)
                    \/ (c[3] = Pad /\ Dec(c[2]) % 16 # 0)
                    \/ (c[3] # Pad /\ c[4] = Pad /\ Dec(c[4]) % 4 # 0)
         n == CASE c[3] = Pad -> 1 [] c[3] # Pad /\ c[4] = Pad -> 2 [] OTHER -> 3
     IN  wire' = IF refused THEN [wire EXCEPT !.ok = FALSE, !.at = "end"]
                 ELSE [wire EXCEPT !.out = @ \o SubSeq(Ungroup(c), 1, n), !.at = "end"]

CapacityForEncode(n) == ((n + 2) \div 3) * 4

CapacityForDecode(n) == (n \div 4) * 3 + ((n % 4) * 2) \div 3

(***************************************************************************)
(* SimpleSerialization. A value of n bytes is n cells; text and metadata    *)
(* are sequences of one-byte values behind their length.                    *)
(***************************************************************************)
WriteBytes(bytes) ==
  Cells(Len(bytes), 4) \o FlattenSeq([i \in DOMAIN bytes |-> Cells(bytes[i], 1)])

BytesAt(buffer, pos) ==
  LET len == ValueAt(buffer, pos, 4)
  IN  [i \in 1 .. len |-> ValueAt(buffer, pos + 3 + i, 1)]

\* The position behind the bytes at pos.
BehindBytes(buffer, pos) == pos + 4 + Max({0, ValueAt(buffer, pos, 4)})

EstimateBytes(bytes) == 4 + Len(bytes)

(***************************************************************************)
(* RemoteQuery and RemoteSearchResult. The major version is 1.              *)
(***************************************************************************)
WriteQuery(q) == Cells(1, 2) \o Cells(0, 2) \o Cells(q.type, 1) \o WriteBytes(q.text)

EstimateQuery(q) == 2 + 2 + 1 + EstimateBytes(q.text)

Refused == [refused |-> TRUE]

ReadQuery(buffer, major) ==
  IF ValueAt(buffer, 0, 2) # major THEN Refused
  ELSE [type |-> ValueAt(buffer, 4, 1), text |-> BytesAt(buffer, 5)]

WriteIndexResult(r) ==
  WriteBytes(r.name) \o Cells(Len(r.results), 4) \o Cells(r.withMeta, 1)
    \o FlattenSeq([i \in DOMAIN r.results |->
                     Cells(r.results[i].VID, 4) \o Cells(r.results[i].Dist, 4)])
    \o IF r.withMeta = 1
       THEN FlattenSeq([i \in DOMAIN r.results |-> WriteBytes(r.results[i].Meta)])
       ELSE <<>>

WriteResult(r) ==
  Cells(1, 2) \o Cells(0, 2) \o Cells(r.status, 1) \o Cells(Len(r.indexes), 4)
    \o FlattenSeq([i \in DOMAIN r.indexes |-> WriteIndexResult(r.indexes[i])])

EstimateIndexResult(r) ==
  EstimateBytes(r.name) + 4 + 1 + 8 * Len(r.results)
    + (IF r.withMeta = 1
       THEN FoldLeft(LAMBDA sum, x : sum + EstimateBytes(x.Meta), 0, r.results) ELSE 0)

EstimateResult(r) ==
  2 + 2 + 1 + 4 + FoldLeft(LAMBDA sum, x : sum + EstimateIndexResult(x), 0, r.indexes)

\* One index's results at s.pos of the buffer; metadata behind all of them.
ReadIndexResult(buffer, s) ==
  LET name == BytesAt(buffer, s.pos)
      at == BehindBytes(buffer, s.pos)
      resNum == Max({0, ValueAt(buffer, at, 4)})
      withMeta == ValueAt(buffer, at + 4, 1)
      first == at + 5
      metas == first + 8 * resNum
      behind[i \in 0 .. resNum] ==
        IF i = 0 THEN metas ELSE BehindBytes(buffer, behind[i - 1])
      result(i) == [VID |-> ValueAt(buffer, first + 8 * (i - 1), 4),
                    Dist |-> ValueAt(buffer, first + 8 * (i - 1) + 4, 4),
                    Meta |-> IF withMeta = 1 THEN BytesAt(buffer, behind[i - 1]) ELSE <<>>]
  IN  [pos |-> IF withMeta = 1 THEN behind[resNum] ELSE metas,
       read |-> Append(s.read, [name |-> name, withMeta |-> withMeta,
                                results |-> [i \in 1 .. resNum |-> result(i)]])]

ReadResult(buffer, major) ==
  LET len == Max({0, ValueAt(buffer, 5, 4)})
      all == FoldLeft(LAMBDA s, i : ReadIndexResult(buffer, s),
                      [pos |-> 9, read |-> <<>>], [i \in 1 .. len |-> i])
  IN  IF ValueAt(buffer, 0, 2) # major THEN Refused
      ELSE [status |-> ValueAt(buffer, 4, 1), indexes |-> all.read]

(***************************************************************************)
(* Packets: a header of 16 bytes, 14 of them used, and the body.            *)
(***************************************************************************)
HeaderSize == 16

WriteHeader(h) ==
  Cells(h.type, 1) \o Cells(h.status, 1) \o Cells(h.bodyLength, 4)
    \o Cells(h.connection, 4) \o Cells(h.resource, 4)

ReadHeader(buffer) ==
  [type |-> ValueAt(buffer, 0, 1), status |-> ValueAt(buffer, 1, 1),
   bodyLength |-> ValueAt(buffer, 2, 4), connection |-> ValueAt(buffer, 6, 4),
   resource |-> ValueAt(buffer, 10, 4)]

Unwritten == Cells(0, 1)[1]

\* AllocateBuffer, the header and the body in their places.
BufferOf(header, body, capacity) ==
  LET size == Max({HeaderSize + capacity, HeaderSize + Len(body)})
  IN  [i \in 1 .. size |->
         IF i <= 14 THEN WriteHeader(header)[i]
         ELSE IF i <= HeaderSize \/ i - HeaderSize > Len(body) THEN Unwritten
         ELSE body[i - HeaderSize]]

Packet(what, content, major) ==
  [kind |-> "packet", at |-> "send", what |-> what, content |-> content, major |-> major,
   capacity |-> 0, header |-> <<>>, sent |-> <<>>, got |-> <<>>]

\* ResponseMask is the highest bit.
ResponseTypeOf(type) == type + 128

\* The client takes the length of the body from the estimate, the server and the
\* aggregator from what was written.
SendPacket ==
  /\ wire.kind = "packet" /\ wire.at = "send"
  /\ LET query == wire.what = "query"
         body == IF query THEN WriteQuery(wire.content) ELSE WriteResult(wire.content)
         capacity == IF query THEN EstimateQuery(wire.content) ELSE EstimateResult(wire.content)
         header == [type |-> IF query THEN 3 ELSE ResponseTypeOf(3), status |-> 0,
                    bodyLength |-> IF query THEN capacity ELSE Len(body),
                    connection |-> 5, resource |-> 7]
     IN  wire' = [wire EXCEPT !.at = "receive", !.capacity = capacity, !.header = header,
                              !.sent = BufferOf(header, body, capacity)]

\* The first 16 bytes give the length of the rest.
ReceivePacket ==
  /\ wire.kind = "packet" /\ wire.at = "receive"
  /\ LET header == ReadHeader(wire.sent)
         body == SubSeq(wire.sent, HeaderSize + 1, HeaderSize + Max({0, header.bodyLength}))
     IN  wire' = [wire EXCEPT !.at = "end", !.header = header,
                              !.got = IF header.type < 128 THEN ReadQuery(body, wire.major)
                                      ELSE ReadResult(body, wire.major)]

(***************************************************************************)
(* QueryParser::Parse, a character at a time. Positions stand for pointers; *)
(* "0" is the terminator. "$" starts an option, "#" a base 64 vector, ":"    *)
(* ends the name of an option, "|" separates elements, "_" is a space.      *)
(***************************************************************************)
Parsing ==
  [kind |-> "query", text |-> <<>>, data |-> <<>>, state |-> "None", optionName |-> 0,
   options |-> <<>>, base64 |-> 0, base64Length |-> 0, vectorBegin |-> 0, vectorEnd |-> 0,
   estDimension |-> 0]

\* A space, or the end, at position iter.
EndOfWord(p, iter) ==
  CASE p.state = "Vector" ->
         [p EXCEPT !.estDimension = @ + 1, !.vectorEnd = iter]
    [] p.state = "VectorBase64" -> [p EXCEPT !.base64Length = iter - p.base64]
    [] OTHER -> p

\* One pass of the loop over the query.
ParseChar(c) ==
  /\ wire.kind = "query"
  /\ Len(wire.text) < MaxQuery
  /\ LET iter == Len(wire.text) + 1
         p == [wire EXCEPT !.text = Append(@, c), !.data = Append(@, c)]
     IN  wire' =
           CASE c = "_" -> [EndOfWord(p, iter) EXCEPT !.data[iter] = "0", !.state = "None"]
             [] c # "_" /\ p.state = "None" ->
                  CASE c = "$" -> [p EXCEPT !.state = "OptionNameBegin"]
                    [] c = "#" -> [p EXCEPT !.state = "VectorBase64", !.base64 = iter + 1]
                    [] OTHER -> [p EXCEPT !.state = "Vector", !.vectorBegin = iter]
             [] c # "_" /\ p.state = "OptionNameBegin" ->
                  [p EXCEPT !.optionName = iter, !.state = "OptionName"]
             [] c = ":" /\ p.state = "OptionName" ->
                  [p EXCEPT !.data[iter] = "0", !.state = "OptionValueBegin"]
             [] c # "_" /\ p.state = "OptionValueBegin" ->
                  [p EXCEPT !.state = "OptionValue",
                            !.options = Append(@, <<p.optionName, iter>>)]
             [] c = "|" /\ p.state = "Vector" ->
                  [p EXCEPT !.estDimension = @ + 1, !.data[iter] = "0"]
             [] OTHER -> p

\* The C string at a position of the data.
StringAt(data, pos) ==
  LET ends == {i \in pos .. Len(data) : data[i] = "0"}
  IN  SubSeq(data, pos, (IF ends = {} THEN Len(data) + 1 ELSE Min(ends)) - 1)

\* The loop over the string of the vector: strings between terminators.
ElementsIn(data, begin, end) ==
  LET starts == {i \in begin .. end - 1 :
                   data[i] # "0" /\ (i = begin \/ data[i - 1] = "0")}
  IN  [k \in 1 .. Cardinality(starts) |->
         StringAt(data, CHOOSE i \in starts :
                          Cardinality({j \in starts : j < i}) = k - 1)]

\* What Parse has found when the query ends here.
Parsed ==
  LET p == EndOfWord(wire, Len(wire.text) + 1)
      elements == IF p.vectorBegin = 0 \/ p.estDimension = 0 THEN <<>>
                  ELSE ElementsIn(p.data, p.vectorBegin, p.vectorEnd)
  IN  [ok |-> p.vectorBegin = 0 \/ p.estDimension = 0 \/ elements # <<>>,
       elements |-> elements,
       options |-> [i \in DOMAIN p.options |-> <<StringAt(p.data, p.options[i][1]),
                                                 StringAt(p.data, p.options[i][2])>>],
       base64 |-> IF p.base64 = 0 THEN <<>>
                  ELSE SubSeq(p.data, p.base64, p.base64 + p.base64Length - 1)]

(***************************************************************************)
(* SearchExecutor: one QueryResult is used for all the selected indexes.    *)
(***************************************************************************)
NoResult == [VID |-> -1, Dist |-> MaxDistance]

Execution(names, vector) ==
  [kind |-> "execute", at |-> "select", names |-> names, vector |-> vector,
   selected |-> <<>>, first |-> NoResult, query |-> <<NoResult, NoResult>>,
   results |-> <<>>]

\* SelectIndex: the named ones that are served; without names, the only one.
SelectIndex ==
  /\ wire.kind = "execute" /\ wire.at = "select"
  /\ LET served(name) == name \in DOMAIN Served
     IN  wire' = [wire EXCEPT
           !.at = "extract",
           !.selected = IF wire.names # <<>> THEN SelectSeq(wire.names, served)
                        ELSE IF Cardinality(DOMAIN Served) = 1
                        THEN <<CHOOSE name \in DOMAIN Served : TRUE>>
                        ELSE <<>>]

\* ExtractVector for the first index, and the test of its dimension.
ExtractVector ==
  /\ wire.kind = "execute" /\ wire.at = "extract"
  /\ LET first == Served[wire.selected[1]]
     IN  wire' = IF /\ wire.selected # <<>>
                    /\ first.type \in wire.vector.types
                    /\ wire.vector.dim = first.dim
                 THEN [wire EXCEPT !.at = "search", !.first = first]
                 ELSE [wire EXCEPT !.at = "end"]

\* The mutant Reset that does nothing.
ResetResults_Not(results) == results

\* QueryResult::Reset
ResetResults(results) == [i \in DOMAIN results |-> NoResult]

\* A search puts the points of the index into the results, nearest first.
WithPoints(results, points) ==
  LET before(r, s) == r.Dist < s.Dist \/ (r.Dist = s.Dist /\ r.VID < s.VID)
  IN  SubSeq(SortSeq(results \o points, before), 1, Len(results))

\* One pass of the loop over the selected indexes. An index of another type or
\* dimension than the first is passed over; a search that fails leaves points in
\* the query and adds no results (AddResults copies them).
SearchNext ==
  /\ wire.kind = "execute" /\ wire.at = "search" /\ wire.selected # <<>>
  /\ LET name == Head(wire.selected)
         index == Served[name]
         found == WithPoints(ResetResults(wire.query), index.points)
         rest == [wire EXCEPT !.selected = Tail(@)]
     IN  IF index.type # wire.first.type \/ index.dim # wire.first.dim
         THEN wire' = rest
         ELSE \/ wire' = [rest EXCEPT
                            !.query = found,
                            !.results = Append(@, [name |-> name, found |-> found])]
              \/ wire' = [rest EXCEPT !.query = found]

(***************************************************************************)
(* The specification.                                                       *)
(***************************************************************************)
WireInit ==
  \/ \E b \in Blobs : wire = Base64(b)
  \/ \E q \in Queries, m \in MajorVersions : wire = Packet("query", q, m)
  \/ \E r \in Results, m \in MajorVersions : wire = Packet("result", r, m)
  \/ wire = Parsing
  \/ \E names \in Names, v \in Vectors : wire = Execution(names, v)

WireNext ==
  \/ EncodeGroup \/ EncodeTail \/ DecodeGroup \/ DecodeTail
  \/ SendPacket \/ ReceivePacket
  \/ \E c \in Alphabet : ParseChar(c)
  \/ SelectIndex \/ ExtractVector \/ SearchNext

(***************************************************************************)
(* Properties.                                                              *)
(***************************************************************************)
\* A vector survives base 64, whatever its length is modulo 3, within the space
\* set aside for it; a query or a result set survives its packet, within the
\* space estimated for it, and a reader of another major version refuses it
\* (Base64Encode.cpp, Packet.cpp, RemoteSearchQuery.cpp).
RoundTrip ==
  /\ wire.kind = "base64" =>
       /\ Len(wire.text) <= CapacityForEncode(Len(wire.bytes))
       /\ Len(wire.out) <= CapacityForDecode(Len(wire.text))
       /\ wire.at = "end" => wire.ok /\ wire.out = wire.bytes
  /\ wire.kind = "packet" =>
       /\ wire.at # "send" => Len(wire.sent) = HeaderSize + wire.capacity
       /\ wire.at = "end" => wire.got = IF wire.major = 1 THEN wire.content ELSE Refused

\* The words of a query, in order, as <<first, last>> positions.
WordsOf(text) ==
  LET first(i) == text[i] # "_" /\ (i = 1 \/ text[i - 1] = "_")
      last(i) == Min({j \in i .. Len(text) : j = Len(text) \/ text[j + 1] = "_"})
  IN  [k \in 1 .. Cardinality({i \in DOMAIN text : first(i)}) |->
         LET i == CHOOSE i \in DOMAIN text :
                    first(i) /\ Cardinality({j \in 1 .. i : first(j)}) = k
         IN  SubSeq(text, i, last(i))]

\* The pieces of a word between separators, without the empty ones. The first
\* character of a word is never taken for a separator.
PiecesOf(word) ==
  LET separator(i) == i > 1 /\ word[i] = "|"
      in(i, j) == /\ i <= j
                  /\ \A k \in i .. j : ~separator(k)
                  /\ i = 1 \/ separator(i - 1)
                  /\ j = Len(word) \/ separator(j + 1)
      starts == {i \in DOMAIN word : \E j \in DOMAIN word : in(i, j)}
      nth(k) == CHOOSE i \in starts : Cardinality({j \in starts : j <= i}) = k
  IN  [k \in 1 .. Cardinality(starts) |->
         SubSeq(word, nth(k), CHOOSE j \in DOMAIN word : in(nth(k), j))]

\* Whatever the order of its words, a query is understood as its options, each
\* with the name and the value that are written in one word, its last base 64
\* vector, and the elements of its last plain vector, never none. And each result set of an answer holds the nearest
\* vectors of the index it names and of no other, after a failed search too
\* (QueryParser.cpp Parse, SearchExecutor.cpp).
QueryUnderstood ==
  /\ wire.kind = "query" =>
       LET words == WordsOf(wire.text)
           option(w) == w[1] = "$" /\ \E i \in 3 .. Len(w) - 1 : w[i] = ":"
           base64(w) == w[1] = "#"
           vector(w) == w[1] \notin {"$", "#"}
           colon(w) == Min({i \in 3 .. Len(w) : w[i] = ":"})
           options == SelectSeq(words, option)
           base64s == SelectSeq(words, base64)
           vectors == SelectSeq(words, vector)
       IN  /\ Parsed.options =
                [i \in DOMAIN options |->
                   <<SubSeq(options[i], 2, colon(options[i]) - 1),
                     SubSeq(options[i], colon(options[i]) + 1, Len(options[i]))>>]
           /\ Parsed.base64 = IF base64s = <<>> THEN <<>> ELSE Tail(base64s[Len(base64s)])
           /\ Parsed.elements =
                IF vectors = <<>> THEN <<>> ELSE PiecesOf(vectors[Len(vectors)])
           /\ Parsed.ok
  /\ wire.kind = "execute" =>
       \A i \in DOMAIN wire.results :
         wire.results[i].found =
           WithPoints(<<NoResult, NoResult>>, Served[wire.results[i].name].points)

\* What one process writes another reads as it was meant: vectors, packets,
\* queries and answers (Base64Encode.cpp, Packet.cpp, RemoteSearchQuery.cpp,
\* QueryParser.cpp, SearchExecutor.cpp).
MessagesUnderstood == RoundTrip /\ QueryUnderstood
=============================================================================
