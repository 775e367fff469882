----------------------------- MODULE HttpReceiving -----------------------------
(***************************************************************************)
(* Extractors and an accumulator in another thread group, in one graph:    *)
(* the edges from the extractor are async, so its packets wait in a queue, *)
(* and are delivered in order.  A new request clears the accumulator, body *)
(* data is appended, and the end of the request sends what there is.       *)
(***************************************************************************)
EXTENDS HttpExtractor, BufferAccumulator

VARIABLE delivered  \* how many of the packets told were handled

vars == <<extractorVars, accumulatorVars, delivered>>

Handle(packet) ==
  CASE packet.what = "New Request"   -> ClearBuffers
    [] packet.what = "Body Data"     -> AppendBuffers(<<packet.bytes>>)
    [] packet.what = "Request Ended" -> SendAccumulatedBuffers(packet.request)
    [] packet.what = "error"         -> UNCHANGED accumulatorVars

Deliver ==
  /\ delivered < Len(told)
  /\ Handle(told[delivered + 1])
  /\ delivered' = delivered + 1
  /\ UNCHANGED extractorVars

InitAll == Init /\ AccumulatorInit /\ delivered = 0

Next ==
  \/ ExtractorNext /\ UNCHANGED <<accumulatorVars, delivered>>
  \/ Deliver

Spec == InitAll /\ [][Next]_vars

-----------------------------------------------------------------------------
(* What was told, and what a peer that sees the text whole would tell.       *)

PieceOf(packet, n, what) ==
  IF packet.request = n /\ packet.what = what THEN <<packet.bytes>> ELSE <<>>

PiecesIn(packets, n, what) ==
  FlattenSeq([i \in DOMAIN packets |-> PieceOf(packets[i], n, what)])

Pieces(n, what) == PiecesIn(told, n, what)

Got == SubSeq(text, 1, received)

Stream(bytes) == IF bytes = <<>> THEN <<>> ELSE <<bytes>>

\* Where the headers of some bytes end, by definition.
Ends(bytes) ==
  {k \in 0..Len(bytes) - 4 : SubSeq(bytes, k + 1, k + 4) = DoubleCrLf}

Complete == Ends(Got) # {}
HeadersEnd == CHOOSE k \in Ends(Got) : \A j \in Ends(Got) : k <= j
HeaderText == Stream(SubSeq(Got, 1, HeadersEnd))
Body == SubSeq(Got, HeadersEnd + 5, Len(Got))
Readable == Complete /\ ~HasContentLength(HeaderText)

IsSubsequence(a, b) ==
  \E at \in [DOMAIN a -> DOMAIN b] :
    /\ \A i \in DOMAIN a : a[i] = b[at[i]]
    /\ \A i, j \in DOMAIN a : i < j => at[i] < at[j]

-----------------------------------------------------------------------------
(***************************************************************************)
(* Types: header data is only a stream of nonempty buffers, and only what  *)
(* was told is delivered (mHeaderData, mBuffers).                          *)
(***************************************************************************)
TypeOK ==
  /\ request \in 1..MaxRequests + 1
  /\ text \in Texts \cup LaterTexts \cup {<<>>}
  /\ received \in 0..Len(text)
  /\ pieces \in 0..MaxPieces
  /\ \A i \in DOMAIN headerData : headerData[i] # <<>> /\ Size(headerData) <= received
  /\ sentHeaders \in BOOLEAN
  /\ throws \in 0..MaxThrows
  /\ \A i \in DOMAIN told : told[i].what \in Channels /\ told[i].request \in 1..request
  /\ delivered \in 0..Len(told)
  /\ \A i \in DOMAIN buffers : buffers[i].used \in 0..Len(buffers[i].memory)

(***************************************************************************)
(* However TCP cut the text, and as long as no push has thrown, exactly    *)
(* what follows the headers was passed on, and the headers were announced  *)
(* as they would have been from one buffer (handlePacket()); a request     *)
(* with a content length as its last header is never announced.            *)
(***************************************************************************)
CutDoesNotMatter ==
  throws = 0 =>
    /\ FlattenSeq(Pieces(request, "Body Data")) = IF Readable THEN Body ELSE <<>>
    /\ Pieces(request, "New Request") =
         IF Readable THEN <<Flat(HeaderLine(HeaderText))>> ELSE <<>>

(***************************************************************************)
(* Whatever throws, what is passed on as body data is of the body, in its  *)
(* order: a byte may get lost, but none of the headers and none twice      *)
(* (bodyStart - bufferSizeBeforeAppending).                                *)
(***************************************************************************)
BodyNeverStrays ==
  IsSubsequence(FlattenSeq(Pieces(request, "Body Data")), IF Readable THEN Body ELSE <<>>)

(***************************************************************************)
(* Whatever throws, a request is announced once, before its body, and      *)
(* ended once and last, if and only if it was announced and its connection *)
(* is closed (mSentHeaders).                                               *)
(***************************************************************************)
ToldInOrder ==
  \A n \in 1..request :
    LET order == [i \in DOMAIN told |-> <<told[i].request, told[i].what>>]
        At(what) == {i \in DOMAIN told : order[i] = <<n, what>>}
    IN  /\ \A i, j \in At("New Request") : i = j
        /\ \A i \in At("Body Data") : \E j \in At("New Request") : j < i
        /\ \A i \in At("Request Ended") : \A j \in DOMAIN told :
             told[j].request = n => j <= i
        /\ At("Request Ended") # {} <=> n < request /\ At("New Request") # {}

(***************************************************************************)
(* What the accumulator sends for a request is the body told for it: all   *)
(* of it, nothing of the request before, nothing that was never written    *)
(* (Append, Clear and Send on the same vector).                            *)
(***************************************************************************)
AccumulatedIsBody ==
  \A i \in DOMAIN sent :
    FlattenSeq(sent[i].buffers) = FlattenSeq(Pieces(sent[i].request, "Body Data"))

\* What is at offsets from a up to b, and the offsets of a pattern and of
\* bytes in a set.
Part(bytes, a, b) == SubSeq(bytes, a + 1, Less(b, Len(bytes)))
Found(p, bytes, a) == {k \in a..Len(bytes) : Part(bytes, k, k + Len(p)) = p}
Among(S, bytes, a, b) == {k \in a..b - 1 : bytes[k + 1] \in S}

PartsReadAs(stream, bytes) ==
  /\ \A k \in 0..Len(bytes) - 1 : ByteAt(stream, k) = bytes[k + 1]
  /\ \A a \in 0..Len(bytes) : \A b \in a..Len(bytes) + 1 :
       /\ Flat(SubStream(stream, a, b)) = Part(bytes, a, b)
       /\ Read(stream, a, b - a, 3) = Part(bytes, a, Less(b, a + 3))

SearchesReadAs(stream, bytes) ==
  \A a \in 0..Len(bytes) :
    /\ \A p \in {<<"x">>, CrLf, DoubleCrLf} :
         FirstIndexOf(stream, p, a, SizeMax) = FirstOffset(Found(p, bytes, a))
    /\ FirstIndexOfAnyInSet(stream, ToSet(CrLf), a, SizeMax)
         = FirstOffset(Among(ToSet(CrLf), bytes, a, Len(bytes)))
    /\ LastIndexOfAnyInSet(stream, ToSet(CrLf), 0, a)
         = LastOffset(Among(ToSet(CrLf), bytes, 0, a))

\* All the fields between separators, and at most two of them.
FieldsReadAs(fields, separator, bytes) ==
  /\ FlattenSeq([i \in DOMAIN fields |->
                   Flat(fields[i]) \o IF i < Len(fields) THEN separator ELSE <<>>]) = bytes
  /\ \A i \in DOMAIN fields : FirstIndexOf(fields[i], separator, 0, SizeMax) = NotFound

AtMostTwoReadAs(fields, separator, bytes) ==
  /\ Len(fields) <= 2
  /\ Len(fields) = 2 => Flat(fields[1]) \o separator \o Flat(fields[2]) = bytes

TrimReadsAs(trimmed, bytes) ==
  LET ink == {k \in DOMAIN bytes : bytes[k] \notin Whitespace}
  IN  trimmed = IF ink = {} THEN <<>>
                ELSE SubSeq(bytes, FirstOffset(ink), LastOffset(ink))

ReadsAs(stream, bytes) ==
  /\ PartsReadAs(stream, bytes)
  /\ SearchesReadAs(stream, bytes)
  /\ FieldsReadAs(Split(stream, CrLf, SizeMax), CrLf, bytes)
  /\ AtMostTwoReadAs(Split(stream, <<"x">>, 2), <<"x">>, bytes)
  /\ TrimReadsAs(Flat(Trim(stream)), bytes)

(***************************************************************************)
(* The header data reads as the bytes it is made of, however they are cut: *)
(* every part of it, every search, what is between separators, without the *)
(* white space around, and copied out (MemoryStream).                      *)
(***************************************************************************)
StreamsReadAsText == headerData # <<>> => ReadsAs(headerData, Flat(headerData))
=============================================================================
