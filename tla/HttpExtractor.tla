----------------------------- MODULE HttpExtractor -----------------------------
(***************************************************************************)
(* The HTTP request extractor (src/nodes/HttpRequestExtractor.cpp, and     *)
(* HttpResponseExtractor.cpp, which has the same steps): it is given what  *)
(* TCP received, cut anywhere, collects it until the headers are complete, *)
(* announces them and passes the rest on as body data.  It knows no end of *)
(* a request but its own destruction, with the connection: mBodyLength is  *)
(* never assigned, so the branches for a known length are dead.            *)
(*                                                                         *)
(* One connection follows another, each with an extractor of its own, made *)
(* by the contextual router.  A push may throw, as those of a node to a    *)
(* handler in its own thread group do.                                     *)
(***************************************************************************)
EXTENDS MemoryStream

CONSTANTS
  Texts,        \* what the first peer may send over its connection,
  LaterTexts,   \* and those after it: bounds
  MaxPieces,    \* pieces TCP cuts a text into: a bound
  MaxRequests,  \* connections, one after the other: a bound
  MaxThrows     \* pushes that throw: a bound

Byte == {"\r", "\n"} \cup UNION {ToSet(t) : t \in Texts \cup LaterTexts}

ASSUME TextsAssumption ==
  \A t \in Texts \cup LaterTexts : t \in Seq(Byte) /\ Len(t) < SizeMax

ASSUME BoundsAssumption ==
  MaxPieces \in Nat /\ MaxRequests \in Nat /\ MaxThrows \in Nat

VARIABLES
  request,      \* mRequestId, and the connection
  text,         \* what the peer sends over it
  received,     \* how much of it was received,
  pieces,       \* in how many pieces
  headerData,   \* mHeaderData
  sentHeaders,  \* mSentHeaders
  throws,       \* pushes that have thrown
  told          \* history: the packets pushed

peer == <<request, text, received, pieces>>
extractorVars == <<peer, headerData, sentHeaders, throws, told>>

CrLf == <<"\r", "\n">>
DoubleCrLf == CrLf \o CrLf

\* Stands for the bytes of a whole header field in a text.
ContentLengthField == "content-length: 1"

Channels == {"New Request", "Body Data", "Request Ended", "error"}

Packet(what, bytes) == [request |-> request, what |-> what, bytes |-> bytes]

\* What createHeaderPacket() parses the header fields from: the stream is
\* assigned for every line but the first, so the last one is what is left.
LastLine(lines) == IF Len(lines) = 1 THEN <<>> ELSE Last(lines)
HeaderLine(headers) == LastLine(Split(headers, CrLf, SizeMax))

\* The value of the field is a string: get<uint64_t>() throws.
IsContentLength(field) == field # <<>> /\ ByteAt(field, 0) = ContentLengthField
HasContentLength(headers) == IsContentLength(Trim(HeaderLine(headers)))

\* A fault: half of what ends the headers is skipped.
BodyInLastEarly(piece, end) ==
  Slice(piece, (end + Len(CrLf) + SizeMax + 1 - Size(headerData)) % (SizeMax + 1), SizeMax)

\* A fault: the offset in the stream is taken for one in the last piece.
BodyInLastOfStream(piece, end) == Slice(piece, end + Len(DoubleCrLf), SizeMax)

\* The part of the last piece that belongs to the body; the offset wraps if
\* the headers had ended before it.
BodyInLast(piece, end) ==
  Slice(piece,
        (end + Len(DoubleCrLf) + SizeMax + 1 - Size(headerData)) % (SizeMax + 1),
        SizeMax)

Init ==
  /\ request = 1
  /\ text \in Texts
  /\ received = 0
  /\ pieces = 0
  /\ headerData = <<>>
  /\ sentHeaders = FALSE
  /\ throws = 0
  /\ told = <<>>

-----------------------------------------------------------------------------
(* handlePacket(), with a piece of the text.  An exception ends in a packet  *)
(* on the error channel.                                                     *)

Tell(packets) == told' = told \o packets

\* One push of the handler throws.
Throws ==
  /\ throws < MaxThrows
  /\ throws' = throws + 1
  /\ Tell(<<Packet("error", <<>>)>>)

BodyPiece(piece) ==
  /\ sentHeaders
  /\ \/ Tell(<<Packet("Body Data", piece)>>) /\ UNCHANGED throws
     \/ Throws
  /\ UNCHANGED <<headerData, sentHeaders>>

\* From here on, data is the header data with the piece, and end where the
\* headers end in it.
HeaderPiece(data, end) ==
  /\ end = NotFound
  /\ headerData' = data
  /\ UNCHANGED <<sentHeaders, throws, told>>

\* The headers are complete and have a length: every piece from now on will
\* be appended, and end here too.
UnreadableHeaders(data, end) ==
  /\ end # NotFound
  /\ HasContentLength(SubStream(data, 0, end))
  /\ headerData' = data
  /\ Tell(<<Packet("error", <<>>)>>)
  /\ UNCHANGED <<sentHeaders, throws>>

\* A fault: the headers count as sent before they are.
HeadersCompleteEarly(piece, data, end) ==
  /\ end # NotFound
  /\ ~HasContentLength(SubStream(data, 0, end))
  /\ \/ /\ Tell(<<Packet("New Request", <<>>)>>)
        /\ UNCHANGED throws
     \/ Throws
  /\ headerData' = data
  /\ sentHeaders' = TRUE

\* The headers are announced, and what came with their end is passed on; the
\* header data is kept when one of the pushes throws.
HeadersComplete(piece, data, end) ==
  LET headers == SubStream(data, 0, end)
      announcement == Packet("New Request", Flat(HeaderLine(headers)))
      body == IF Size(data) > end + Len(DoubleCrLf)
              THEN <<Packet("Body Data", BodyInLast(piece, end))>>
              ELSE <<>>
  IN  /\ end # NotFound
      /\ ~HasContentLength(headers)
      /\ \/ /\ Tell(<<announcement>> \o body)
            /\ headerData' = <<>>
            /\ sentHeaders' = TRUE
            /\ UNCHANGED throws
         \/ /\ Throws
            /\ headerData' = data
            /\ UNCHANGED sentHeaders
         \/ /\ body # <<>>
            /\ throws < MaxThrows
            /\ throws' = throws + 1
            /\ Tell(<<announcement, Packet("error", <<>>)>>)
            /\ headerData' = data
            /\ sentHeaders' = TRUE

Receive ==
  /\ pieces < MaxPieces
  /\ pieces' = pieces + 1
  /\ \E n \in 1..(Len(text) - received) :
       LET piece == SubSeq(text, received + 1, received + n)
           data  == AppendBuffer(headerData, piece)
           end   == FirstIndexOf(data, DoubleCrLf, 0, SizeMax)
       IN  /\ received' = received + n
           /\ \/ BodyPiece(piece)
              \/ /\ ~sentHeaders
                 /\ \/ HeaderPiece(data, end)
                    \/ UnreadableHeaders(data, end)
                    \/ HeadersComplete(piece, data, end)
           /\ UNCHANGED <<request, text>>

NextTexts == IF request = MaxRequests THEN {<<>>} ELSE LaterTexts

\* The connection is closed: the router removes the context, the destructor
\* ends a request that was announced, and the next connection has a new
\* extractor.
Destroy ==
  /\ request <= MaxRequests
  /\ Tell(IF sentHeaders THEN <<Packet("Request Ended", <<>>)>> ELSE <<>>)
  /\ request' = request + 1
  /\ text' \in NextTexts
  /\ received' = 0
  /\ pieces' = 0
  /\ headerData' = <<>>
  /\ sentHeaders' = FALSE
  /\ UNCHANGED throws

ExtractorNext == Receive \/ Destroy
=============================================================================
