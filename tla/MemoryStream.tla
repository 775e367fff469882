----------------------------- MODULE MemoryStream -----------------------------
(***************************************************************************)
(* MemoryStream (src/MemoryStream.cpp): bytes spread over a sequence of    *)
(* buffers, read and searched as if they were contiguous.  A stream is the *)
(* sequence mBuffers, a buffer the sequence of its bytes; offsets start at *)
(* 0 as they do in the code, so the byte at k of a buffer b is b[k + 1].   *)
(* Buffers share their memory in the code; nothing here writes to it.      *)
(***************************************************************************)
EXTENDS Naturals, Sequences, SequencesExt

CONSTANT SizeMax  \* SIZE_MAX, beyond every size; arithmetic on sizes wraps at it

ASSUME SizeMaxAssumption == SizeMax \in Nat

NotFound == SizeMax

Less(a, b) == IF a < b THEN a ELSE b

\* Buffer::slice(): an offset at or past the end gives the empty buffer.
Slice(buffer, offset, length) ==
  IF offset >= Len(buffer)
  THEN <<>>
  ELSE SubSeq(buffer, offset + 1, offset + Less(length, Len(buffer) - offset))

AppendBuffer(stream, buffer) ==
  IF buffer = <<>> THEN stream ELSE Append(stream, buffer)

Flat(stream) == FlattenSeq(stream)

\* The bytes of the buffers before the i-th.
LengthBefore(stream, i) ==
  LET before[j \in 1..Len(stream) + 1] ==
        IF j = 1 THEN 0 ELSE before[j - 1] + Len(stream[j - 1])
  IN  before[i]

Size(stream) == LengthBefore(stream, Len(stream) + 1)

\* The buffer the byte at offset k is in, and its place there.
FindIndex(stream, k) ==
  CHOOSE at \in [buffer : DOMAIN stream, offset : 0..k] :
    /\ LengthBefore(stream, at.buffer) + at.offset = k
    /\ at.offset < Len(stream[at.buffer])

ByteAt(stream, k) ==
  LET at == FindIndex(stream, k)
  IN  stream[at.buffer][at.offset + 1]

\* The slices of a stream from one place in it to another.
SlicesBetween(stream, first, last) ==
  [n \in 1..(last.buffer - first.buffer + 1) |->
     LET i    == first.buffer + n - 1
         from == IF i = first.buffer THEN first.offset ELSE 0
         to   == IF i = last.buffer THEN last.offset + 1 ELSE Len(stream[i])
     IN  Slice(stream[i], from, to - from)]

\* The slices visitBuffers() hands to its callback, in order.
VisitBuffers(stream, start, end) ==
  LET stop == Less(end, Size(stream))
  IN  IF start >= stop
      THEN <<>>
      ELSE SlicesBetween(stream, FindIndex(stream, start), FindIndex(stream, stop - 1))

\* The stream that slices make, appended one by one.
Appending(slices) ==
  LET stream[i \in 0..Len(slices)] ==
        IF i = 0 THEN <<>> ELSE AppendBuffer(stream[i - 1], slices[i])
  IN  stream[Len(slices)]

SubStream(stream, start, end) == Appending(VisitBuffers(stream, start, end))

FirstWith(byte, slices) == SelectInSeq(slices, LAMBDA slice : byte \in ToSet(slice))

FirstIn(byte, slice) == SelectInSeq(slice, LAMBDA b : b = byte) - 1

\* A fault: the place in the slice is taken for one in the stream.
PlaceInSlice(byte, slices, i) ==
  IF i = 0 THEN NotFound ELSE FirstIn(byte, slices[i])

\* The place in the slices of the first byte, which is in the i-th.
Place(byte, slices, i) ==
  IF i = 0 THEN NotFound ELSE LengthBefore(slices, i) + FirstIn(byte, slices[i])

\* memchr() in one slice after the other.
FirstIndexOfByte(stream, byte, start, end) ==
  LET slices == VisitBuffers(stream, start, end)
      place  == Place(byte, slices, FirstWith(byte, slices))
  IN  IF place = NotFound THEN NotFound ELSE start + place

Equals(stream, data, offset) ==
  /\ offset + Len(data) <= Size(stream)
  /\ \A i \in DOMAIN data : data[i] = ByteAt(stream, offset + i - 1)

\* Starts from `start` for the first byte; the rest may lie past `end`.
FirstIndexOf(stream, pattern, start, end) ==
  LET search[k \in Nat] ==
        LET candidate == FirstIndexOfByte(stream, Head(pattern), k, end)
        IN  IF candidate = NotFound \/ Equals(stream, Tail(pattern), candidate + 1)
            THEN candidate
            ELSE search[k + 1]
  IN  IF pattern = <<>> THEN 0 ELSE search[start]

\* Offsets of bytes (not) in a set, between two offsets; the searches of such
\* a byte return the first or the last.
OffsetsWhere(stream, Test(_), start, end) ==
  {k \in start..Size(stream) : k < Less(end, Size(stream)) /\ Test(ByteAt(stream, k))}

FirstOffset(offsets) ==
  IF offsets = {} THEN NotFound ELSE CHOOSE k \in offsets : \A j \in offsets : k <= j

LastOffset(offsets) ==
  IF offsets = {} THEN NotFound ELSE CHOOSE k \in offsets : \A j \in offsets : k >= j

FirstIndexOfAnyInSet(stream, set, start, end) ==
  FirstOffset(OffsetsWhere(stream, LAMBDA b : b \in set, start, end))

LastIndexOfAnyInSet(stream, set, start, end) ==
  LastOffset(OffsetsWhere(stream, LAMBDA b : b \in set, start, end))

FirstIndexNotOfAnyInSet(stream, set, start, end) ==
  FirstOffset(OffsetsWhere(stream, LAMBDA b : b \notin set, start, end))

LastIndexNotOfAnyInSet(stream, set, start, end) ==
  LastOffset(OffsetsWhere(stream, LAMBDA b : b \notin set, start, end))

\* The streams between separators; the last of maxTokens takes all the rest.
\* An empty separator would never end.
Split(stream, separator, maxTokens) ==
  LET size == Size(stream)
      from[at \in (0..size) \X Nat] ==
        LET start == at[1]
            index == at[2]
            end   == IF index = maxTokens - 1
                     THEN size
                     ELSE Less(size, FirstIndexOf(stream, separator, start, size))
        IN  <<SubStream(stream, start, end)>>
            \o (IF end = size THEN <<>> ELSE from[<<end + Len(separator), index + 1>>])
  IN  from[<<0, 0>>]

Whitespace == {" ", "\r", "\n", "\t"}

Trim(stream) ==
  LET first == FirstIndexNotOfAnyInSet(stream, Whitespace, 0, SizeMax)
      last  == LastIndexNotOfAnyInSet(stream, Whitespace, 0, SizeMax)
  IN  IF first = NotFound THEN <<>> ELSE SubStream(stream, first, last + 1)

\* The bytes read() copies into a buffer of the given length.
Read(stream, offset, count, bufferLength) ==
  LET available == IF offset + count > Size(stream)
                   THEN (Size(stream) + SizeMax + 1 - offset) % (SizeMax + 1)
                   ELSE count
  IN  Flat(VisitBuffers(stream, offset, offset + Less(available, bufferLength)))
=============================================================================
