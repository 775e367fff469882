--------------------------- MODULE BufferAccumulator ---------------------------
(***************************************************************************)
(* The buffer accumulator (src/nodes/BufferAccumulatorNode.cpp): three     *)
(* interfaces over one vector of buffers, all in one thread group.  The    *)
(* i-th buffer of every packet is collected in the i-th buffer kept, which *)
(* grows when it must and is kept, with what it held, when it is cleared.  *)
(***************************************************************************)
EXTENDS Naturals, Sequences

CONSTANT Junk  \* a byte nothing was written to

VARIABLES
  buffers,  \* mBuffers: the memory of each buffer, and usedByteCount
  sent      \* history: what was sent, with the request it was sent for

accumulatorVars == <<buffers, sent>>

Fresh(length) == [i \in 1..length |-> Junk]

\* memcpy() of bytes into memory, from an offset.
Written(memory, offset, bytes) ==
  [i \in DOMAIN memory |->
     IF i \in offset + 1 .. offset + Len(bytes) THEN bytes[i - offset] ELSE memory[i]]

\* A fault: the memory is compared with what is new alone.
AppendedInPlace(kept, bytes) ==
  [memory |-> IF Len(kept.memory) < Len(bytes)
              THEN bytes
              ELSE Written(kept.memory, kept.used, bytes),
   used |-> kept.used + Len(bytes)]

\* One buffer kept, after bytes were appended to it.
Appended(kept, bytes) ==
  LET needed == kept.used + Len(bytes)
      memory == IF Len(kept.memory) < needed
                THEN Written(Fresh(needed), 0, kept.memory)
                ELSE kept.memory
  IN  [memory |-> Written(memory, kept.used, bytes), used |-> needed]

AccumulatorInit ==
  /\ buffers = <<>>
  /\ sent = <<>>

AppendBuffers(incoming) ==
  /\ buffers' =
       [i \in 1..(IF Len(buffers) > Len(incoming) THEN Len(buffers) ELSE Len(incoming)) |->
          CASE i > Len(incoming) -> buffers[i]
            [] i > Len(buffers) ->
                 Appended([memory |-> Fresh(Len(incoming[i])), used |-> 0], incoming[i])
            [] OTHER -> Appended(buffers[i], incoming[i])]
  /\ UNCHANGED sent

\* On "Buffers Ready": a copy of what is used of each buffer.
SendAccumulatedBuffers(request) ==
  /\ sent' = Append(sent,
               [request |-> request,
                buffers |-> [i \in DOMAIN buffers |->
                               SubSeq(buffers[i].memory, 1, buffers[i].used)]])
  /\ UNCHANGED buffers

\* A fault: a cleared buffer keeps count of its bytes.
ClearNothing == UNCHANGED accumulatorVars

ClearBuffers ==
  /\ buffers' = [i \in DOMAIN buffers |-> [buffers[i] EXCEPT !.used = 0]]
  /\ UNCHANGED sent
=============================================================================
