-------------------------- MODULE MCContextualRouter --------------------------
EXTENDS ContextualRouter, TLC

CONSTANTS One, In, Out, k, i1, i2, i3

\* Takes packets and pushes as it gets its pusher.
Single ==
  [group |-> FALSE, interfaces |-> <<One>>, pathables |-> {One},
   sources |-> {One}, eager |-> {One}, single |-> {}]

\* A group with one interface for packets and one that is a source too.
Quiet ==
  [group |-> TRUE, interfaces |-> <<In, Out>>, pathables |-> {In, Out},
   sources |-> {Out}, eager |-> {}, single |-> {}]

\* A group whose source pushes at once, while the rest is not in place.
Eager == [Quiet EXCEPT !.interfaces = <<Out, In>>, !.eager = {Out}]

\* A group like TCP's, two of whose interfaces share one context.
Sharing ==
  [Quiet EXCEPT !.interfaces = <<In, Out, One>>, !.pathables = {In, One},
                !.sources = {One}, !.single = {In, Out}]

AllTypes == {Single, Quiet, Eager, Sharing}
QuietTypes == {Quiet}

\* One context has the name of an interface.
SomeContexts == {k, In}

InstanceSymmetry == Permutations(Instances)
=============================================================================
