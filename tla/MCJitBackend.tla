---------------------------- MODULE MCJitBackend ----------------------------
(* Values for JitBackend's constants that a .cfg cannot write.                *)
EXTENDS JitBackend, TLC

CONSTANTS p1, p2, p3

Text == [kind |-> "text", field |-> FALSE, number |-> 0]
Blank == [Text EXCEPT !.kind = "blank"]
Length(n) == [kind |-> "length", field |-> TRUE, number |-> n]
Mention(n) == [kind |-> "length", field |-> FALSE, number |-> n]

\* p1 pipelines a request that fills the buffer to the NUL, a short one, and one that
\* is a unit too big and never completed.  p2's second head mentions a content-length
\* that is not the field of that name, and the number wraps to -12, before the buffer.
TwoStreams ==
  (p1 :> <<Length(1), Blank, Text, Blank, Length(2), Blank, Text>>) @@
  (p2 :> <<Blank, Mention(20), Blank>>)
TwoMeant ==
  (p1 :> <<[at |-> 0, head |-> 2, body |-> 1], [at |-> 3, head |-> 1, body |-> 0],
           [at |-> 4, head |-> 2, body |-> 2]>>) @@
  (p2 :> <<[at |-> 0, head |-> 1, body |-> 0], [at |-> 1, head |-> 2, body |-> 0]>>)

\* One or two requests each, which may never be completed; p2's needs the buffer to
\* grow.
ThreeStreams == (p1 :> <<Blank, Blank>>) @@ (p2 :> <<Text, Blank>>) @@ (p3 :> <<Blank>>)
ThreeMeant ==
  (p1 :> <<[at |-> 0, head |-> 1, body |-> 0], [at |-> 1, head |-> 1, body |-> 0]>>) @@
  (p2 :> <<[at |-> 0, head |-> 2, body |-> 0]>>) @@ (p3 :> <<[at |-> 0, head |-> 1, body |-> 0]>>)
=============================================================================
