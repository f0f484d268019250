---------------------------- MODULE MCByteOwnership ----------------------------
(* ByteOwnership on small instances. *)
EXTENDS ByteOwnership

\* A scratch buffer is safe with a stream that never pulls ahead ...
SafeSources == {[scratch |-> FALSE, highWater |-> 0], [scratch |-> FALSE, highWater |-> 1],
                [scratch |-> TRUE, highWater |-> 0]}

\* ... and a stream pulls ahead unless it is told not to.
AnySource == [scratch : BOOLEAN, highWater : 0..1]
===============================================================================
