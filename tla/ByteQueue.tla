------------------------------ MODULE ByteQueue ------------------------------
(***************************************************************************)
(* What IoBuffer (src/pw/pw_iobuffer.{h,cpp}) promises: bytes come out in  *)
(* the order they went in, none is lost, made up or doubled.               *)
(***************************************************************************)
EXTENDS Naturals, Sequences

CONSTANT Byte

VARIABLE queue

Init == queue = <<>>

\* bytes are added behind what there is
Write ==
    /\ queue' \in Seq(Byte)
    /\ Len(queue') >= Len(queue)
    /\ SubSeq(queue', 1, Len(queue)) = queue

Read == \E n \in 0..Len(queue) : queue' = SubSeq(queue, n + 1, Len(queue))

Clear == queue' = <<>>

Next == Write \/ Read \/ Clear

Spec == Init /\ [][Next]_queue
=============================================================================
