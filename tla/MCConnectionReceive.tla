------------------------ MODULE MCConnectionReceive ------------------------
(***************************************************************************)
(* Two messages interleaved the way PacketQueue's channels interleave      *)
(* them: a three-part one and a two-part one.                              *)
(***************************************************************************)
EXTENDS ConnectionReceive

Part(m, p, l) == [msg |-> m, part |-> p, last |-> l]

TwoMessages ==
    <<Part(1, 0, FALSE), Part(2, 0, FALSE), Part(1, 1, FALSE), Part(2, 1, TRUE), Part(1, 2, TRUE)>>
=============================================================================
