---------------------------- MODULE MCRequestPath ----------------------------
(* Bytes of four values, so that lengths from 4 up use the upper byte. *)
EXTENDS RequestPath

MCMessages == {<<>>, <<0>>, <<3, 1, 3>>, <<0, 1, 2, 3>>, <<3, 0, 2, 3, 1, 0>>}
MCShort == {<<0>>, <<3, 1, 3>>}
=============================================================================
