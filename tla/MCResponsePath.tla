---------------------------- MODULE MCResponsePath ----------------------------
(* Bytes of three values: lengths from 3 up use the upper byte, and the messages    *)
(* are empty, shorter and longer than their swapped lengths.                        *)
EXTENDS ResponsePath

MCMessages == {<<>>, <<2>>, <<0, 1, 2>>, <<2, 0, 1, 1, 0, 2>>}
MCShort == {<<0>>, <<2, 1>>}
=============================================================================
