---------------------------- MODULE MCFrameQueue ----------------------------
(* Small instances of FrameQueue for TLC. *)
EXTENDS FrameQueue, TLC

AllFrames == PFrame

\* The fetchers are interchangeable, and so are the buffers (safety runs only).
FetcherSymmetry == Permutations(Fetchers) \union Permutations(Buffers)
=============================================================================
