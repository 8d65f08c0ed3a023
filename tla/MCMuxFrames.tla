---------------------------- MODULE MCMuxFrames -------------------------------
(* MuxFrames with bytes of three values: a message, one of two bytes, one that *)
(* does not decode, an empty one and one of more than MaxFrameBytes = 3. *)
EXTENDS MuxFrames

MCMessages == {<<1>>, <<1, 2>>, <<0, 1, 1>>, <<>>, <<1, 0, 1, 1>>}
=============================================================================
