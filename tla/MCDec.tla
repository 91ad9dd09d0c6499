------------------------------- MODULE MCDec --------------------------------
(***************************************************************************)
(* Small streams for the decoder: a picture that cannot be used, more      *)
(* pictures than slots, an info change in the middle, and both ways to end *)
(* a stream, a flag on a picture and an empty packet.                      *)
(***************************************************************************)
EXTENDS MppDec

Picture(k, f) == [kind |-> k, fmt |-> f, last |-> FALSE]
EmptyEos      == [kind |-> "eos", fmt |-> 0, last |-> TRUE]

LastPicture(k, f) == [kind |-> k, fmt |-> f, last |-> TRUE]

DecodeStream ==
    <<Picture("P", 1), Picture("I", 1), Picture("P", 1), Picture("P", 1), Picture("P", 1),
      LastPicture("I", 2), EmptyEos>>
ResetStream == <<Picture("I", 1), LastPicture("P", 1), Picture("I", 2)>>

ShortStream == <<Picture("P", 1), Picture("I", 1), Picture("P", 1), LastPicture("I", 2), EmptyEos>>

Decode == [stream |-> DecodeStream, buffers |-> 2, resets |-> 0]
Ample  == [stream |-> ShortStream, buffers |-> 3, resets |-> 0]
Reset  == [stream |-> ResetStream, buffers |-> 2, resets |-> 1]

MCDecode == {Decode}
MCReset  == {Reset}
MCAll    == {Decode, Ample, Reset}
=============================================================================
