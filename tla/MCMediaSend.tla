---------------------------- MODULE MCMediaSend -----------------------------
(***************************************************************************)
(* Payloads of four bytes: an IDR picture with its parameter sets makes    *)
(* five packets, of which three are fragments; other pictures make one or  *)
(* two.  A parameter set follows a start code of three bytes.              *)
(***************************************************************************)
EXTENDS MediaSend

MCIdrUnit == <<0, 0, 0, 1, 103, 66, 0, 0, 1, 104, 206, 0, 0, 0, 1, 101, 136, 132, 0, 33, 255>>
MCSliceUnits == {<<0, 0, 0, 1, 65, 154>>, <<0, 0, 0, 1, 65, 155, 2, 0, 9>>}
=============================================================================
