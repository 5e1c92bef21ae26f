----------------------------- MODULE MCReceiver -----------------------------
(***************************************************************************)
(* A stream for model checking Receiver, behind a response of 3 bytes in a *)
(* ring of 8: no frame straddles the end of the ring, and the stream goes  *)
(* around it more than twice.                                              *)
(***************************************************************************)
EXTENDS Receiver

FittingStarts == <<0, 3, 5, 8, 10, 13, 17, 19>>
FittingOpcodes == <<"TEXT", "PING", "TEXT", "PONG", "BINARY", "CONT", "CLOSE">>

(* Records that end with a frame, within one, and after several.           *)
FittingRecords == {3, 6, 10, 17, 19}

ASSUME FittingStream == Fitting
=============================================================================
