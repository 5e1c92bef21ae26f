----------------------------- MODULE MCStraddle -----------------------------
(***************************************************************************)
(* A stream whose second frame straddles the end of the ring: Receiver     *)
(* without the first condition of Fitting.                                 *)
(***************************************************************************)
EXTENDS Receiver

StraddlingStarts == <<0, 3, 7>>
StraddlingOpcodes == <<"TEXT", "TEXT">>
StraddlingRecords == {3, 7}
=============================================================================
