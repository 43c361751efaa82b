---------------------------- MODULE MCClientScript ----------------------------
(* ClientScript with a header of 2 + 1 bytes and bodies of 3 and 4 bytes.     *)
EXTENDS ClientScript

MCBodySizes == {3, 4}
=============================================================================
