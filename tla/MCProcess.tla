----------------------------- MODULE MCProcess ------------------------------
(***************************************************************************)
(* Instances of ClientProcess for TLC.                                     *)
(***************************************************************************)
EXTENDS ClientProcess

MCSenders == {"main", "console"}
MCLast == {Messages}
=============================================================================
