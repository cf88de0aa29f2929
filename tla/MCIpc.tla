------------------------------- MODULE MCIpc --------------------------------
(* Ipc with three processes besides a free PCB: the SSI, test and a child. *)
EXTENDS Ipc

MCLoad == [op : {"DOIO", "DATA"}]
=============================================================================
