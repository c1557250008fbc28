---------------------------- MODULE MCRtspClient ----------------------------
(***************************************************************************)
(* Values of the constants for the runs of RtspClient that a .cfg cannot   *)
(* write: the timeout= parameter of the server's answers (-1: none).       *)
(***************************************************************************)
EXTENDS RtspClient

MCNoTimeout   == {-1}
MCAnyTimeout  == {-1, 30}
=============================================================================
