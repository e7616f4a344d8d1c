------------------------ MODULE MCNetworkReplyHandler ------------------------
(* An instance of NetworkReplyHandler for model checking. *)
EXTENDS NetworkReplyHandler
=============================================================================
