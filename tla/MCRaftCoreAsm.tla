---------------------------- MODULE MCRaftCoreAsm ----------------------------
(* RaftCoreAsm with model values for the contexts. *)
EXTENDS RaftCoreAsm
=============================================================================
