------------------------------- MODULE MCPod --------------------------------
(* A pod with two processes and one rule interval for TLC.                 *)
EXTENDS Pod

CONSTANTS etch, diff

MCProcess == {etch, diff}
MCInterval == {5}
=============================================================================
