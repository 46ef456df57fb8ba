------------------------------- MODULE MCRelay -------------------------------
(* Two callers of the same prompt; at most one of them wants a single answer. *)
EXTENDS Relay

CONSTANTS c1, c2

MCCaller == {c1, c2}
MCWholes == {{}, {c2}}
===============================================================================
