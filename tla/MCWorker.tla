------------------------------- MODULE MCWorker -------------------------------
(* Instances of Worker for TLC.                                             *)
EXTENDS Worker

CONSTANTS r1, r2, l1

\* Two requests, or a request and its retry.
TwoIds == <<r1, r2>>
SameId == <<r1, r1>>

OldAndNew == {{}, {"local_busy", "drain"}}
JobsOrLocal == {{1, 2}, {1, l1}}
===============================================================================
