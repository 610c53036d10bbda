----------------------------- MODULE MCPs2Input ------------------------------
(* Ps2Input on a small instance: a ring of two slots so that it overruns,  *)
(* a keyboard whose bytes include one that looks like the start of a mouse *)
(* packet (14, Backspace) and one that does not (16, Q), a mouse that      *)
(* sends packet starts and large negative movements, a tiny screen.        *)
EXTENDS Ps2Input

MCKeyBytes == {14, 16}
MCAuxBytes == {9, 200}
==============================================================================
