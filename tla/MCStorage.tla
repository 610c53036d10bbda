----------------------------- MODULE MCStorage -------------------------------
(* Storage on a small instance: a repository of three packages, so that    *)
(* the name past its end and the fault behind that are reached, and blocks *)
(* of three sectors, so that each runs over the next two.                  *)
EXTENDS Storage

CONSTANTS grid, theme, gcc

MCRepo == <<grid, theme, gcc>>
==============================================================================
