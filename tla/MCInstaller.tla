---------------------------- MODULE MCInstaller ------------------------------
(* Installer on a small instance: texts of two characters, a framebuffer   *)
(* of 1024 by 768, the pointer at and around the edges of everything that  *)
(* is drawn or hit.                                                        *)
EXTENDS Installer

MCKeys == {"4", "a", "space", "enter", "tab", "back", "ext", "up", "down"}

MCPoints == [x : {132 + dx : dx \in {0, 260, 400, 490, 600, 680, 710, 711}} \union {72 + 42, 202 + 44},
             y : {144 + dy : dy \in {153, 154, 199, 200, 254, 312, 318, 333, 346, 352, 367, 386, 434}}
                 \union {104 + dy : dy \in {228, 302, 376, 448}}
                 \union {164 + dy : dy \in {184, 216, 248, 280, 360}}]
==============================================================================
