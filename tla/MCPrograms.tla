----------------------------- MODULE MCPrograms -----------------------------
(* The native programs on small instances: a ring of two key events, a     *)
(* clock that wraps after four readings, a heap of three blocks, a memory  *)
(* of five bytes, and strings of up to three bytes, of which 700 and more  *)
(* overflow a number of ten bits.                                          *)
EXTENDS Programs

\* Esc and the release of a letter; the byte of the mouse looks like Esc.
MCKeyBytes == {1, 144}
MCAuxBytes == {1}
MCSleeps == {0, 1, 3}

Screen(w, h) == [width |-> w, height |-> h, base |-> TRUE]
NoBase == [width |-> 7, height |-> 5, base |-> FALSE]
Small == { Screen(1, 1), Screen(3, 2), Screen(5, 9), Screen(7, 3), NoBase }
MCKinds == {"doom", "frames", "dashboard", "gui", "canvas", "heap", "copies", "strings"}
MCFrameBuffers ==
    [k \in MCKinds |->
        CASE k = "dashboard" -> { Screen(640, 480) }
          [] k = "gui" -> { Screen(200, 100), Screen(640, 480), NoBase }
          [] k = "doom" -> { Screen(5, 9) }
          [] k \in {"frames", "canvas"} -> Small
          [] OTHER -> { NoBase }]
MCRects == [x : {-2, 0, 1, 3}, y : {-1, 2}, w : {-1, 0, 2, 9}, h : {0, 1, 5}]

MCMallocSizes == {0, 1, 16, 17, 33}
MCValues == {0, 1, 2}

Strings(alphabet, size) == UNION { [1 .. k -> alphabet] : k \in 0 .. size }
MCLeft == Strings({47, 48, 55, 65, 97, 200}, 3)
MCRight == Strings({48, 65, 97, 200}, 2)
MCLimits == 0 .. 3
MCWadNames == { <<97>>, <<48, 97>> }
=============================================================================
