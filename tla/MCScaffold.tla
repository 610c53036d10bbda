----------------------------- MODULE MCScaffold -----------------------------
(* The C kernel on small instances: nine pages of two bytes of which five   *)
(* are free, tables of two entries, a heap of 64 bytes, three nodes below   *)
(* the root, three tasks, and a screen of two lines of text.                *)
EXTENDS Scaffold, TLC

\* The second entry is not usable, the last is larger than the bitmap; the
\* first page lies below the kernel's end.
MCMemoryMap ==
    << [base |-> 0, length |-> 3, usable |-> TRUE],
       [base |-> 3, length |-> 2, usable |-> FALSE],
       [base |-> 5, length |-> 40, usable |-> TRUE] >>

MCIndex == {0, 1}

\* Two virtual pages share their last table, a third only the two upper ones,
\* a fourth nothing.
MCVirts == { <<0, 1, 0, 0>>, <<0, 1, 0, 1>>, <<0, 1, 1, 0>>, <<1, 0, 0, 0>> }
MCRegions == { << <<0, 1, 0, 1>>, <<0, 1, 1, 0>> >> }

\* Page 1 is the loader's top level table, with its table of the first half;
\* page 3 an empty one.
NoEntries == [i \in MCIndex |-> Absent]
MCBootTables == 1 :> [NoEntries EXCEPT ![0] = 2] @@ 2 :> NoEntries @@ 3 :> NoEntries
MCBootRanks == 1 :> 1 @@ 2 :> 2 @@ 3 :> 1
MCRoots == {1, 3}
MCDeviceFrames == {100}

MCSizes == {0, 1, 8, 20, 40, 64, 65}
MCAligns == {1, 16, 32}

MCNames == {"", "a", "b", "abc", "abcd"}
MCStored == [n \in MCNames |-> IF n = "abcd" THEN "abc" ELSE n]
MCPaths == { <<>>, <<"a">>, <<"b">>, <<"a", "b">>, <<"a", "a", "b">>, <<"abcd">>,
             <<"abc">>, <<"a", "">> }

MCSignals == {-1, 0, 9, 15}
MCSyscalls == {1, 3, 4, 4096, 99}

Screen(w, h) == [width |-> w, height |-> h, usable |-> TRUE]
MCScreens == { Screen(40, 30), Screen(64, 9), NoScreen }
MCLine == <<"glyph", "glyph", "newline">>
MCText == <<"glyph", "space", "glyph", "glyph", "glyph">>
MCTexts == {MCLine, MCText}
MCBootInfos ==
    { [valid |-> TRUE, screen |-> Screen(40, 30)],
      [valid |-> TRUE, screen |-> Screen(64, 9)],
      [valid |-> FALSE, screen |-> Screen(40, 30)],
      [valid |-> FALSE, screen |-> NoScreen], NoBootInfo }

MCVectors == {0, 33}
MCHandlers == {"h1"}
MCOffset(m, s) == [c \in Chips |-> IF c = "master" THEN m ELSE s]
MCOffsetPairs == { MCOffset(32, 40), MCOffset(64, 72) }
MCFirmwareOffset == MCOffset(8, 112)
MCFirmwareMasks == { MCOffset(184, 142) }

MCWorkloads == { {part} : part \in Parts }
=============================================================================
