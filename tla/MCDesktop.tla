------------------------------ MODULE MCDesktop ------------------------------
(***************************************************************************)
(* Small instances of the desktop, on a screen of 1024 x 768.  "a" stands  *)
(* for every letter the desktop leaves to the console, and the line "a"    *)
(* for the commands, by abbreviation.                                      *)
(***************************************************************************)
EXTENDS Desktop, FileTypes

MCHandler ==
  [n \in Entries |-> filetype_get_handler(VaultExtensions[n])]

(* Productivity on a tablet with the game embedded; coding with windows    *)
(* and without it.                                                         *)
MCProfiles == {<<3, 1, TRUE>>, <<2, 2, FALSE>>}

(* Lines of one character for one command of each kind; every longer line  *)
(* is none.                                                                *)
MCCommands == [l \in {<<"a">>, <<"2">>, <<"7">>} |->
                 CASE l = <<"a">> -> "notes" [] l = <<"2">> -> "clear"
                   [] l = <<"7">> -> "curl"]

(* The store and the calculator above everything, the second behind the    *)
(* Vault's close box; the console's close box over the Vault's first row;  *)
(* its title bar over the close box of an application and over the store's *)
(* game; the game's close box over a row and a channel of the chat; the    *)
(* row of sample.elf over a server; the viewer's close box; the dock,      *)
(* which is the bar's search box with windows.                             *)
MCPoints == {<<300, 60>>, <<420, 100>>, <<275, 135>>, <<640, 142>>, <<700, 142>>,
             <<165, 150>>, <<100, 270>>, <<550, 180>>, <<200, 710>>}
=============================================================================
