------------------------------- MODULE Panels --------------------------------
(***************************************************************************)
(* What the desktop can have open, and the texts kept in it: the Vault,    *)
(* the text viewer, the game, one application, the chat, the search panel  *)
(* and the overlays.  Keys and clicks both end in the operators of this    *)
(* module; each of them leaves what it does not mention to its caller.     *)
(***************************************************************************)
EXTENDS Console

CONSTANTS
  Handler,     \* what filetype_get_handler makes of the Vault's ten entries
  Profiles,    \* modes and focuses the installer may leave, and whether the
               \* build embeds a DOOM_WAD
  NotesSize,   \* characters of notes_buf that are used (159)
  InputSize,   \* characters of app_input and discord_input (79)
  Rows         \* rows of discord_msgs (10)

(* The application panels, by the names of their app_open_ routines.       *)
Apps == {"settings", "browser", "store", "notes", "calc", "media", "monitor",
         "assistant", "editor", "plugins", "studio"}
Targets == Apps \union {"console", "vault", "chat", "game"}

Entries == 1 .. 10

(* The branches of filetype_run that the Vault's entries reach.  FileTypes *)
(* computes which these are; the others are written and never taken.       *)
ASSUME PanelsAssumption ==
  /\ Handler \in [Entries -> {"FT_TEXT", "FT_ELF", "FT_UNKNOWN"}]
  /\ Profiles \subseteq (0 .. 3) \X (0 .. 3) \X BOOLEAN
  /\ NotesSize \in Nat \ {0} /\ InputSize \in Nat \ {0}
  /\ Rows \in Nat /\ Rows >= 3

VARIABLES
  running,            \* the main loop is: no program has taken the machine
  install_mode, install_focus, wad,  \* one of Profiles
  console_visible,    \* windows + 20
  files_visible, textviewer_active, doom_active,
  app,                \* app_type while app_active, or "none"
  discord_visible, spotlight_open, mission_open, gamemode_active,
  devmode_active,
  app_input, notes_buf, discord_input,
  discord_msgs,       \* whose each line is: "seed", "you" or "bot"
  discord_server, discord_channel

build    == <<install_mode, install_focus, wad>>
overlays == <<mission_open, gamemode_active, devmode_active>>
fields   == <<app_input, notes_buf, discord_input>>
chat     == <<discord_msgs, discord_server, discord_channel>>
windows  == <<console_visible, files_visible, textviewer_active, doom_active,
              app, discord_visible>>
panels   == <<running, build, windows, spotlight_open, overlays, fields, chat>>

(* How many lines discord_load_channel finds for a server and a channel:   *)
(* it takes their number as an index into a list whose groups are of       *)
(* different lengths, so that most of them start inside another group.     *)
Seeds == << <<3, 2, 1>>, <<0, 2, 1>>, <<0, 2, 1>> >>
Seeded(server, channel) ==
  [i \in 1 .. Seeds[server + 1][channel + 1] |-> "seed"]

(* kernel_late_init: init_desktop, init_wm, init_files, init_textviewer,   *)
(* init_doom, init_simpleapps, init_discord, init_gamemode, init_devmode   *)
(* and init_mission_control, after an installation.                        *)
PanelsInit ==
  /\ running = TRUE
  /\ \E p \in Profiles : install_mode = p[1] /\ install_focus = p[2] /\ wad = p[3]
  /\ console_visible = TRUE
  /\ files_visible = FALSE /\ textviewer_active = FALSE /\ doom_active = FALSE
  /\ app = "none" /\ discord_visible = FALSE /\ spotlight_open = FALSE
  /\ mission_open = FALSE /\ gamemode_active = FALSE /\ devmode_active = FALSE
  /\ app_input = <<>> /\ notes_buf = <<>> /\ discord_input = <<>>
  /\ discord_msgs = Seeded(0, 0) /\ discord_server = 0 /\ discord_channel = 0

(* What doom_launch writes: one message before it looks for the embedded   *)
(* game, which takes the machine and never returns, and one after.         *)
LaunchTexts == IF wad THEN <<"text">> ELSE <<"text", "text">>

(* doom_launch, but for what it writes                                     *)
DoomLaunch ==
  \/ /\ wad
     /\ running' = FALSE /\ UNCHANGED <<windows, app_input>>
  \/ /\ ~wad
     /\ doom_active' = TRUE /\ files_visible' = FALSE
     /\ textviewer_active' = FALSE
     /\ UNCHANGED <<running, console_visible, app, discord_visible, app_input>>

(* app_open_settings to app_open_studio, app_open_common: the panel that   *)
(* was open is replaced and the input line starts empty; notes are kept.   *)
AppOpen(type) ==
  /\ app' = type /\ app_input' = <<>>
  /\ UNCHANGED <<running, console_visible, files_visible, textviewer_active,
                 doom_active, discord_visible>>

(* files_toggle                                                            *)
FilesToggle ==
  /\ files_visible' = ~files_visible
  /\ UNCHANGED <<running, console_visible, textviewer_active, doom_active, app,
                 discord_visible, app_input>>

(* app_open_discord                                                        *)
ChatOpen ==
  /\ discord_visible' = TRUE
  /\ UNCHANGED <<running, console_visible, files_visible, textviewer_active,
                 doom_active, app, app_input>>

ConsoleOpen ==
  /\ console_visible' = TRUE
  /\ UNCHANGED <<running, files_visible, textviewer_active, doom_active, app,
                 discord_visible, app_input>>

(* The routine a key, a click or a command opens a target with.            *)
Open(target) == \/ target = "game" /\ DoomLaunch
                \/ target \in Apps /\ AppOpen(target)
                \/ target = "vault" /\ FilesToggle
                \/ target = "chat" /\ ChatOpen
                \/ target = "console" /\ ConsoleOpen

OpenTexts(target) == IF target = "game" THEN LaunchTexts ELSE <<>>

(* desktop_focus_one_action, two and three, by the installer's focus:      *)
(* gaming, productivity, coding, creative.                                 *)
FocusOne   == <<"game", "vault", "editor", "studio">>[install_focus + 1]
FocusTwo   == <<"monitor", "notes", "monitor", "assistant">>[install_focus + 1]
FocusThree == <<"monitor", "calc", "console", "studio">>[install_focus + 1]

(* filetype_run on one of the Vault's entries, and the Vault hidden behind *)
(* it.  A program that is loaded is entered with an iretq and has no way   *)
(* back.                                                                   *)
RunEntry(n) ==
  \/ /\ Handler[n] = "FT_TEXT"
     /\ textviewer_active' = TRUE /\ files_visible' = FALSE
     /\ UNCHANGED <<running, console_visible, doom_active, app,
                    discord_visible, console>>
  \/ /\ Handler[n] = "FT_ELF"
     /\ running' = FALSE /\ UNCHANGED <<windows, console>>
  \/ /\ Handler[n] = "FT_UNKNOWN"
     /\ files_visible' = FALSE /\ TerminalWrite(<<"unknown">>)
     /\ UNCHANGED <<running, console_visible, textviewer_active, doom_active,
                    app, discord_visible>>

(* A character put behind a text that has a limit, and the last one taken  *)
(* off it.                                                                 *)
Typed(text, c, size) == IF Len(text) < size THEN Append(text, c) ELSE text
Erased(text) ==
  IF text = <<>> THEN text ELSE SubSeq(text, 1, Len(text) - 1)

(* discord_append_line and the same code in discord_send_message: the      *)
(* oldest line makes room when the rows are full.                          *)
Appended(msgs, m) == Append(IF Len(msgs) < Rows THEN msgs ELSE Tail(msgs), m)

(* Slip: the bot answers before the line is there.                         *)
SendMessage_bot_first ==
  IF discord_input = <<>> THEN UNCHANGED <<discord_msgs, discord_input>>
  ELSE /\ discord_msgs' = Appended(Appended(discord_msgs, "bot"), "you")
       /\ discord_input' = <<>>

(* discord_send_message: the line, the bot's answer, an empty input.  The  *)
(* log file it would write to does not exist.                              *)
SendMessage ==
  IF discord_input = <<>> THEN UNCHANGED <<discord_msgs, discord_input>>
  ELSE /\ discord_msgs' = Appended(Appended(discord_msgs, "you"), "bot")
       /\ discord_input' = <<>>

(* discord_load_channel                                                    *)
LoadChannel(server, channel) ==
  /\ discord_server' = server /\ discord_channel' = channel
  /\ discord_msgs' = Seeded(server, channel)
==============================================================================
