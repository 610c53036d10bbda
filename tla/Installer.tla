------------------------------ MODULE Installer ------------------------------
(***************************************************************************)
(* The graphical installer, from the first iteration of the main loop to   *)
(* the desktop: a page for the workspace mode, one for the focus, and the  *)
(* sign-in page, worked by mouse and keyboard.  While it runs every        *)
(* iteration lets the installer look at the mouse and take one scan code,  *)
(* and then poll_keyboard takes one more for the desktop's handlers.  The  *)
(* panels they open are left out, the late start closes them; what they do *)
(* to the modes is kept, since the completion sets those as well.          *)
(*                                                                         *)
(* Scan codes are named for what the installer makes of them; "a" is any   *)
(* letter, g and h among them.  The pointer may be anywhere at each look   *)
(* at the mouse; the button is state.                                      *)
(***************************************************************************)
EXTENDS Integers, Sequences

CONSTANTS
  Keys,          \* scan codes that arrive
  Nul,           \* the byte that ends a text
  Cross,         \* what hides a character of the password
  MaxLen,        \* characters of a text (15)
  Width, Height, \* of the framebuffer
  Points,        \* where the pointer may be
  NoFlag,        \* the flag sector before it is written
  QueueSize, MaxKeys, MaxPresses   \* bounds: scan codes waiting, keys, presses

Scancodes == {"1", "2", "3", "4", "a", "space", "enter", "tab", "back", "ext", "up",
              "down", "other"}
Chars == {"1", "2", "3", "4", "a", "space"}     \* what installer_scancode_ascii knows
ASSUME KeyAssumption == Keys \subseteq Scancodes /\ Nul \notin Chars
ASSUME SizeAssumption == MaxLen \in Nat \ {0} /\ QueueSize \in Nat /\ MaxKeys \in Nat
                         /\ MaxPresses \in Nat
(* The pages are not drawn on a smaller framebuffer.                       *)
ASSUME ScreenAssumption == Width \in Nat /\ Height \in Nat /\ Width >= 880 /\ Height >= 560
ASSUME PointAssumption == Points \subseteq [x : Nat, y : Nat]

MAC == 0
LINUX == 1
WINDOWS == 2
HYBRID == 3

VARIABLES
  pc,            \* where the main loop is
  queue,         \* the scan code ring, a queue here
  installer_phase, install_mode, install_focus, install_user,
  installer_auth_field, installer_remember, installer_key_ext, installer_mouse_last,
  install_username, install_user_len,
  install_password, install_pass_len, install_password_mask, installer_show_pass,
  installer_completed,
  flag,          \* the sector that says the installer has run
  compat_profile, gamemode_active, scheduler_game_boost, devmode_active,
  switched,      \* history: game mode was switched by hand after the completion
  button,        \* bit 0 of mouse_buttons
  typed, presses, clicks   \* keys typed, presses of the button, clicks acted upon

choices == <<install_mode, install_focus, install_user>>
name    == <<install_username, install_user_len>>
secret  == <<install_password, install_pass_len, install_password_mask, installer_show_pass>>
form    == <<installer_phase, installer_auth_field, installer_remember>>
modes   == <<compat_profile, gamemode_active, scheduler_game_boost, devmode_active>>
outcome == <<installer_completed, flag, modes, switched>>
input   == <<queue, button, typed, presses>>
mouse   == <<installer_mouse_last, clicks>>
vars == <<pc, choices, name, secret, form, outcome, input, mouse, installer_key_ext>>

Text == [0 .. MaxLen -> Chars \union {Nul, Cross}]
Empty == [i \in 0 .. MaxLen |-> Nul]

Init ==
  /\ pc = "mouse" /\ queue = <<>>
  /\ installer_phase = 0
  /\ install_mode = HYBRID /\ install_focus = 2 /\ install_user = 1
  /\ installer_auth_field = 0 /\ installer_remember = TRUE
  /\ installer_key_ext = FALSE /\ installer_mouse_last = FALSE
  /\ install_username = Empty /\ install_user_len = 0
  /\ install_password = Empty /\ install_pass_len = 0
  /\ install_password_mask = Empty /\ installer_show_pass = FALSE
  /\ installer_completed = FALSE /\ flag = NoFlag
  /\ compat_profile = MAC /\ gamemode_active = FALSE
  /\ scheduler_game_boost = FALSE /\ devmode_active = FALSE /\ switched = FALSE
  /\ button = FALSE /\ typed = 0 /\ presses = 0 /\ clicks = 0

------------------------------------------------------------------------------
(* Where a page is hit.  A box is its left upper corner on the page, its   *)
(* width and its height; both edges count.                                 *)

Box(x, y, w, h) == [x |-> x, y |-> y, w |-> w, h |-> h]
Miss == 255
Continue == 4

PageWidth(page)  == CASE page = 0 -> 880 [] page = 1 -> 620 [] page = 2 -> 760
PageHeight(page) == CASE page = 0 -> 560 [] page = 1 -> 440 [] page = 2 -> 480
Base(page) == [x |-> (Width - PageWidth(page)) \div 2, y |-> (Height - PageHeight(page)) \div 2]

installer_prompt_hit ==
  [i \in 0 .. 4 |-> IF i = Continue THEN Box(626, 448, 190, 48)
                    ELSE Box(42, 154 + 74 * i, 360, 58)]
installer_focus_hit ==
  [i \in 0 .. 4 |-> IF i = Continue THEN Box(28, 360, 250, 46)
                    ELSE Box(44, 184 + 32 * i, 316, 24)]

(* User name, password, show, remember and the sign-in button.             *)
SignIn == 4
(* A slip: the rows of the sign-in page are hit where they would be with   *)
(* the pitch of the boxes above them.                                      *)
installer_auth_hit_pitch ==
  [i \in 0 .. 4 |-> IF i = SignIn THEN Box(490, 386, 220, 48)
                    ELSE Box(260, 154 + 100 * i, 420, IF i < 2 THEN 46 ELSE 28)]

installer_auth_hit ==
  [i \in 0 .. 4 |-> <<Box(260, 154, 420, 46), Box(260, 254, 420, 46), Box(260, 312, 420, 28),
                      Box(260, 346, 420, 28), Box(490, 386, 220, 48)>>[i + 1]]

Boxes(page) == CASE page = 0 -> installer_prompt_hit
                 [] page = 1 -> installer_focus_hit
                 [] page = 2 -> installer_auth_hit

Inside(box, page, p) ==
  /\ p.x - Base(page).x \in box.x .. box.x + box.w
  /\ p.y - Base(page).y \in box.y .. box.y + box.h

HitsAt(page, p) == {i \in 0 .. 4 : Inside(Boxes(page)[i], page, p)}
(* What is hit there: the first of the boxes, or none.                     *)
Hit(page, p, i) == IF i = Miss THEN HitsAt(page, p) = {}
                   ELSE i \in HitsAt(page, p) /\ \A j \in HitsAt(page, p) : i <= j
Hits == [page \in 0 .. 2 |->
           {i \in 0 .. 4 \union {Miss} : \E p \in Points : Hit(page, p, i)}]

(* What render_navine_auth_page draws for each of them: the boxes and the  *)
(* button filled, the two labels in letters of 8 by 16, twice as large on  *)
(* a framebuffer of 1920 and more.                                         *)
Scale == IF Width >= 1920 THEN 2 ELSE 1
render_navine_auth_page ==
  [i \in 0 .. 4 |-> <<Box(260, 154, 420, 46), Box(260, 254, 420, 46),
                      Box(260, 318, 18 * 8 * Scale, 16 * Scale),
                      Box(260, 352, 16 * 8 * Scale, 16 * Scale), Box(490, 386, 220, 48)>>[i + 1]]
Drawn(i, p) ==
  LET box == render_navine_auth_page[i]
  IN  /\ p.x - Base(2).x \in box.x .. box.x + box.w - 1
      /\ p.y - Base(2).y \in box.y .. box.y + box.h - 1

------------------------------------------------------------------------------
(* The end of the installer.                                               *)

(* installer_save_disk_flag: what has been chosen, and the name.           *)
Flag == [mode |-> install_mode, focus |-> install_focus, user |-> install_user,
         len |-> install_user_len, name |-> install_username]

(* installer_apply_profiles, after the services have been initialised.     *)
Gaming == install_mode = HYBRID \/ (install_mode # LINUX /\ install_focus = 0)
installer_apply_profiles ==
  /\ compat_profile' = install_mode
  /\ gamemode_active' = (Gaming \/ gamemode_active)
  /\ scheduler_game_boost' = Gaming
  /\ devmode_active' = (install_mode \in {LINUX, HYBRID} \/ devmode_active)

Complete ==
  /\ installer_completed' = TRUE /\ flag' = Flag
  /\ installer_apply_profiles
  /\ UNCHANGED switched

(* A slip: the password is not asked for.                                  *)
installer_try_finish_no_pass ==
  IF install_user_len = 0
  THEN installer_auth_field' = 0 /\ UNCHANGED outcome
  ELSE Complete /\ UNCHANGED installer_auth_field

(* installer_try_finish: a field that is empty is made the current one.    *)
installer_try_finish ==
  IF install_user_len = 0 \/ install_pass_len = 0
  THEN /\ installer_auth_field' = IF install_user_len = 0 THEN 0 ELSE 1
       /\ UNCHANGED outcome
  ELSE Complete /\ UNCHANGED installer_auth_field

------------------------------------------------------------------------------
(* What choices and fields do.                                             *)

(* A slip: the choice of the sign-in page goes to the workspace mode.      *)
SetSelected_no_user(v) ==
  /\ install_mode'  = IF installer_phase # 1 THEN v ELSE install_mode
  /\ install_focus' = IF installer_phase = 1 THEN v ELSE install_focus
  /\ UNCHANGED install_user

(* installer_selected_ptr: the choice of the page.                         *)
Selected == CASE installer_phase = 1 -> install_focus
              [] installer_phase = 2 -> install_user
              [] OTHER -> install_mode
SetSelected(v) ==
  /\ install_mode'  = IF installer_phase \notin {1, 2} THEN v ELSE install_mode
  /\ install_focus' = IF installer_phase = 1 THEN v ELSE install_focus
  /\ install_user'  = IF installer_phase = 2 THEN v ELSE install_user

(* installer_refresh_password_mask                                         *)
RefreshMask(show) ==
  [i \in 0 .. MaxLen |->
     IF i < install_pass_len THEN IF show THEN install_password[i] ELSE Cross
     ELSE IF i = install_pass_len THEN Nul ELSE install_password_mask[i]]

ToggleShow ==
  /\ installer_show_pass' = ~installer_show_pass
  /\ install_password_mask' = RefreshMask(~installer_show_pass)
  /\ UNCHANGED <<install_password, install_pass_len>>

TypeName(c) ==
  IF install_user_len >= MaxLen THEN UNCHANGED name
  ELSE /\ install_username' = [install_username EXCEPT ![install_user_len] = c,
                                                       ![install_user_len + 1] = Nul]
       /\ install_user_len' = install_user_len + 1

TypePassword(c) ==
  IF install_pass_len >= MaxLen THEN UNCHANGED secret
  ELSE /\ install_password' = [install_password EXCEPT ![install_pass_len] = c]
       /\ install_password_mask' =
            [install_password_mask EXCEPT
               ![install_pass_len] = IF installer_show_pass THEN c ELSE Cross,
               ![install_pass_len + 1] = Nul]
       /\ install_pass_len' = install_pass_len + 1
       /\ UNCHANGED installer_show_pass

EraseName ==
  IF install_user_len = 0 THEN UNCHANGED name
  ELSE /\ install_user_len' = install_user_len - 1
       /\ install_username' = [install_username EXCEPT ![install_user_len - 1] = Nul]

(* A slip: the character stays in the password, the mask alone ends.       *)
ErasePassword_mask_only ==
  IF install_pass_len = 0 THEN UNCHANGED secret
  ELSE /\ install_pass_len' = install_pass_len - 1
       /\ install_password_mask' = [install_password_mask EXCEPT ![install_pass_len - 1] = Nul]
       /\ UNCHANGED <<install_password, installer_show_pass>>

ErasePassword ==
  IF install_pass_len = 0 THEN UNCHANGED secret
  ELSE /\ install_pass_len' = install_pass_len - 1
       /\ install_password' = [install_password EXCEPT ![install_pass_len - 1] = Nul]
       /\ install_password_mask' = [install_password_mask EXCEPT ![install_pass_len - 1] = Nul]
       /\ UNCHANGED installer_show_pass

------------------------------------------------------------------------------
(* The mouse, once in every iteration.                                     *)

(* What a hit does on each page.                                           *)
PromptClick(i) ==
  /\ installer_phase = 0
  /\ installer_phase' = IF i = Continue THEN 1 ELSE 0
  /\ install_mode' = IF i < Continue THEN i ELSE install_mode
  /\ UNCHANGED <<install_focus, install_user, installer_auth_field, installer_remember,
                 name, secret, outcome>>

FocusClick(i) ==
  /\ installer_phase = 1
  /\ installer_phase' = IF i = Continue THEN 2 ELSE 1
  /\ installer_auth_field' = IF i = Continue THEN 0 ELSE installer_auth_field
  /\ install_focus' = IF i < Continue THEN i ELSE install_focus
  /\ UNCHANGED <<install_mode, install_user, installer_remember, name, secret, outcome>>

AuthClick(i) ==
  /\ installer_phase = 2
  /\ IF i = SignIn THEN installer_try_finish
     ELSE /\ installer_auth_field' = IF i = Miss THEN installer_auth_field ELSE i
          /\ UNCHANGED outcome
  /\ IF i = 2 THEN ToggleShow ELSE UNCHANGED secret
  /\ installer_remember' = IF i = 3 THEN ~installer_remember ELSE installer_remember
  /\ UNCHANGED <<installer_phase, choices, name>>

(* A slip: a button held down counts in every iteration.                   *)
Click_held == button

Click == installer_mouse_last = FALSE /\ button

installer_handle_mouse ==
  /\ pc = "mouse" /\ ~installer_completed
  /\ installer_mouse_last' = button
  /\ IF Click
     THEN /\ \E i \in Hits[installer_phase] : PromptClick(i) \/ FocusClick(i) \/ AuthClick(i)
          /\ clicks' = clicks + 1
     ELSE UNCHANGED <<choices, name, secret, form, outcome, clicks>>
  /\ pc' = "poll"
  /\ UNCHANGED <<input, installer_key_ext>>

------------------------------------------------------------------------------
(* The keyboard: installer_poll takes one scan code.                       *)

Digit(k) == CASE k = "1" -> 0 [] k = "2" -> 1 [] k = "3" -> 2 [] k = "4" -> 3
Digits == {"1", "2", "3", "4"}

(* The head of the queue, for the installer.                               *)
Takes(k) ==
  /\ pc = "poll" /\ ~installer_completed /\ queue # <<>> /\ k = Head(queue)
  /\ queue' = Tail(queue) /\ pc' = "rest"
  /\ UNCHANGED <<button, typed, presses, mouse>>

Prefix(k) ==
  /\ Takes(k) /\ k = "ext"
  /\ installer_key_ext' = TRUE
  /\ UNCHANGED <<choices, name, secret, form, outcome>>

(* After the prefix only the two arrows mean anything, whenever the code   *)
(* comes: it may have gone to the desktop's handlers.                      *)
Above == IF Selected = 0 THEN 3 ELSE Selected - 1
Below == IF Selected = 3 THEN 0 ELSE Selected + 1
Extended(k) ==
  /\ Takes(k) /\ k # "ext" /\ installer_key_ext
  /\ installer_key_ext' = FALSE
  /\ IF k \in {"up", "down"} THEN SetSelected(IF k = "up" THEN Above ELSE Below)
     ELSE UNCHANGED choices
  /\ UNCHANGED <<name, secret, form, outcome>>

Plain(k) == Takes(k) /\ k # "ext" /\ ~installer_key_ext /\ UNCHANGED installer_key_ext

Choose(k) ==
  /\ Plain(k) /\ installer_phase # 2 /\ k \in Digits
  /\ SetSelected(Digit(k))
  /\ UNCHANGED <<name, secret, form, outcome>>

Enter(k) ==
  /\ Plain(k) /\ k = "enter"
  /\ IF installer_phase = 2 THEN installer_try_finish /\ UNCHANGED installer_phase
     ELSE installer_phase' = installer_phase + 1 /\ UNCHANGED <<installer_auth_field, outcome>>
  /\ UNCHANGED <<choices, name, secret, installer_remember>>

Tab(k) ==
  /\ Plain(k) /\ installer_phase = 2 /\ k = "tab"
  /\ installer_auth_field' = (installer_auth_field + 1) % 4
  /\ UNCHANGED <<choices, name, secret, outcome, installer_phase, installer_remember>>

(* The space bar switches the switch it is on.                             *)
Space(k) ==
  /\ Plain(k) /\ installer_phase = 2 /\ k = "space" /\ installer_auth_field \in {2, 3}
  /\ IF installer_auth_field = 2 THEN ToggleShow /\ UNCHANGED installer_remember
     ELSE installer_remember' = ~installer_remember /\ UNCHANGED secret
  /\ UNCHANGED <<choices, name, outcome, installer_phase, installer_auth_field>>

(* On the switches too the name loses a character.                         *)
Backspace(k) ==
  /\ Plain(k) /\ installer_phase = 2 /\ k = "back"
  /\ IF installer_auth_field = 1 THEN ErasePassword /\ UNCHANGED name
     ELSE EraseName /\ UNCHANGED secret
  /\ UNCHANGED <<choices, form, outcome>>

Character(k) ==
  /\ Plain(k) /\ installer_phase = 2 /\ k \in Chars /\ installer_auth_field \in {0, 1}
  /\ IF installer_auth_field = 1 THEN TypePassword(k) /\ UNCHANGED name
     ELSE TypeName(k) /\ UNCHANGED secret
  /\ UNCHANGED <<choices, form, outcome>>

(* Codes that mean nothing on the page.                                    *)
Ignored(k) ==
  /\ Plain(k) /\ k # "enter"
  /\ IF installer_phase = 2
     THEN /\ k \notin {"tab", "back"}
          /\ k \in Chars => installer_auth_field > 1 /\ k # "space"
     ELSE k \notin Digits
  /\ UNCHANGED <<choices, name, secret, form, outcome>>

(* No scan code is there, or the mouse has just completed the sign-in.     *)
NoKey ==
  /\ pc = "poll" /\ (queue = <<>> \/ installer_completed)
  /\ pc' = "rest"
  /\ UNCHANGED <<choices, name, secret, form, outcome, input, mouse, installer_key_ext>>

installer_poll ==
  \/ NoKey
  \/ \E k \in Keys : \/ Prefix(k) \/ Extended(k) \/ Choose(k) \/ Enter(k) \/ Tab(k)
                      \/ Space(k) \/ Backspace(k) \/ Character(k) \/ Ignored(k)

(* The desktop's handlers take a scan code as well.  A letter may be g or  *)
(* h, and it switches a mode unless a panel that is open takes it; before  *)
(* the completion nothing but the modes of it lasts.                       *)
gamemode_toggle ==
  /\ gamemode_active' = ~gamemode_active
  /\ scheduler_game_boost' = ~gamemode_active
  /\ switched' = installer_completed
  /\ UNCHANGED <<installer_completed, flag, compat_profile, devmode_active>>

devmode_toggle ==
  /\ devmode_active' = ~devmode_active
  /\ UNCHANGED <<installer_completed, flag, compat_profile, gamemode_active,
                 scheduler_game_boost, switched>>

poll_keyboard ==
  /\ pc = "rest"
  /\ \/ /\ queue' = IF queue = <<>> THEN queue ELSE Tail(queue)
        /\ UNCHANGED outcome
     \/ /\ queue # <<>> /\ Head(queue) = "a" /\ queue' = Tail(queue)
        /\ gamemode_toggle \/ devmode_toggle
  /\ pc' = IF installer_completed THEN "late" ELSE "mouse"
  /\ UNCHANGED <<choices, name, secret, form, mouse, installer_key_ext, button, typed,
                 presses>>

(* kernel_late_init: compat_init, init_gamemode and init_devmode come      *)
(* after the installer has applied its profile; the scheduler's boost is   *)
(* left as it is.                                                          *)
kernel_late_init ==
  /\ pc = "late" /\ pc' = "desktop"
  /\ compat_profile' = HYBRID
  /\ gamemode_active' = FALSE /\ devmode_active' = FALSE
  /\ UNCHANGED <<scheduler_game_boost, installer_completed, flag, switched>>
  /\ UNCHANGED <<choices, name, secret, form, input, mouse, installer_key_ext>>

------------------------------------------------------------------------------
(* The user, while the main loop runs.                                     *)

Type(k) ==
  /\ typed < MaxKeys /\ Len(queue) < QueueSize
  /\ queue' = Append(queue, k) /\ typed' = typed + 1
  /\ UNCHANGED <<pc, choices, name, secret, form, outcome, mouse, installer_key_ext, button,
                 presses>>

Press ==
  /\ ~button /\ presses < MaxPresses
  /\ button' = TRUE /\ presses' = presses + 1
  /\ UNCHANGED <<pc, choices, name, secret, form, outcome, mouse, installer_key_ext, queue, typed>>

LetGo ==
  /\ button /\ button' = FALSE
  /\ UNCHANGED <<pc, choices, name, secret, form, outcome, mouse, installer_key_ext, queue,
                 typed, presses>>

MainLoop == installer_handle_mouse \/ installer_poll \/ poll_keyboard \/ kernel_late_init
User == Press \/ LetGo \/ \E k \in Keys : Type(k)
Next == MainLoop \/ User

Spec == Init /\ [][Next]_vars

------------------------------------------------------------------------------
(* Properties.                                                             *)

(* Every variable has its type; the texts never outgrow their buffers.     *)
ControlOK ==
  /\ pc \in {"mouse", "poll", "rest", "late", "desktop"}
  /\ installer_key_ext \in BOOLEAN /\ installer_mouse_last \in BOOLEAN
  /\ installer_completed \in BOOLEAN
InputOK ==
  /\ queue \in Seq(Keys) /\ button \in BOOLEAN
  /\ typed \in Nat /\ presses \in Nat /\ clicks \in Nat
ChoicesOK ==
  install_mode \in 0 .. 3 /\ install_focus \in 0 .. 3 /\ install_user \in 0 .. 3
FormOK ==
  /\ installer_phase \in 0 .. 2 /\ installer_auth_field \in 0 .. 3
  /\ installer_remember \in BOOLEAN
NameOK == install_username \in Text /\ install_user_len \in 0 .. MaxLen
SecretOK ==
  /\ install_password \in Text /\ install_password_mask \in Text
  /\ install_pass_len \in 0 .. MaxLen /\ installer_show_pass \in BOOLEAN
ModesOK ==
  /\ compat_profile \in 0 .. 3 /\ gamemode_active \in BOOLEAN
  /\ scheduler_game_boost \in BOOLEAN /\ devmode_active \in BOOLEAN
  /\ switched \in BOOLEAN
TypeOK ==
  ControlOK /\ InputOK /\ ChoicesOK /\ FormOK /\ NameOK /\ SecretOK /\ ModesOK

(* Name and password end where their lengths say: no character before the  *)
(* length is missing, none stands behind it, through every order of typing *)
(* and erasing in the two fields by keys and clicks.                       *)
TextsEnd ==
  \A i \in 0 .. MaxLen :
    /\ i < install_user_len <=> install_username[i] # Nul
    /\ i < install_pass_len <=> install_password[i] # Nul

(* What is drawn for the password has its length and is the password when  *)
(* it is to be shown and crosses when it is not, whatever has been typed   *)
(* and erased before and after the switch.                                 *)
MaskShows ==
  \A i \in 0 .. install_pass_len :
    install_password_mask[i] = IF i = install_pass_len THEN Nul
                               ELSE IF installer_show_pass THEN install_password[i] ELSE Cross

(* The three texts of the sign-in page belong together: each ends where    *)
(* its length says and the one drawn is the one typed.                     *)
TextsShown == TextsEnd /\ MaskShows

(* The installer is left only with a name and a password, and what it      *)
(* wrote to the disk is what is in memory from then on.                    *)
AccountSaved ==
  installer_completed => install_user_len > 0 /\ install_pass_len > 0 /\ flag = Flag

(* Nothing done on the sign-in page changes what the pages before chose.   *)
EarlierChoicesKept ==
  [][installer_phase = 2 => UNCHANGED <<install_mode, install_focus>>]_vars

(* A press of the button is acted upon once, however many iterations it    *)
(* is held down for.                                                       *)
OncePerPress == clicks <= presses

(* On the sign-in page a click on what is drawn hits it.                   *)
Misdrawn == {i \in 0 .. 4 : \E p \in Points : Drawn(i, p) /\ ~Hit(2, p, i)}
SignInHitsDrawn == installer_phase = 2 => Misdrawn = {}

(* What docs/HYBRID_EDITION.md promises of the profiles "Linux Power" and  *)
(* "Hybrid": the desktop comes up with Dev Mode, and with Game Mode.       *)
ProfileKept ==
  pc = "desktop" =>
    /\ install_mode = LINUX => devmode_active
    /\ install_mode = HYBRID => devmode_active /\ gamemode_active
==============================================================================
