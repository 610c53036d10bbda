--------------------------- MODULE InstallerProofs ---------------------------
(* What the two texts of the sign-in page, its mask and its boxes promise, *)
(* for texts of any length, any keys and any screen; and that no choice of *)
(* a profile keeps the modes it sets until the desktop.                    *)
EXTENDS Installer, TLAPS

(* What a step does to the name, to the password, to the button and to the *)
(* page, whatever else it does.                                            *)
NameStep   == UNCHANGED name \/ EraseName \/ \E c \in Chars : TypeName(c)
SecretStep == UNCHANGED secret \/ ToggleShow \/ ErasePassword \/ \E c \in Chars : TypePassword(c)

LEMMA NextName == Next => NameStep
<1> SUFFICES ASSUME Next PROVE NameStep OBVIOUS
<1>1. CASE installer_handle_mouse
  BY <1>1 DEF installer_handle_mouse, PromptClick, FocusClick, AuthClick, NameStep
<1>2. ASSUME NEW k \in Keys,
             Prefix(k) \/ Extended(k) \/ Choose(k) \/ Enter(k) \/ Tab(k) \/ Space(k)
      PROVE  NameStep
  BY <1>2 DEF Prefix, Extended, Choose, Enter, Tab, Space, NameStep
<1>3. ASSUME NEW k \in Keys, Backspace(k) \/ Character(k) \/ Ignored(k) PROVE NameStep
  BY <1>3 DEF Backspace, Character, Ignored, NameStep
<1>4. CASE NoKey BY <1>4 DEF NoKey, NameStep
<1>5. CASE poll_keyboard \/ kernel_late_init
  BY <1>5 DEF poll_keyboard, kernel_late_init, NameStep
<1>6. CASE User BY <1>6 DEF User, Type, Press, LetGo, NameStep
<1> QED BY <1>1, <1>2, <1>3, <1>4, <1>5, <1>6 DEF Next, MainLoop, installer_poll

LEMMA NextSecret == Next => SecretStep
<1> SUFFICES ASSUME Next PROVE SecretStep OBVIOUS
<1>1. CASE installer_handle_mouse
  BY <1>1 DEF installer_handle_mouse, PromptClick, FocusClick, AuthClick, SecretStep
<1>2. ASSUME NEW k \in Keys,
             Prefix(k) \/ Extended(k) \/ Choose(k) \/ Enter(k) \/ Tab(k) \/ Space(k)
      PROVE  SecretStep
  BY <1>2 DEF Prefix, Extended, Choose, Enter, Tab, Space, SecretStep
<1>3. ASSUME NEW k \in Keys, Backspace(k) \/ Character(k) \/ Ignored(k) PROVE SecretStep
  BY <1>3 DEF Backspace, Character, Ignored, SecretStep
<1>4. CASE NoKey BY <1>4 DEF NoKey, SecretStep
<1>5. CASE poll_keyboard \/ kernel_late_init
  BY <1>5 DEF poll_keyboard, kernel_late_init, SecretStep
<1>6. CASE User BY <1>6 DEF User, Type, Press, LetGo, SecretStep
<1> QED BY <1>1, <1>2, <1>3, <1>4, <1>5, <1>6 DEF Next, MainLoop, installer_poll

------------------------------------------------------------------------------
(* The name.                                                               *)

NameEnds   == \A i \in 0 .. MaxLen : i < install_user_len <=> install_username[i] # Nul
SecretEnds == \A i \in 0 .. MaxLen : i < install_pass_len <=> install_password[i] # Nul

LEMMA NameKept ==
  ASSUME NameOK, NameEnds, NameStep
  PROVE  NameOK' /\ NameEnds'
<1> USE SizeAssumption, KeyAssumption DEF NameOK, NameEnds, Text
<1>1. CASE UNCHANGED name BY <1>1 DEF name
<1>2. CASE EraseName
  <2>1. CASE install_user_len = 0 BY <1>2, <2>1 DEF EraseName, name
  <2>2. CASE install_user_len # 0
    <3>1. /\ install_user_len' = install_user_len - 1
          /\ install_username' = [install_username EXCEPT ![install_user_len - 1] = Nul]
      BY <1>2, <2>2 DEF EraseName
    <3>2. install_user_len - 1 \in 0 .. MaxLen BY <2>2
    <3>3. NameOK' BY <3>1, <3>2
    <3>4. NameEnds' BY <3>1, <3>2
    <3> QED BY <3>3, <3>4
  <2> QED BY <2>1, <2>2
<1>3. ASSUME NEW c \in Chars, TypeName(c) PROVE NameOK' /\ NameEnds'
  <2>1. CASE install_user_len >= MaxLen BY <1>3, <2>1 DEF TypeName, name
  <2>2. CASE ~(install_user_len >= MaxLen)
    <3>1. /\ install_user_len' = install_user_len + 1
          /\ install_username' = [install_username EXCEPT ![install_user_len] = c,
                                                          ![install_user_len + 1] = Nul]
      BY <1>3, <2>2 DEF TypeName
    <3>2. install_user_len \in 0 .. MaxLen /\ install_user_len + 1 \in 0 .. MaxLen BY <2>2
    <3>3. NameOK' BY <3>1, <3>2
    <3>4. NameEnds' BY <3>1, <3>2
    <3> QED BY <3>3, <3>4
  <2> QED BY <2>1, <2>2
<1> QED BY <1>1, <1>2, <1>3 DEF NameStep

(* The password and its mask.                                              *)
LEMMA SecretKept ==
  ASSUME SecretOK, SecretEnds, MaskShows, SecretStep
  PROVE  SecretOK' /\ SecretEnds' /\ MaskShows'
<1> USE SizeAssumption, KeyAssumption DEF SecretOK, SecretEnds, MaskShows, Text
<1>1. CASE UNCHANGED secret BY <1>1 DEF secret
<1>2. CASE ToggleShow
  <2>1. /\ installer_show_pass' = ~installer_show_pass
        /\ install_password' = install_password /\ install_pass_len' = install_pass_len
        /\ install_password_mask' =
             [i \in 0 .. MaxLen |->
                IF i < install_pass_len
                THEN IF installer_show_pass' THEN install_password[i] ELSE Cross
                ELSE IF i = install_pass_len THEN Nul ELSE install_password_mask[i]]
    BY <1>2 DEF ToggleShow, RefreshMask
  <2>2. SecretEnds' BY <2>1
  <2>3. SecretOK' BY <2>1
  <2>4. MaskShows' BY <2>1
  <2> QED BY <2>2, <2>3, <2>4
<1>3. CASE ErasePassword
  <2>1. CASE install_pass_len = 0 BY <1>3, <2>1 DEF ErasePassword, secret
  <2>2. CASE install_pass_len # 0
    <3>1. /\ install_pass_len' = install_pass_len - 1
          /\ install_password' = [install_password EXCEPT ![install_pass_len - 1] = Nul]
          /\ install_password_mask' = [install_password_mask EXCEPT ![install_pass_len - 1] = Nul]
          /\ installer_show_pass' = installer_show_pass
      BY <1>3, <2>2 DEF ErasePassword
    <3>2. install_pass_len - 1 \in 0 .. MaxLen BY <2>2
    <3>3. SecretOK' BY <3>1, <3>2
    <3>4. SecretEnds' BY <3>1, <3>2
    <3>5. MaskShows' BY <3>1, <3>2
    <3> QED BY <3>3, <3>4, <3>5
  <2> QED BY <2>1, <2>2
<1>4. ASSUME NEW c \in Chars, TypePassword(c) PROVE SecretOK' /\ SecretEnds' /\ MaskShows'
  <2>1. CASE install_pass_len >= MaxLen BY <1>4, <2>1 DEF TypePassword, secret
  <2>2. CASE ~(install_pass_len >= MaxLen)
    <3>1. /\ install_password' = [install_password EXCEPT ![install_pass_len] = c]
          /\ install_password_mask' =
               [install_password_mask EXCEPT
                  ![install_pass_len] = IF installer_show_pass THEN c ELSE Cross,
                  ![install_pass_len + 1] = Nul]
          /\ install_pass_len' = install_pass_len + 1
          /\ installer_show_pass' = installer_show_pass
      BY <1>4, <2>2 DEF TypePassword
    <3>2. install_pass_len \in 0 .. MaxLen /\ install_pass_len + 1 \in 0 .. MaxLen BY <2>2
    <3>3. SecretOK' BY <3>1, <3>2
    <3>4. SecretEnds'
      <4>1. install_pass_len + 1 \in 0 .. MaxLen => install_password[install_pass_len + 1] = Nul
        BY <3>2
      <4> QED BY <3>1, <3>2, <4>1
    <3>5. MaskShows' BY <3>1, <3>2
    <3> QED BY <3>3, <3>4, <3>5
  <2> QED BY <2>1, <2>2
<1> QED BY <1>1, <1>2, <1>3, <1>4 DEF SecretStep

------------------------------------------------------------------------------
(* The texts of the sign-in page always end where their lengths say, and   *)
(* the mask always shows the password or crosses in its place: installer_  *)
(* poll keeps them up in five places, for every order of typing, erasing,  *)
(* switching and clicking.                                                 *)
TextInv == NameOK /\ NameEnds /\ SecretOK /\ SecretEnds /\ MaskShows

LEMMA TextInvInit == Init => TextInv
<1> SUFFICES ASSUME Init PROVE TextInv OBVIOUS
<1> USE SizeAssumption
<1>1. /\ install_username = Empty /\ install_user_len = 0
      /\ install_password = Empty /\ install_pass_len = 0
      /\ install_password_mask = Empty
  BY DEF Init
<1>2. installer_show_pass \in BOOLEAN BY DEF Init
<1>3. 0 \in 0 .. MaxLen OBVIOUS
<1>4. Empty \in Text BY DEF Empty, Text
<1>5. NameOK BY <1>1, <1>3, <1>4 DEF NameOK
<1>6. SecretOK BY <1>1, <1>2, <1>3, <1>4 DEF SecretOK
<1>7. NameEnds /\ SecretEnds BY <1>1, <1>3 DEF NameEnds, SecretEnds, Empty
<1>8. MaskShows BY <1>1, <1>3 DEF MaskShows, Empty
<1> QED BY <1>5, <1>6, <1>7, <1>8 DEF TextInv

LEMMA TextInvStep == TextInv /\ [Next]_vars => TextInv'
<1> SUFFICES ASSUME TextInv, [Next]_vars PROVE TextInv' OBVIOUS
<1>1. NameStep /\ SecretStep
  <2>1. CASE Next BY <2>1, NextName, NextSecret
  <2>2. CASE UNCHANGED vars BY <2>2 DEF vars, NameStep, SecretStep
  <2> QED BY <2>1, <2>2
<1>2. NameOK' /\ NameEnds' BY <1>1, NameKept DEF TextInv
<1>3. SecretOK' /\ SecretEnds' /\ MaskShows' BY <1>1, SecretKept DEF TextInv
<1> QED BY <1>2, <1>3 DEF TextInv

THEOREM TextsCorrect == Spec => []TextsEnd
<1>1. TextInv => TextsEnd BY DEF TextInv, NameEnds, SecretEnds, TextsEnd
<1> QED BY <1>1, TextInvInit, TextInvStep, PTL DEF Spec

(* The mask: what is drawn for the password.                               *)
THEOREM MaskCorrect == Spec => []MaskShows
<1>1. TextInv => MaskShows BY DEF TextInv
<1> QED BY <1>1, TextInvInit, TextInvStep, PTL DEF Spec

(* Both together are what the sign-in page promises of its texts.          *)
THEOREM ShownCorrect == Spec => []TextsShown
<1>1. TextsEnd /\ MaskShows => TextsShown BY DEF TextsShown
<1> QED BY <1>1, TextsCorrect, MaskCorrect, PTL

------------------------------------------------------------------------------
(* The button.  installer_handle_mouse acts on a press when the button is  *)
(* down and was not at the last look: a press it has still to act upon is  *)
(* one more than have been counted.                                        *)
OnceInv ==
  /\ InputOK /\ installer_mouse_last \in BOOLEAN
  /\ clicks <= presses
  /\ Click => clicks < presses

LEMMA OnceInvStep == OnceInv /\ [Next]_vars => OnceInv'
<1> SUFFICES ASSUME OnceInv, [Next]_vars PROVE OnceInv' OBVIOUS
<1> USE DEF OnceInv, InputOK, Click
<1>1. CASE installer_handle_mouse
  <2>1. UNCHANGED input /\ installer_mouse_last' = button
    BY <1>1 DEF installer_handle_mouse
  <2>2. clicks' = IF Click THEN clicks + 1 ELSE clicks
    BY <1>1 DEF installer_handle_mouse
  <2> QED BY <2>1, <2>2 DEF input
<1>2. ASSUME NEW k \in Keys, Takes(k) PROVE OnceInv'
  <2>1. queue' = Tail(queue) /\ queue # <<>> /\ UNCHANGED <<button, typed, presses, mouse>>
    BY <1>2 DEF Takes
  <2>2. queue' \in Seq(Keys) BY <2>1
  <2> QED BY <2>1, <2>2 DEF mouse
<1>3. ASSUME NEW k \in Keys,
             \/ Prefix(k) \/ Extended(k) \/ Choose(k) \/ Enter(k) \/ Tab(k)
             \/ Space(k) \/ Backspace(k) \/ Character(k) \/ Ignored(k)
      PROVE  OnceInv'
  <2>1. Takes(k)
    BY <1>3 DEF Prefix, Extended, Choose, Enter, Tab, Space, Backspace, Character, Ignored, Plain
  <2> QED BY <2>1, <1>2
<1>4. CASE NoKey \/ kernel_late_init
  BY <1>4 DEF NoKey, kernel_late_init, input, mouse
<1>5. CASE poll_keyboard
  <2>1. queue' \in Seq(Keys)
    <3>1. CASE queue = <<>> BY <1>5, <3>1 DEF poll_keyboard
    <3>2. CASE queue # <<>> BY <1>5, <3>2 DEF poll_keyboard
    <3> QED BY <3>1, <3>2
  <2> QED BY <1>5, <2>1 DEF poll_keyboard, mouse
<1>6. ASSUME NEW k \in Keys, Type(k) PROVE OnceInv'
  <2>1. queue' = Append(queue, k) BY <1>6 DEF Type
  <2>2. queue' \in Seq(Keys) BY <2>1
  <2> QED BY <1>6, <2>2 DEF Type, mouse
<1>7. CASE Press BY <1>7 DEF Press, mouse
<1>8. CASE LetGo BY <1>8 DEF LetGo, mouse
<1>9. CASE UNCHANGED vars BY <1>9 DEF vars, input, mouse
<1> QED
  BY <1>1, <1>3, <1>4, <1>5, <1>6, <1>7, <1>8, <1>9
  DEF Next, MainLoop, User, installer_poll

------------------------------------------------------------------------------
(* The way out.  installer_try_finish completes in one step from texts     *)
(* that are both there, and after it no input reaches the wizard.          *)

LEMMA FinishSaves ==
  ASSUME TextInv, ~installer_completed, installer_try_finish,
         UNCHANGED <<choices, name, secret>>
  PROVE  AccountSaved'
<1>1. CASE install_user_len = 0 \/ install_pass_len = 0
  BY <1>1 DEF installer_try_finish, outcome, AccountSaved
<1>2. CASE ~(install_user_len = 0 \/ install_pass_len = 0)
  <2>1. flag' = Flag BY <1>2 DEF installer_try_finish, Complete
  <2>2. install_user_len > 0 /\ install_pass_len > 0
    BY <1>2, SizeAssumption DEF TextInv, NameOK, SecretOK
  <2> QED BY <2>1, <2>2 DEF AccountSaved, Flag, choices, name, secret
<1> QED BY <1>1, <1>2

LEMMA AccountStep == TextInv /\ AccountSaved /\ [Next]_vars => AccountSaved'
<1> SUFFICES ASSUME TextInv, AccountSaved, [Next]_vars PROVE AccountSaved' OBVIOUS
<1>1. ASSUME UNCHANGED outcome, ~installer_completed PROVE AccountSaved'
  BY <1>1 DEF outcome, AccountSaved
<1>2. ASSUME UNCHANGED <<outcome, choices, name, secret>> PROVE AccountSaved'
  BY <1>2 DEF outcome, choices, name, secret, AccountSaved, Flag
<1>3. CASE installer_handle_mouse
  <2>1. ~installer_completed BY <1>3 DEF installer_handle_mouse
  <2>2. CASE ~Click BY <1>3, <2>1, <2>2, <1>1 DEF installer_handle_mouse
  <2>3. CASE Click
    <3>1. PICK i \in Hits[installer_phase] : PromptClick(i) \/ FocusClick(i) \/ AuthClick(i)
      BY <1>3, <2>3 DEF installer_handle_mouse
    <3>2. CASE PromptClick(i) \/ FocusClick(i)
      BY <3>2, <2>1, <1>1 DEF PromptClick, FocusClick
    <3>3. CASE AuthClick(i)
      <4>1. CASE i = SignIn
        <5>1. installer_try_finish /\ UNCHANGED <<choices, name, secret>>
          BY <3>3, <4>1 DEF AuthClick, SignIn
        <5> QED BY <5>1, <2>1, FinishSaves
      <4>2. CASE i # SignIn BY <3>3, <4>2, <2>1, <1>1 DEF AuthClick
      <4> QED BY <4>1, <4>2
    <3> QED BY <3>1, <3>2, <3>3
  <2> QED BY <2>2, <2>3
<1>4. ASSUME NEW k \in Keys,
             \/ Prefix(k) \/ Extended(k) \/ Choose(k) \/ Tab(k) \/ Space(k)
             \/ Backspace(k) \/ Character(k) \/ Ignored(k)
      PROVE  AccountSaved'
  <2>1. ~installer_completed
    BY <1>4 DEF Prefix, Extended, Choose, Tab, Space, Backspace, Character, Ignored, Plain, Takes
  <2>2. UNCHANGED outcome
    BY <1>4 DEF Prefix, Extended, Choose, Tab, Space, Backspace, Character, Ignored
  <2> QED BY <2>1, <2>2, <1>1
<1>5. ASSUME NEW k \in Keys, Enter(k) PROVE AccountSaved'
  <2>1. ~installer_completed /\ UNCHANGED <<choices, name, secret>>
    BY <1>5 DEF Enter, Plain, Takes
  <2>2. CASE installer_phase = 2 BY <1>5, <2>1, <2>2, FinishSaves DEF Enter
  <2>3. CASE installer_phase # 2 BY <1>5, <2>1, <2>3, <1>1 DEF Enter
  <2> QED BY <2>2, <2>3
<1>6. CASE NoKey \/ poll_keyboard
  <2>1. /\ UNCHANGED <<choices, name, secret>>
        /\ UNCHANGED outcome \/ gamemode_toggle \/ devmode_toggle
    BY <1>6 DEF NoKey, poll_keyboard
  <2>2. UNCHANGED <<installer_completed, flag, choices, name, secret>>
    BY <2>1 DEF outcome, gamemode_toggle, devmode_toggle
  <2> QED BY <2>2 DEF choices, name, secret, AccountSaved, Flag
<1>7. CASE kernel_late_init
  <2>1. UNCHANGED <<installer_completed, flag, choices, name, secret>>
    BY <1>7 DEF kernel_late_init
  <2> QED BY <2>1 DEF choices, name, secret, AccountSaved, Flag
<1>8. CASE User BY <1>8, <1>2 DEF User, Type, Press, LetGo
<1>9. CASE UNCHANGED vars BY <1>9, <1>2 DEF vars
<1> QED
  BY <1>3, <1>4, <1>5, <1>6, <1>7, <1>8, <1>9 DEF Next, MainLoop, installer_poll

(* The installer is left only with a name and a password, and the sector   *)
(* that installer_save_disk_flag wrote stays what is in memory.            *)
THEOREM AccountCorrect == Spec => []AccountSaved
<1>1. Init => AccountSaved BY DEF Init, AccountSaved
<1> QED BY <1>1, TextInvInit, TextInvStep, AccountStep, PTL DEF Spec

(* Nothing on the sign-in page, arrow keys included, changes the workspace *)
(* and the focus: installer_selected_ptr points to the third choice there. *)
THEOREM ChoicesCorrect == Spec => EarlierChoicesKept
<1>1. [Next]_vars /\ installer_phase = 2 => UNCHANGED <<install_mode, install_focus>>
  <2> SUFFICES ASSUME [Next]_vars, installer_phase = 2
               PROVE  UNCHANGED <<install_mode, install_focus>>
    OBVIOUS
  <2>1. CASE installer_handle_mouse
    BY <2>1 DEF installer_handle_mouse, PromptClick, FocusClick, AuthClick, choices
  <2>2. ASSUME NEW k \in Keys, Extended(k) \/ Choose(k)
        PROVE  UNCHANGED <<install_mode, install_focus>>
    BY <2>2 DEF Extended, Choose, SetSelected, choices
  <2>3. ASSUME NEW k \in Keys,
               \/ Prefix(k) \/ Enter(k) \/ Tab(k) \/ Space(k)
               \/ Backspace(k) \/ Character(k) \/ Ignored(k)
        PROVE  UNCHANGED <<install_mode, install_focus>>
    BY <2>3 DEF Prefix, Enter, Tab, Space, Backspace, Character, Ignored, choices
  <2>4. CASE NoKey \/ poll_keyboard \/ kernel_late_init
    BY <2>4 DEF NoKey, poll_keyboard, kernel_late_init, choices
  <2>5. CASE User BY <2>5 DEF User, Type, Press, LetGo, choices
  <2>6. CASE UNCHANGED vars BY <2>6 DEF vars, choices
  <2> QED BY <2>1, <2>2, <2>3, <2>4, <2>5, <2>6 DEF Next, MainLoop, installer_poll
<1> QED BY <1>1, PTL DEF Spec, EarlierChoicesKept

------------------------------------------------------------------------------
(* Types.  What is left beside the texts and the input: where the program  *)
(* is, the choices, the form and the modes.                                *)
RestOK == ControlOK /\ ChoicesOK /\ FormOK /\ ModesOK

LEMMA ApplyTypes ==
  ASSUME ChoicesOK, ModesOK, installer_apply_profiles, UNCHANGED switched
  PROVE  ModesOK'
<1>1. Gaming \in BOOLEAN /\ (install_mode \in {LINUX, HYBRID}) \in BOOLEAN BY DEF Gaming
<1>2. compat_profile' \in 0 .. 3 BY DEF installer_apply_profiles, ChoicesOK
<1>3. /\ gamemode_active' = (Gaming \/ gamemode_active)
      /\ scheduler_game_boost' = Gaming
      /\ devmode_active' = (install_mode \in {LINUX, HYBRID} \/ devmode_active)
  BY DEF installer_apply_profiles
<1>4. gamemode_active' \in BOOLEAN BY <1>1, <1>3 DEF ModesOK
<1>5. scheduler_game_boost' \in BOOLEAN BY <1>1, <1>3
<1>6. devmode_active' \in BOOLEAN BY <1>1, <1>3 DEF ModesOK
<1> QED BY <1>2, <1>4, <1>5, <1>6 DEF ModesOK

(* What the desktop's handlers make of a letter.                           *)
LEMMA ToggleTypes ==
  ASSUME ModesOK, installer_completed \in BOOLEAN, gamemode_toggle \/ devmode_toggle
  PROVE  ModesOK' /\ UNCHANGED <<installer_completed, flag>>
BY DEF ModesOK, gamemode_toggle, devmode_toggle

LEMMA FinishTypes ==
  ASSUME ChoicesOK, ModesOK, installer_completed \in BOOLEAN,
         installer_auth_field \in 0 .. 3, installer_try_finish
  PROVE  ModesOK' /\ installer_completed' \in BOOLEAN /\ installer_auth_field' \in 0 .. 3
<1>1. CASE install_user_len = 0 \/ install_pass_len = 0
  <2>1. UNCHANGED outcome BY <1>1 DEF installer_try_finish
  <2>2. ModesOK' BY <2>1 DEF outcome, modes, ModesOK
  <2>3. installer_completed' \in BOOLEAN BY <2>1 DEF outcome
  <2>4. installer_auth_field' \in 0 .. 3 BY <1>1 DEF installer_try_finish
  <2> QED BY <2>2, <2>3, <2>4
<1>2. CASE ~(install_user_len = 0 \/ install_pass_len = 0)
  <2>1. Complete /\ installer_auth_field' = installer_auth_field
    BY <1>2 DEF installer_try_finish
  <2>2. installer_completed' = TRUE BY <2>1 DEF Complete
  <2>3. ModesOK' BY <2>1, ApplyTypes DEF Complete
  <2> QED BY <2>1, <2>2, <2>3
<1> QED BY <1>1, <1>2

LEMMA SelectedTypes ==
  ASSUME ChoicesOK, NEW v \in 0 .. 3, SetSelected(v)
  PROVE  ChoicesOK'
BY DEF ChoicesOK, SetSelected

LEMMA RestStep == RestOK /\ InputOK /\ [Next]_vars => RestOK'
<1> SUFFICES ASSUME RestOK, InputOK, [Next]_vars PROVE RestOK' OBVIOUS
<1>1. ControlOK /\ ChoicesOK /\ FormOK /\ ModesOK BY DEF RestOK
<1>2. ASSUME UNCHANGED choices PROVE ChoicesOK' BY <1>1, <1>2 DEF choices, ChoicesOK
<1>3. ASSUME UNCHANGED form PROVE FormOK' BY <1>1, <1>3 DEF form, FormOK
<1>4. ASSUME UNCHANGED outcome PROVE ModesOK' /\ installer_completed' \in BOOLEAN
  <2>1. ModesOK' BY <1>1, <1>4 DEF outcome, modes, ModesOK
  <2>2. installer_completed' \in BOOLEAN BY <1>1, <1>4 DEF outcome, ControlOK
  <2> QED BY <2>1, <2>2
<1>5. ASSUME UNCHANGED <<form, outcome, choices>>,
             pc' \in {"mouse", "poll", "rest", "late", "desktop"},
             installer_key_ext' \in BOOLEAN, installer_mouse_last' \in BOOLEAN
      PROVE  RestOK'
  BY <1>2, <1>3, <1>4, <1>5 DEF RestOK, ControlOK
<1>6. CASE installer_handle_mouse
  <2>1. /\ pc' = "poll" /\ installer_mouse_last' = button
        /\ installer_key_ext' = installer_key_ext
    BY <1>6 DEF installer_handle_mouse
  <2>2. /\ pc' \in {"mouse", "poll", "rest", "late", "desktop"}
        /\ installer_mouse_last' \in BOOLEAN /\ installer_key_ext' \in BOOLEAN
    BY <2>1, <1>1 DEF InputOK, ControlOK
  <2>3. CASE ~Click BY <1>6, <2>2, <2>3, <1>5 DEF installer_handle_mouse
  <2>4. CASE Click
    <3>1. PICK i \in Hits[installer_phase] : PromptClick(i) \/ FocusClick(i) \/ AuthClick(i)
      BY <1>6, <2>4 DEF installer_handle_mouse
    <3>2. i \in 0 .. 4 \union {Miss} BY <1>1, <3>1 DEF Hits, FormOK
    <3>3. CASE PromptClick(i)
      <4>1. ChoicesOK' BY <1>1, <3>2, <3>3 DEF PromptClick, ChoicesOK, Continue, Miss
      <4>2. FormOK' BY <1>1, <3>3 DEF PromptClick, FormOK
      <4> QED BY <4>1, <4>2, <3>3, <1>4, <2>2 DEF PromptClick, RestOK, ControlOK
    <3>4. CASE FocusClick(i)
      <4>1. ChoicesOK' BY <1>1, <3>2, <3>4 DEF FocusClick, ChoicesOK, Continue, Miss
      <4>2. FormOK' BY <1>1, <3>4 DEF FocusClick, FormOK
      <4> QED BY <4>1, <4>2, <3>4, <1>4, <2>2 DEF FocusClick, RestOK, ControlOK
    <3>5. CASE AuthClick(i)
      <4>1. ChoicesOK' BY <3>5, <1>2 DEF AuthClick
      <4>2. installer_remember' \in BOOLEAN BY <1>1, <3>5 DEF AuthClick, FormOK
      <4>3. installer_phase' \in 0 .. 2 BY <1>1, <3>5 DEF AuthClick, FormOK
      <4>4. ModesOK' /\ installer_completed' \in BOOLEAN /\ installer_auth_field' \in 0 .. 3
        <5>1. CASE i = SignIn
          BY <3>5, <5>1, <1>1, FinishTypes DEF AuthClick, ControlOK, FormOK
        <5>2. CASE i # SignIn
          <6>1. installer_auth_field' \in 0 .. 3
            BY <3>5, <5>2, <3>2, <1>1 DEF AuthClick, FormOK, SignIn, Miss
          <6> QED BY <6>1, <3>5, <5>2, <1>4 DEF AuthClick
        <5> QED BY <5>1, <5>2
      <4> QED BY <4>1, <4>2, <4>3, <4>4, <2>2 DEF RestOK, ControlOK, FormOK
    <3> QED BY <3>1, <3>3, <3>4, <3>5
  <2> QED BY <2>3, <2>4
<1>7. ASSUME NEW k \in Keys, Takes(k), installer_key_ext' \in BOOLEAN,
             ChoicesOK', FormOK', ModesOK', installer_completed' \in BOOLEAN
      PROVE  RestOK'
  BY <1>7, <1>1 DEF Takes, mouse, RestOK, ControlOK
<1>8. ASSUME NEW k \in Keys, Plain(k) PROVE Takes(k) /\ installer_key_ext' \in BOOLEAN
  BY <1>8, <1>1 DEF Plain, ControlOK
<1>9. ASSUME NEW k \in Keys, Prefix(k) PROVE RestOK'
  BY <1>9, <1>7, <1>2, <1>3, <1>4 DEF Prefix
<1>10. ASSUME NEW k \in Keys, Extended(k) PROVE RestOK'
  <2>1. Above \in 0 .. 3 /\ Below \in 0 .. 3
    <3>1. Selected \in 0 .. 3 BY <1>1 DEF Selected, ChoicesOK
    <3> QED BY <3>1 DEF Above, Below
  <2>2. ChoicesOK'
    <3>1. CASE k \in {"up", "down"}
      <4>1. SetSelected(Above) \/ SetSelected(Below) BY <1>10, <3>1 DEF Extended
      <4> QED BY <4>1, <2>1, <1>1, SelectedTypes
    <3>2. CASE k \notin {"up", "down"} BY <1>10, <3>2, <1>2 DEF Extended
    <3> QED BY <3>1, <3>2
  <2>3. Takes(k) /\ installer_key_ext' \in BOOLEAN BY <1>10 DEF Extended
  <2> QED BY <1>10, <2>2, <2>3, <1>7, <1>3, <1>4 DEF Extended
<1>11. ASSUME NEW k \in Keys, Choose(k) PROVE RestOK'
  <2>1. Digit(k) \in 0 .. 3 BY <1>11 DEF Choose, Digit, Digits
  <2>2. ChoicesOK' BY <1>11, <2>1, <1>1, SelectedTypes DEF Choose
  <2> QED BY <1>11, <2>2, <1>8, <1>7, <1>3, <1>4 DEF Choose
<1>12. ASSUME NEW k \in Keys, Enter(k) PROVE RestOK'
  <2>1. Plain(k) /\ ChoicesOK' /\ installer_remember' \in BOOLEAN
    BY <1>12, <1>2, <1>1 DEF Enter, FormOK
  <2>2. CASE installer_phase = 2
    <3>1. ModesOK' /\ installer_completed' \in BOOLEAN /\ installer_auth_field' \in 0 .. 3
      BY <1>12, <2>2, <1>1, FinishTypes DEF Enter, ControlOK, FormOK
    <3>2. FormOK' BY <1>12, <2>1, <2>2, <3>1 DEF Enter, FormOK
    <3> QED BY <2>1, <3>1, <3>2, <1>7, <1>8
  <2>3. CASE installer_phase # 2
    <3>1. FormOK' BY <1>12, <2>1, <2>3, <1>1 DEF Enter, FormOK
    <3> QED BY <1>12, <2>1, <2>3, <3>1, <1>4, <1>7, <1>8 DEF Enter
  <2> QED BY <2>2, <2>3
<1>13. ASSUME NEW k \in Keys, Tab(k) PROVE RestOK'
  <2>1. FormOK' BY <1>13, <1>1 DEF Tab, FormOK
  <2> QED BY <1>13, <2>1, <1>2, <1>4, <1>7, <1>8 DEF Tab
<1>14. ASSUME NEW k \in Keys, Space(k) PROVE RestOK'
  <2>1. FormOK' BY <1>14, <1>1 DEF Space, FormOK
  <2> QED BY <1>14, <2>1, <1>2, <1>4, <1>7, <1>8 DEF Space
<1>15. ASSUME NEW k \in Keys, Backspace(k) \/ Character(k) \/ Ignored(k) PROVE RestOK'
  BY <1>15, <1>2, <1>3, <1>4, <1>7, <1>8 DEF Backspace, Character, Ignored
<1>16. CASE NoKey
  BY <1>16, <1>1, <1>5 DEF NoKey, mouse, ControlOK
<1>20. CASE poll_keyboard
  <2>1. /\ UNCHANGED <<choices, form, mouse, installer_key_ext>>
        /\ pc' \in {"mouse", "late"}
        /\ UNCHANGED outcome \/ gamemode_toggle \/ devmode_toggle
    BY <1>20 DEF poll_keyboard
  <2>2. ModesOK' /\ installer_completed' \in BOOLEAN
    BY <1>1, <1>4, <2>1, ToggleTypes DEF ControlOK
  <2>3. ControlOK' BY <1>1, <2>1, <2>2 DEF mouse, ControlOK
  <2> QED BY <1>2, <1>3, <2>1, <2>2, <2>3 DEF RestOK
<1>17. CASE kernel_late_init
  <2>1. ModesOK'
    <3>1. compat_profile' = HYBRID BY <1>17 DEF kernel_late_init
    <3>2. gamemode_active' = FALSE /\ devmode_active' = FALSE BY <1>17 DEF kernel_late_init
    <3>3. scheduler_game_boost' \in BOOLEAN BY <1>17, <1>1 DEF kernel_late_init, ModesOK
    <3>4. compat_profile' \in 0 .. 3 BY <3>1 DEF HYBRID
    <3>5. gamemode_active' \in BOOLEAN /\ devmode_active' \in BOOLEAN BY <3>2
    <3>6. switched' \in BOOLEAN BY <1>17, <1>1 DEF kernel_late_init, ModesOK
    <3> QED BY <3>3, <3>4, <3>5, <3>6 DEF ModesOK
  <2>2. ControlOK' BY <1>17, <1>1 DEF kernel_late_init, mouse, ControlOK
  <2> QED BY <1>17, <2>1, <2>2, <1>2, <1>3 DEF kernel_late_init, RestOK
<1>18. CASE User BY <1>18, <1>1, <1>5 DEF User, Type, Press, LetGo, mouse, ControlOK
<1>19. CASE UNCHANGED vars BY <1>19, <1>1, <1>5 DEF vars, mouse, ControlOK
<1> QED
  BY <1>6, <1>9, <1>10, <1>11, <1>12, <1>13, <1>14, <1>15, <1>16, <1>17, <1>18, <1>19, <1>20
  DEF Next, MainLoop, installer_poll

LEMMA RestInit == Init => RestOK /\ OnceInv
<1> SUFFICES ASSUME Init PROVE RestOK /\ OnceInv OBVIOUS
<1>1. queue \in Seq(Keys) BY DEF Init
<1>2. button = FALSE /\ installer_mouse_last = FALSE BY DEF Init
<1>3. typed = 0 /\ presses = 0 /\ clicks = 0 BY DEF Init
<1>4. OnceInv
  <2>1. ~Click BY <1>2 DEF Click
  <2>2. button \in BOOLEAN /\ installer_mouse_last \in BOOLEAN BY <1>2
  <2>3. typed \in Nat /\ presses \in Nat /\ clicks \in Nat /\ clicks <= presses BY <1>3
  <2> QED BY <1>1, <2>1, <2>2, <2>3 DEF OnceInv, InputOK
<1>5. installer_key_ext = FALSE /\ installer_completed = FALSE /\ pc = "mouse" BY DEF Init
<1>6. ControlOK BY <1>2, <1>5 DEF ControlOK
<1>7. install_mode = 3 /\ install_focus = 2 /\ install_user = 1 BY DEF Init, HYBRID
<1>8. ChoicesOK BY <1>7 DEF ChoicesOK
<1>9. installer_phase = 0 /\ installer_auth_field = 0 BY DEF Init
<1>10. installer_remember \in BOOLEAN BY DEF Init
<1>11. FormOK BY <1>9, <1>10 DEF FormOK
<1>12. gamemode_active \in BOOLEAN /\ scheduler_game_boost \in BOOLEAN
       /\ devmode_active \in BOOLEAN /\ switched \in BOOLEAN
  BY DEF Init
<1>13. compat_profile = 0 BY DEF Init, MAC
<1>14. ModesOK BY <1>12, <1>13 DEF ModesOK
<1> QED BY <1>4, <1>6, <1>8, <1>11, <1>14 DEF RestOK

(* A press of the button is acted upon at most once, over any number of    *)
(* iterations and pages.                                                   *)
THEOREM PressCorrect == Spec => []OncePerPress
<1>1. OnceInv => OncePerPress BY DEF OnceInv, OncePerPress
<1> QED BY <1>1, RestInit, OnceInvStep, PTL DEF Spec

(* Every variable keeps its type; in particular the texts of init_         *)
(* installer's buffers are never written past their end.                   *)
THEOREM TypeCorrect == Spec => []TypeOK
<1> DEFINE Inv == RestOK /\ OnceInv /\ TextInv
<1>1. Init => Inv BY RestInit, TextInvInit
<1>2. Inv /\ [Next]_vars => Inv'
  <2>1. OnceInv => InputOK BY DEF OnceInv
  <2> QED BY <2>1, RestStep, OnceInvStep, TextInvStep
<1>3. Inv => TypeOK BY DEF RestOK, OnceInv, TextInv, TypeOK
<1> HIDE DEF Inv
<1> QED BY <1>1, <1>2, <1>3, PTL DEF Spec

------------------------------------------------------------------------------
(* Where the sign-in page is hit.                                          *)

(* What is drawn of a part lies in its box, and no two boxes meet; but on  *)
(* a framebuffer of 1920 and more the labels are drawn twice as large and  *)
(* reach out of theirs.                                                    *)
LEMMA DrawnIsHit ==
  ASSUME Width < 1920, NEW i \in 0 .. 4, NEW p \in Points, Drawn(i, p)
  PROVE  Hit(2, p, i)
<1>1. PICK left, top \in Int : left = Base(2).x /\ top = Base(2).y
  BY ScreenAssumption DEF Base, PageWidth, PageHeight
<1>2. PICK x, y \in Int : x = p.x - left /\ y = p.y - top
  BY <1>1, PointAssumption
<1>3. Scale = 1  BY ScreenAssumption DEF Scale
<1>4. /\ i = 0 => x \in 260 .. 679 /\ y \in 154 .. 199
      /\ i = 1 => x \in 260 .. 679 /\ y \in 254 .. 299
      /\ i = 2 => x \in 260 .. 403 /\ y \in 318 .. 333
      /\ i = 3 => x \in 260 .. 387 /\ y \in 352 .. 367
      /\ i = 4 => x \in 490 .. 709 /\ y \in 386 .. 433
  BY <1>1, <1>2, <1>3 DEF Drawn, render_navine_auth_page, Box
<1>5. \A j \in 0 .. 4 : j \in HitsAt(2, p) <=>
         \/ j = 0 /\ x \in 260 .. 680 /\ y \in 154 .. 200
         \/ j = 1 /\ x \in 260 .. 680 /\ y \in 254 .. 300
         \/ j = 2 /\ x \in 260 .. 680 /\ y \in 312 .. 340
         \/ j = 3 /\ x \in 260 .. 680 /\ y \in 346 .. 374
         \/ j = 4 /\ x \in 490 .. 710 /\ y \in 386 .. 434
  BY <1>1, <1>2 DEF HitsAt, Inside, Boxes, installer_auth_hit, Box
<1>6. HitsAt(2, p) \subseteq 0 .. 4  BY DEF HitsAt
<1>7. i \in HitsAt(2, p) /\ \A j \in HitsAt(2, p) : i <= j
  BY <1>2, <1>4, <1>5, <1>6
<1>8. i # Miss  BY DEF Miss
<1> QED  BY <1>7, <1>8 DEF Hit

(* On the sign-in page a click on what is drawn hits it, wherever the page *)
(* lies, as long as the letters are drawn in their single size.            *)
THEOREM SignInCorrect ==
  ASSUME Width < 1920
  PROVE  Spec => []SignInHitsDrawn
<1>1. SignInHitsDrawn
  <2>1. \A i \in 0 .. 4 : \A p \in Points : Drawn(i, p) => Hit(2, p, i)
    BY DrawnIsHit
  <2> QED  BY <2>1 DEF SignInHitsDrawn, Misdrawn
<1> QED  BY <1>1, PTL

------------------------------------------------------------------------------
(* The profile.  kernel_late_init initialises the compatibility layers,    *)
(* the gamemode and the devmode after the installer has applied what was   *)
(* chosen; the scheduler alone keeps it, unless the key poll_keyboard takes *)
(* in the iteration of the completion switches game mode.                  *)
ModesReset ==
  /\ compat_profile = HYBRID /\ ~gamemode_active /\ ~devmode_active
  /\ switched \/ scheduler_game_boost = Gaming

ProfileInv ==
  /\ installer_completed => switched \/ scheduler_game_boost = Gaming
  /\ pc \in {"late", "desktop"} => installer_completed
  /\ pc = "desktop" => ModesReset

LEMMA FinishApplies ==
  ASSUME ~installer_completed, installer_try_finish, UNCHANGED choices
  PROVE  installer_completed' => switched' \/ scheduler_game_boost' = Gaming'
<1>1. CASE install_user_len = 0 \/ install_pass_len = 0
  BY <1>1 DEF installer_try_finish, outcome
<1>2. CASE ~(install_user_len = 0 \/ install_pass_len = 0)
  <2>1. scheduler_game_boost' = Gaming
    BY <1>2 DEF installer_try_finish, Complete, installer_apply_profiles
  <2> QED BY <2>1 DEF choices, Gaming
<1> QED BY <1>1, <1>2

LEMMA ProfileStep == ProfileInv /\ [Next]_vars => ProfileInv'
<1> SUFFICES ASSUME ProfileInv, [Next]_vars PROVE ProfileInv' OBVIOUS
<1>1. ASSUME pc' \in {"mouse", "poll", "rest"},
             installer_completed' => switched' \/ scheduler_game_boost' = Gaming'
      PROVE  ProfileInv'
  BY <1>1 DEF ProfileInv
<1>2. ASSUME UNCHANGED outcome, ~installer_completed PROVE ~installer_completed'
  BY <1>2 DEF outcome
<1>3. ASSUME UNCHANGED <<choices, outcome>>
      PROVE  Gaming' = Gaming /\ (ModesReset <=> ModesReset')
  BY <1>3 DEF choices, outcome, modes, Gaming, ModesReset
<1>4. CASE installer_handle_mouse
  <2>1. ~installer_completed /\ pc' = "poll" BY <1>4 DEF installer_handle_mouse
  <2>2. CASE ~Click BY <1>4, <2>1, <2>2, <1>1, <1>2 DEF installer_handle_mouse
  <2>3. CASE Click
    <3>1. PICK i \in Hits[installer_phase] : PromptClick(i) \/ FocusClick(i) \/ AuthClick(i)
      BY <1>4, <2>3 DEF installer_handle_mouse
    <3>2. CASE PromptClick(i) \/ FocusClick(i)
      BY <3>2, <2>1, <1>1, <1>2 DEF PromptClick, FocusClick
    <3>3. CASE AuthClick(i)
      <4>1. CASE i = SignIn BY <3>3, <4>1, <2>1, <1>1, FinishApplies DEF AuthClick
      <4>2. CASE i # SignIn BY <3>3, <4>2, <2>1, <1>1, <1>2 DEF AuthClick
      <4> QED BY <4>1, <4>2
    <3> QED BY <3>1, <3>2, <3>3
  <2> QED BY <2>2, <2>3
<1>5. ASSUME NEW k \in Keys,
             \/ Prefix(k) \/ Extended(k) \/ Choose(k) \/ Tab(k) \/ Space(k)
             \/ Backspace(k) \/ Character(k) \/ Ignored(k)
      PROVE  ProfileInv'
  <2>1. ~installer_completed /\ pc' = "rest"
    BY <1>5 DEF Prefix, Extended, Choose, Tab, Space, Backspace, Character, Ignored, Plain, Takes
  <2>2. UNCHANGED outcome
    BY <1>5 DEF Prefix, Extended, Choose, Tab, Space, Backspace, Character, Ignored
  <2> QED BY <2>1, <2>2, <1>1, <1>2
<1>6. ASSUME NEW k \in Keys, Enter(k) PROVE ProfileInv'
  <2>1. ~installer_completed /\ pc' = "rest" /\ UNCHANGED choices
    BY <1>6 DEF Enter, Plain, Takes
  <2>2. CASE installer_phase = 2 BY <1>6, <2>1, <2>2, <1>1, FinishApplies DEF Enter
  <2>3. CASE installer_phase # 2 BY <1>6, <2>1, <2>3, <1>1, <1>2 DEF Enter
  <2> QED BY <2>2, <2>3
<1>7. ASSUME UNCHANGED <<choices, outcome>>,
             \/ pc' = pc
             \/ pc' \in {"mouse", "poll", "rest"}
             \/ pc' = "late" /\ installer_completed
      PROVE  ProfileInv'
  <2>1. pc = "desktop" => ModesReset BY DEF ProfileInv
  <2>2. installer_completed => switched \/ scheduler_game_boost = Gaming BY DEF ProfileInv
  <2>3. UNCHANGED <<installer_completed, scheduler_game_boost, switched>> BY <1>7 DEF outcome, modes
  <2>4. pc' = "desktop" => pc = "desktop" BY <1>7
  <2>5. pc' \in {"late", "desktop"} => installer_completed BY <1>7 DEF ProfileInv
  <2> QED BY <1>3, <1>7, <2>1, <2>2, <2>3, <2>4, <2>5 DEF ProfileInv
<1>8. CASE NoKey BY <1>8, <1>7 DEF NoKey
<1>9. CASE poll_keyboard
  <2>1. CASE UNCHANGED outcome BY <1>9, <1>7, <2>1 DEF poll_keyboard
  <2>2. CASE gamemode_toggle \/ devmode_toggle
    <3>1. /\ pc' = IF installer_completed THEN "late" ELSE "mouse"
          /\ UNCHANGED <<choices, installer_completed>>
      BY <1>9, <2>2 DEF poll_keyboard, gamemode_toggle, devmode_toggle
    <3>2. installer_completed' => switched' \/ scheduler_game_boost' = Gaming'
      BY <2>2, <3>1 DEF gamemode_toggle, devmode_toggle, ProfileInv, choices, Gaming
    <3> QED BY <3>1, <3>2 DEF ProfileInv
  <2> QED BY <1>9, <2>1, <2>2 DEF poll_keyboard
<1>10. CASE kernel_late_init
  <2>1. (switched' \/ scheduler_game_boost' = Gaming') /\ installer_completed'
    BY <1>10 DEF kernel_late_init, ProfileInv, choices, Gaming
  <2> QED BY <1>10, <2>1 DEF kernel_late_init, ProfileInv, ModesReset, HYBRID
<1>11. CASE User BY <1>11, <1>7 DEF User, Type, Press, LetGo
<1>12. CASE UNCHANGED vars BY <1>12, <1>7 DEF vars
<1> QED
  BY <1>4, <1>5, <1>6, <1>8, <1>9, <1>10, <1>11, <1>12 DEF Next, MainLoop, installer_poll

(* On the desktop the profile is the hybrid one and both modes are off,    *)
(* whatever was chosen and whatever keys came; the scheduler's boost still *)
(* follows the choice, unless game mode was switched by hand in between.   *)
(* The disagreement that the run InstallerProfile shows on one behaviour   *)
(* holds of every behaviour that reaches the desktop.                      *)
THEOREM ProfileReset == Spec => [](pc = "desktop" => ModesReset)
<1>1. Init => ProfileInv BY DEF Init, ProfileInv
<1>2. ProfileInv => (pc = "desktop" => ModesReset) BY DEF ProfileInv
<1> QED BY <1>1, <1>2, ProfileStep, PTL DEF Spec
==============================================================================
