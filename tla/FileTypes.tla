------------------------------ MODULE FileTypes ------------------------------
(***************************************************************************)
(* The file type registry.  ext_table is meant as rows of sixteen bytes: a *)
(* name padded to twelve, the type, three more.  Most rows are written one *)
(* byte short or long of that, while the search goes on in steps of        *)
(* sixteen, so it is the bytes that are modelled here and not the rows: a  *)
(* byte is a letter as a string of one, a type by its name, or a zero.     *)
(***************************************************************************)
EXTENDS Integers, Sequences, SequencesExt

Zero == "0x00"

(* The rows as they are written: name, bytes before the type, type.        *)
Rows16 ==
  <<<<"txt", 12, "FT_TEXT">>, <<"log", 12, "FT_TEXT">>, <<"md", 12, "FT_TEXT">>,
    <<"cfg", 12, "FT_TEXT">>, <<"ini", 12, "FT_TEXT">>, <<"c", 12, "FT_TEXT">>,
    <<"h", 12, "FT_TEXT">>, <<"asm", 11, "FT_TEXT">>, <<"inc", 12, "FT_TEXT">>,
    <<"py", 12, "FT_TEXT">>, <<"xml", 12, "FT_TEXT">>, <<"yaml", 12, "FT_TEXT">>,
    <<"yml", 12, "FT_TEXT">>, <<"csv", 12, "FT_TEXT">>, <<"css", 12, "FT_TEXT">>,
    <<"json", 12, "FT_JSON">>, <<"html", 12, "FT_HTML">>, <<"htm", 12, "FT_HTML">>,
    <<"js", 12, "FT_SCRIPT">>, <<"ts", 12, "FT_SCRIPT">>, <<"sh", 12, "FT_SCRIPT">>,
    <<"bat", 12, "FT_SCRIPT">>, <<"ps1", 12, "FT_SCRIPT">>, <<"cmd", 12, "FT_SCRIPT">>,
    <<"bin", 12, "FT_BINARY">>, <<"navelf", 13, "FT_ELF">>, <<"elf", 12, "FT_ELF">>,
    <<"so", 12, "FT_ELF">>, <<"AppImage", 13, "FT_APPIMAGE">>, <<"dmg", 12, "FT_DMG">>,
    <<"sparseimage", 13, "FT_DMG">>, <<"o", 12, "FT_BINARY">>, <<"obj", 12, "FT_BINARY">>,
    <<"wad", 12, "FT_WAD">>, <<"doom", 12, "FT_DOOM">>, <<"navinetheme", 14, "FT_THEME">>,
    <<"theme", 12, "FT_THEME">>, <<"nplugin", 13, "FT_PLUGIN">>,
    <<"plugin", 13, "FT_PLUGIN">>, <<"navapp", 12, "FT_NAVAPP">>,
    <<"app", 12, "FT_NAVAPP">>, <<"wav", 12, "FT_MEDIA">>, <<"mp3", 12, "FT_MEDIA">>,
    <<"ogg", 12, "FT_MEDIA">>, <<"flac", 12, "FT_MEDIA">>, <<"mid", 12, "FT_MEDIA">>,
    <<"png", 12, "FT_IMAGE">>, <<"jpg", 12, "FT_IMAGE">>, <<"jpeg", 12, "FT_IMAGE">>,
    <<"gif", 12, "FT_IMAGE">>, <<"bmp", 12, "FT_IMAGE">>, <<"webp", 11, "FT_IMAGE">>,
    <<"ico", 12, "FT_IMAGE">>, <<"zip", 12, "FT_ARCHIVE">>, <<"tar", 12, "FT_ARCHIVE">>,
    <<"gz", 12, "FT_ARCHIVE">>, <<"7z", 12, "FT_ARCHIVE">>, <<"rar", 12, "FT_ARCHIVE">>,
    <<"exe", 12, "FT_PE">>, <<"dll", 12, "FT_PE">>, <<"sys", 12, "FT_PE">>,
    <<"iso", 12, "FT_DISK">>, <<"img", 12, "FT_DISK">>, <<"vdi", 12, "FT_DISK">>,
    <<"vmdk", 12, "FT_DISK">>, <<"qcow2", 11, "FT_DISK">>>>

Letters(name) == [i \in 1 .. Len(name) |-> SubSeq(name, i, i)]
Zeros(n) == [i \in 1 .. n |-> Zero]

RowBytes(row) ==
  Letters(row[1]) \o Zeros(row[2] - Len(row[1])) \o <<row[3]>> \o Zeros(3)

ext_table ==
  FlattenSeq([i \in DOMAIN Rows16 |-> RowBytes(Rows16[i])]) \o <<Zero>>

(* match_ext: the bytes from a place in the table up to the next zero are  *)
(* the start of the extension.                                             *)
NameAt(table, at) ==
  LET end == CHOOSE e \in at .. Len(table) :
               table[e] = Zero /\ \A i \in at .. e - 1 : table[i] # Zero
  IN  SubSeq(table, at, end - 1)

match_ext(table, at, ext) == IsPrefix(NameAt(table, at), ext)

FT_ENTRY_SIZE == 16

(* filetype_get_handler, behind find_extension: the search goes through    *)
(* the table in steps of FT_ENTRY_SIZE until a step begins with a zero,    *)
(* and takes the type from the twelfth byte of the first that matches.     *)
filetype_get_handler(extension) ==
  LET table == ext_table
      At(n) == 1 + (n - 1) * FT_ENTRY_SIZE
      Ends(n)  == table[At(n)] = Zero
      Stops(n) == Ends(n) \/ match_ext(table, At(n), Letters(extension))
      first == CHOOSE n \in 1 .. (Len(table) \div FT_ENTRY_SIZE) :
                 Stops(n) /\ \A m \in 1 .. n - 1 : ~Stops(m)
      type  == table[At(first) + 12]
  IN  IF Ends(first) \/ type = Zero THEN "FT_UNKNOWN" ELSE type

(* The extensions of files.asm's ten entries, in their order.              *)
VaultExtensions == <<"txt", "txt", "json", "html", "sh", "wad", "exe", "elf",
                     "navapp", "dmg">>
==============================================================================
