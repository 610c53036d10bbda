----------------------------- MODULE DoomStrings -----------------------------
(***************************************************************************)
(* The routines of the DOOM port's C library that read strings and change  *)
(* nothing (apps/doom/navine_libc.c).  A string is the sequence of its     *)
(* bytes, the terminator not among them; a loop is the first place where   *)
(* it stops, counted from 1.                                               *)
(***************************************************************************)
EXTENDS Integers, Sequences, FiniteSetsExt

CONSTANTS LeftStrings, RightStrings,   \* what the game compares
          Limits,                      \* and how many bytes of it
          WadNames,                    \* doom1.wad, doom.wad, doom2.wad
          Slashes,
          IntWidth                     \* 2^32, for int and for long

ASSUME StringValues ==
    /\ LeftStrings \cup RightStrings \cup WadNames \subseteq Seq(1 .. 255)
    /\ Limits \subseteq Nat
    /\ Slashes \subseteq (1 .. 255) \ (65 .. 90 \cup 97 .. 122)   \* no letters
    /\ \A name \in WadNames : \A i \in 1 .. Len(name) : name[i] \notin Slashes
    /\ IntWidth \in Nat \ {0} /\ IntWidth % 2 = 0

VARIABLES left, right, limit   \* the arguments of a call

stringVars == <<left, right, limit>>

StringsInit == left \in LeftStrings /\ right \in RightStrings /\ limit \in Limits

-----------------------------------------------------------------------------
At(str, i) == IF i <= Len(str) THEN str[i] ELSE 0
Until(str) == 1 .. Len(str) + 1

\* char is signed.
Char(byte) == IF byte >= 128 THEN byte - 256 ELSE byte

tolower(c) == IF c \in 65 .. 90 THEN c + 32 ELSE c
toupper(c) == IF c \in 97 .. 122 THEN c - 32 ELSE c
isdigit(c) == c \in 48 .. 57
isspace(c) == c \in {32, 9, 10, 13}
abs(x) == IF x < 0 THEN -x ELSE x

strcmp(a, b) ==
    LET i == Min({ j \in Until(a) : At(a, j) = 0 \/ At(a, j) # At(b, j) })
    IN  At(a, i) - At(b, i)

\* The count may run out first.
strncmp(a, b, n) ==
    LET i == Min({ j \in Until(a) : At(a, j) = 0 \/ At(a, j) # At(b, j) } \cup {n + 1})
    IN  IF i = n + 1 THEN 0 ELSE At(a, i) - At(b, i)

\* Where the letters differ, without their case, or one string ends.
CaseStops(a, b) ==
    { j \in Until(a) : \/ At(a, j) = 0 \/ At(b, j) = 0
                       \/ tolower(Char(At(a, j))) # tolower(Char(At(b, j))) }

CaseDifference(a, b, i) ==
    IF At(a, i) = 0 \/ At(b, i) = 0 THEN Char(At(a, i)) - Char(At(b, i))
    ELSE tolower(Char(At(a, i))) - tolower(Char(At(b, i)))

strcasecmp(a, b) == CaseDifference(a, b, Min(CaseStops(a, b)))

strncasecmp(a, b, n) ==
    LET i == Min(CaseStops(a, b) \cup {n + 1})
    IN  IF i = n + 1 THEN 0 ELSE CaseDifference(a, b, i)

\* Memory holds the strings, their terminators, and no more than n bytes of it
\* are looked at.
memcmp(a, b, n) ==
    LET i == Min({ j \in 1 .. n : At(a, j) # At(b, j) } \cup {n + 1})
    IN  IF i = n + 1 THEN 0 ELSE At(a, i) - At(b, i)

\* Places in a string, 0 for NULL.  The terminator is never found.
strchr(str, c) ==
    LET found == { i \in 1 .. Len(str) : str[i] = c }
    IN  IF found = {} THEN 0 ELSE Min(found)

strrchr(str, c) ==
    LET found == { i \in 1 .. Len(str) : str[i] = c }
    IN  IF found = {} THEN 0 ELSE Max(found)

From(str, i) == SubSeq(str, i, Len(str))

strstr(haystack, needle) ==
    LET found == { i \in 1 .. Len(haystack) :
                      strncmp(From(haystack, i), needle, Len(needle)) = 0 }
    IN  IF needle = <<>> THEN 1 ELSE IF found = {} THEN 0 ELSE Min(found)

\* strtol stops at the first byte that is no digit, whatever the base: a sign
\* stops it at once.  endptr is the place it stopped at.
Endptr(str) == Min({ i \in Until(str) : ~isdigit(At(str, i)) })

\* What is kept of a number.  C leaves the overflow undefined; additions and
\* multiplications of the machine, in however wide a register, agree on this.
IntMax == IntWidth \div 2 - 1
Wrap(x) == ((x + IntWidth \div 2) % IntWidth) - IntWidth \div 2

\* Slip: the character is taken for its digit.
Digit_character(n, i, str) == Wrap(n * 10 + str[i])

Digit(n, i, str) == Wrap(n * 10 + (str[i] - 48))
strtol(str) ==
    LET upTo[i \in 0 .. Endptr(str) - 1] ==
            IF i = 0 THEN 0 ELSE Digit(upTo[i - 1], i, str)
    IN  upTo[Endptr(str) - 1]

\* A minus is taken, a plus or a space is not.
atoi(str) == IF At(str, 1) = 45 THEN Wrap(-strtol(From(str, 2))) ELSE strtol(str)

\* The last part of a path is one of the names the WAD goes by.
BaseName(path) == From(path, Max({ i \in 1 .. Len(path) : path[i] \in Slashes } \cup {0}) + 1)
navine_is_embedded_wad(path) == \E name \in WadNames : strcasecmp(BaseName(path), name) = 0

\* There is one file, the WAD; everything else is as if it were not there,
\* except that access finds every file.
fopen(path) == navine_is_embedded_wad(path)

-----------------------------------------------------------------------------
(* What C says of them *)

Sign(x) == IF x < 0 THEN -1 ELSE IF x > 0 THEN 1 ELSE 0

IsBegin(a, b) == Len(a) <= Len(b) /\ a = SubSeq(b, 1, Len(a))

\* The order of a dictionary, bytes in the order of their numbers.
Ordered(a, b) ==
    IF a = b THEN 0
    ELSE IF IsBegin(a, b) THEN -1
    ELSE IF IsBegin(b, a) THEN 1
    ELSE LET i == CHOOSE i \in 1 .. Len(a) : a[i] # b[i] /\ SubSeq(a, 1, i - 1) = SubSeq(b, 1, i - 1)
         IN  IF a[i] < b[i] THEN -1 ELSE 1

Cut(str, n) == SubSeq(str, 1, IF n < Len(str) THEN n ELSE Len(str))
Lower(str) == [i \in 1 .. Len(str) |-> tolower(str[i])]
AllAscii(str) == \A i \in 1 .. Len(str) : str[i] < 128

IsNumber(str) == str # <<>> /\ \A i \in 1 .. Len(str) : isdigit(str[i])

\* Every digit times the weight of its place, added up.
Value(str) ==
    LET weight[k \in 0 .. Len(str)] == IF k = 0 THEN 1 ELSE 10 * weight[k - 1]
        sum[i \in 0 .. Len(str)] ==
            IF i = 0 THEN 0 ELSE sum[i - 1] + (str[i] - 48) * weight[Len(str) - i]
    IN  sum[Len(str)]

(***************************************************************************)
(* The comparisons answer the sign of the order of the two strings, of     *)
(* their first bytes, and of the same without their case (bytes above 127  *)
(* only equal or not: char is signed here).                                *)
(***************************************************************************)
OrdersExact ==
    /\ Sign(strcmp(left, right)) = Ordered(left, right)
    /\ Sign(strncmp(left, right, limit)) = Ordered(Cut(left, limit), Cut(right, limit))
    /\ limit <= Len(left) + 1 /\ limit <= Len(right) + 1 =>
          Sign(memcmp(left, right, limit)) = Ordered(Cut(left, limit), Cut(right, limit))
    /\ (strcasecmp(left, right) = 0) = (Lower(left) = Lower(right))
    /\ (strncasecmp(left, right, limit) = 0)
          = (Lower(Cut(left, limit)) = Lower(Cut(right, limit)))
    /\ AllAscii(left \o right) =>
          /\ Sign(strcasecmp(left, right)) = Ordered(Lower(left), Lower(right))
          /\ Sign(strncasecmp(left, right, limit))
                = Ordered(Lower(Cut(left, limit)), Lower(Cut(right, limit)))

Occurs(needle, str, i) == IsBegin(needle, From(str, i))

(***************************************************************************)
(* The searches find the first and the last place of a byte and the        *)
(* earliest of a string, or say that there is none; and fopen finds the    *)
(* WAD under its names in any directory and any case, and nothing else.    *)
(***************************************************************************)
SearchesExact ==
    /\ \A c \in { right[i] : i \in 1 .. Len(right) } :
          LET at == strchr(left, c)
              last == strrchr(left, c)
          IN  IF at = 0 THEN last = 0 /\ \A i \in 1 .. Len(left) : left[i] # c
              ELSE /\ left[at] = c /\ left[last] = c
                   /\ \A i \in 1 .. Len(left) : left[i] = c => i \in at .. last
    /\ LET at == strstr(left, right)
       IN  IF at = 0 THEN \A i \in 1 .. Len(left) : ~Occurs(right, left, i)
           ELSE Occurs(right, left, at) /\ \A i \in 1 .. at - 1 : ~Occurs(right, left, i)
    /\ fopen(left) =
          \E name \in WadNames, i \in Until(left) :
             /\ i = 1 \/ left[i - 1] \in Slashes
             /\ Lower(From(left, i)) = Lower(name)

(***************************************************************************)
(* A string of digits that stands for a number an int can hold is read as  *)
(* this number, whatever zeros precede it, and with a minus before it as   *)
(* its negative.  Longer numbers overflow, unnoticed by the code.          *)
(***************************************************************************)
NumbersExact ==
    IsNumber(left) /\ Value(left) <= IntMax =>
        /\ strtol(left) = Value(left) /\ atoi(left) = Value(left)
        /\ atoi(<<45>> \o left) = -Value(left)
=============================================================================
