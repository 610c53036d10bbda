------------------------------ MODULE Dashboard ------------------------------
(***************************************************************************)
(* The system dashboard, apps/system/system.cpp: it draws its picture and  *)
(* polls the shared 8042 until it reads the scan code of Esc.              *)
(***************************************************************************)
EXTENDS SharedPort, Painting

CONSTANT SC_ESC

VARIABLE dash   \* where _start is: "draw", "status", "data", "returned"

dashVars == <<dash, drawing, asked, painted>>

DashboardInit(fb) ==
    /\ dash = "draw"
    /\ drawing = draw_dashboard(fb)
    /\ asked = NoRect /\ painted = <<Empty, Empty>>

Draws(fb) ==
    /\ dash = "draw"
    /\ FillNext(fb)
    /\ dash' = IF Len(drawing) = 1 THEN "status" ELSE "draw"
    /\ UNCHANGED portVars

KeyAvailable ==
    /\ dash = "status" /\ StatusFull
    /\ dash' = "data"
    /\ UNCHANGED <<portVars, paintVars>>

\* Slip: the key's release is waited for, which may be another key's.
ReadKey_release ==
    /\ dash = "data"
    /\ ProgramReads
    /\ dash' = IF InData.byte = SC_ESC + 128 THEN "returned" ELSE "status"
    /\ UNCHANGED paintVars

\* Any byte 1 is Esc, one of the mouse too; every other byte is dropped.
ReadKey ==
    /\ dash = "data"
    /\ ProgramReads
    /\ dash' = IF InData.byte = SC_ESC THEN "returned" ELSE "status"
    /\ UNCHANGED paintVars

DashboardStep(fb) == Draws(fb) \/ KeyAvailable \/ ReadKey

\* The kernel's handlers and the devices run beside it.
DashboardNext(fb) ==
    \/ DashboardStep(fb)
    \/ dash # "returned" /\ (KernelTakes \/ DeviceSends) /\ UNCHANGED dashVars

-----------------------------------------------------------------------------
EscIn(items) == \E item \in items : item.byte = SC_ESC
Waiting == { port[i] : i \in DOMAIN port }

(***************************************************************************)
(* The dashboard says PRESS ESC TO RETURN: an Esc that waits in the        *)
(* controller makes it return, unless a handler of the kernel takes it     *)
(* away first, and whatever the bytes before it are.                       *)
(***************************************************************************)
EscReturns == EscIn(Waiting) ~> (dash = "returned" \/ EscIn(taken))
=============================================================================
