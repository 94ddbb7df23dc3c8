------------------------------ MODULE Mailbox ------------------------------
(***************************************************************************)
(* What becomes of one measurement, without connections, errors and        *)
(* rounds: a letter that the sensor leaves in its box and that the base    *)
(* station copies sheet by sheet into its hand and files in the archive    *)
(* (BaseStation has how).                                                  *)
(*                                                                         *)
(* The box is emptied as soon as the station has gone through the sheets,  *)
(* whatever it got of them; copies are filed after that.  The letter may   *)
(* be lost in five ways only, and each of them is remembered: a sheet was  *)
(* missing when the box was emptied; copies were dropped after that; the   *)
(* next letter came over a sheet; the letter was put into the box of a     *)
(* station that had begun already; the box was destroyed.                  *)
(***************************************************************************)
CONSTANT Sheets

VARIABLES
    letter,   \* "expected", "open" (in the box) or "taken"
    hand,     \* the sheets that the station has copies of
    archive,  \* the sheets that were filed
    reading,  \* has the station begun to go through the sheets?
    lost      \* history: may the letter have been lost?

vars == <<letter, hand, archive, reading, lost>>

Init ==
    /\ letter = "expected"
    /\ hand = {} /\ archive = {}
    /\ ~reading /\ ~lost

Post ==
    /\ letter = "expected"
    /\ letter' = "open"
    /\ lost' = (lost \/ reading)
    /\ UNCHANGED <<hand, archive, reading>>

\* A sheet, even before the letter is complete, or not.
Copy ==
    /\ \E s \in Sheets : hand' \in {hand, hand \cup {s}}
    /\ reading' = TRUE
    /\ UNCHANGED <<letter, archive, lost>>

\* Empty the box: there may be no letter in it.
Take ==
    /\ reading
    /\ reading' = FALSE
    /\ letter' = IF letter = "open" THEN "taken" ELSE letter
    /\ lost' = (lost \/ (letter = "open" /\ hand # Sheets))
    /\ UNCHANGED <<hand, archive>>

\* Leave it; the letter will be copied again.
Leave ==
    /\ reading
    /\ reading' = FALSE
    /\ UNCHANGED <<letter, hand, archive, lost>>

File ==
    /\ ~reading
    /\ archive' = archive \cup hand
    /\ hand' = {}
    /\ UNCHANGED <<letter, reading, lost>>

Drop ==
    /\ hand' = {}
    /\ reading' = FALSE
    /\ lost' = (lost \/ (letter = "taken" /\ hand # {}))
    /\ UNCHANGED <<letter, archive>>

\* The next letter, sheet by sheet, and then as a whole.
Overwrite ==
    /\ letter = "open"
    /\ lost' = TRUE
    /\ UNCHANGED <<letter, hand, archive, reading>>

Supersede ==
    /\ letter = "open" /\ lost
    /\ letter' = "taken"
    /\ UNCHANGED <<hand, archive, reading, lost>>

Destroy ==
    /\ letter # "taken"
    /\ letter' = "taken"
    /\ lost' = TRUE
    /\ UNCHANGED <<hand, archive, reading>>

Next == \/ Post \/ Copy \/ Take \/ Leave \/ File \/ Drop \/ Overwrite
        \/ Supersede \/ Destroy

Spec == Init /\ [][Next]_vars

----------------------------------------------------------------------------
\* What a letter that was taken comes to, unless it may have been lost.
Kept == letter = "taken" /\ ~lost => Sheets \subseteq hand \cup archive
=============================================================================
