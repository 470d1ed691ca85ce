----------------------------- MODULE ArchiveShelf -----------------------------
(* What tx9 backup promises of the directory it writes to: an archive        *)
(* appears under its name in one step, complete and restorable, under a      *)
(* name that nothing had, and never changes or goes away.                    *)

CONSTANTS
    Names,        \* file names
    Restorable,   \* archives that can be decrypted and restored
    Nothing       \* no file has the name

VARIABLE shelf    \* name -> its archive

TypeOK == shelf \in [Names -> Restorable \cup {Nothing}]

Init == shelf = [n \in Names |-> Nothing]

Place(n, a) ==
    /\ shelf[n] = Nothing
    /\ shelf' = [shelf EXCEPT ![n] = a]

Next == \E n \in Names, a \in Restorable : Place(n, a)

Spec == Init /\ [][Next]_shelf

=============================================================================
