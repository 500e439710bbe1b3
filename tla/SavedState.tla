---- MODULE SavedState ----
(***************************************************************************)
(* What nhddl remembers on the game drive: the library view (ui/           *)
(* view_state.c), the title launched last (options.c) and the favourites   *)
(* (favorites.c).  For each a temporary file is written, the old file      *)
(* removed, the temporary file renamed.  Any of these steps can fail, and  *)
(* the power can go between any two; only of the title is the result of    *)
(* closing the temporary file not looked at.                               *)
(*                                                                         *)
(* A file is a record: whether it exists, and its text, the empty sequence *)
(* from the moment it is created until it is closed.                       *)
(***************************************************************************)
EXTENDS Integers, Sequences

Absent == [there |-> FALSE, text |-> <<>>]
Empty  == [there |-> TRUE, text |-> <<>>]
Whole(value) == [there |-> TRUE, text |-> <<value>>]
IsWhole(file) == file.text # <<>>

NeverSaved == [final |-> Absent, temp |-> Absent]

\* A file that holds a value of a set, or none, and the two of a record.
FileOf(values) ==
    {file \in [there : BOOLEAN, text : Seq(values)] :
       Len(file.text) <= 1 /\ (IsWhole(file) => file.there)}
PairOf(values) == [final : FileOf(values), temp : FileOf(values)]

\* A save in progress: which record, its new value and the next step.
Saving(which, value) == [which |-> which, value |-> value, step |-> "open"]

\* One step of the save of `value` into the pair p, when it works ...
StepOf(step) ==
    CASE step = "open" -> "write" [] step = "write" -> "remove"
      [] step = "remove" -> "rename" [] OTHER -> "done"

\* A mutant: the old file is removed before the new one is written.
SteppedRemoveFirst(p, step, value) ==
    CASE step = "open" -> [final |-> Absent, temp |-> Empty]
      [] step = "write" -> [p EXCEPT !.temp = Whole(value)]
      [] step = "remove" -> [p EXCEPT !.final = Absent]
      [] step = "rename" -> [final |-> p.temp, temp |-> Absent]

Stepped(p, step, value) ==
    CASE step = "open" -> [p EXCEPT !.temp = Empty]
      [] step = "write" -> [p EXCEPT !.temp = Whole(value)]
      [] step = "remove" -> [p EXCEPT !.final = Absent]
      [] step = "rename" -> [final |-> p.temp, temp |-> Absent]

\* ... and when it does not: a file that could not be written, or a view or
\* favourites that could not be closed, is removed, and the result of removing
\* the old file is not looked at, but a file system without replacing rename
\* then refuses.
Failed(p, step) ==
    CASE step = "write" -> [p EXCEPT !.temp = Absent]
      [] OTHER -> p

AfterFailure(step) == IF step = "remove" THEN "rename" ELSE "failed"

\* A step whose failure goes unnoticed: the title's file is written and cannot
\* be closed.  It stays empty, and the save goes on as if it had worked.
Unnoticed(which, step) == which = "title" /\ step = "write"

\* A file that was committed and not closed.
IsTorn(file) == file.there /\ ~IsWhole(file)

\* loadLastLibraryView: the temporary file first.
ReadView(p, default) ==
    IF IsWhole(p.temp) THEN p.temp.text[1]
    ELSE IF IsWhole(p.final) THEN p.final.text[1] ELSE default

\* getLastLaunchedTitle: the newer of the two, the temporary one when equal.
ReadTitle(p, default) ==
    IF /\ IsWhole(p.temp)
       /\ IsWhole(p.final) => p.temp.text[1].time >= p.final.text[1].time
    THEN p.temp.text[1]
    ELSE IF IsWhole(p.final) THEN p.final.text[1] ELSE default

\* loadFavoriteFlags: the committed file only.
ReadFavourites(p) == IF IsWhole(p.final) THEN p.final.text[1] ELSE {}
====
