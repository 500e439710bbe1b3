---- MODULE MCLibrary ----
\* The library on a small console: seven titles on four pages.
EXTENDS Library

\* One title has no artwork.
MCArt == (0 .. Total - 1) \ {1}

Saved(value) == [final |-> Whole(value), temp |-> Absent]
InView(v, title) == [view |-> Saved(v), fav |-> Saved({0, 3}),
                     title |-> Saved([title |-> title, time |-> -9])]
NewDrive == [view |-> NeverSaved, title |-> NeverSaved, fav |-> NeverSaved]

Left(p, b, f, m) == [presses |-> p, boots |-> b, faults |-> f, pressure |-> m]

\* A new console, and one used before in each view.
MCHistories ==
    {[files |-> NewDrive, left |-> Left(2, 2, 1, 0)],
     [files |-> InView("classic", 3), left |-> Left(2, 2, 1, 0)],
     [files |-> InView("collection", 0), left |-> Left(2, 1, 0, 1)],
     [files |-> InView("orbit", 0), left |-> Left(2, 1, 0, 1)],
     [files |-> InView("grid", 1), left |-> Left(4, 1, 0, 0)]}

ASSUME OneFault
====
