------------------------------- MODULE MCServer -------------------------------
(***************************************************************************)
(* Instances of Server.  The threads of the web server are alike: no       *)
(* action tells one from another.                                          *)
(***************************************************************************)
EXTENDS Server, TLC

CONSTANTS
  a, b, g1,  \* short names
  long,      \* a name of 17 bytes that begins with the 15 bytes of b
  longer,    \* a name of 19 bytes or more
  spaced     \* the name a, a space and a digit

AlikeThreads == Permutations(Threads)

\* Only 15 bytes are kept, here those of b; the others are as short as that.
FirstBytes == [n \in Names |-> IF n \in {long, longer} /\ b \in Names THEN b ELSE n]

\* Of 17 bytes the state's second letter is cut off, of 19 all of it; after a
\* space comes what is no state.
FirstWords ==
  [n \in Names |-> [on \in BOOLEAN |->
     CASE n = long -> [name |-> n, on |-> FALSE]
       [] n = longer -> NoState
       [] n = spaced -> [name |-> a, on |-> FALSE]
       [] OTHER -> [name |-> n, on |-> on]]]
=============================================================================
