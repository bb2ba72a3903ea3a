------------------------------ MODULE MCCalendar ------------------------------
(* Instances of Calendar: plans that overlap, share a minute, cross midnight *)
(* or take no time, for one group or for everything.                         *)
EXTENDS Calendar

plan(type, day, start, finish, group) ==
  [type |-> type, day |-> day, start |-> start, finish |-> finish,
   group |-> group]

\* One of them ends before it begins.
FewPlans == {plan("WEEKLY", 0, 1, 0, 0), plan("ONCE", 0, 0, 1, 0)}

\* A single alarm for everything that overlaps a weekly one, which in turn runs
\* past midnight and so until its time comes again a week later.
DayPlans == {plan("ONCE", 0, 0, 2, Everything), plan("WEEKLY", 0, 1, 0, 0)}

\* What a slot may hold before its first alarm: nothing, or ids that get given.
NoId == {-1}
SomeJunk == {-1, 1}
=============================================================================
