----------------------------- MODULE MCTimeline -----------------------------
(* Phases and requests are interchangeable.                                *)
EXTENDS Timeline, TLC

Edit(start, end, weeks, pinned) ==
  [startDate |-> start, endDate |-> end, durationWeeks |-> weeks,
   datesPinned |-> pinned]
\* Dates, a duration, and unpinning.
SomeEdits == {Edit(1, 2, None, None), Edit(None, None, 2, None),
              Edit(None, None, None, FALSE)}

Symmetry == Permutations(Phases) \cup Permutations(Workers)
=============================================================================
