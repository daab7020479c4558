--------------------------- MODULE NavigationTrail ---------------------------
(***************************************************************************)
(* What Back and Forward promise the user: a trail of the places that were  *)
(* visited and are still there, with the user at one of them.  Going        *)
(* somewhere forgets what was ahead, and of the oldest places no more than  *)
(* it passed through.                                                      *)
(***************************************************************************)
EXTENDS Naturals, Sequences, SequencesExt, Sublists

VARIABLES past,       \* the places before, in the order of the visits
          now,        \* the place the user went to last, as a sequence: <<>> if there is none
          ahead,      \* the places after, the next one first
          open        \* the pages that are open

trailVars == <<past, now, ahead, open>>

\* of some places, those whose page is still there
Still(places) == Sublist(places, {place \in ToSet(places) : place.Page \in open'})

TrailInit == past = <<>> /\ now = <<>> /\ ahead = <<>> /\ open = {}

\* Somewhere else, through a few places, some of which may be closed before the step ends.
PassedThrough == 3

Go ==
  /\ now' # <<>>
  /\ ahead' = <<>>
  /\ LET was == Still(past \o now)
         trail == past' \o now'
     IN \E forgotten \in 0..PassedThrough :
          /\ IsPrefix(SubSeq(was, forgotten + 1, Len(was)), trail)
          /\ Len(trail) <= Len(was) - forgotten + PassedThrough

\* The place before, or after; where the user was is on the other side, unless it was closed.
Back ==
  /\ past # <<>>
  /\ past' = Front(past)
  /\ now' = <<Last(past)>>
  /\ ahead' = Still(now) \o ahead
  /\ UNCHANGED open

Forward ==
  /\ ahead # <<>>
  /\ past' = past \o Still(now)
  /\ now' = <<Head(ahead)>>
  /\ ahead' = Tail(ahead)
  /\ UNCHANGED open

\* Pages are closed, and their places go.
Close ==
  /\ past' = Still(past)
  /\ now' = now
  /\ ahead' = Still(ahead)

\* Another file, or none, or the views made again: at most one place is known.
Forget == past' = <<>> /\ Len(now') <= 1 /\ ahead' = <<>>

TrailNext == Go \/ Back \/ Forward \/ Close \/ Forget

TrailSpec == TrailInit /\ [][TrailNext]_trailVars
=============================================================================
