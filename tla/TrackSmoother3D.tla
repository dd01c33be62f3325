-------------------------- MODULE TrackSmoother3D --------------------------
(***************************************************************************)
(* The tracks that give the objects of a stereo view their identities from *)
(* one frame to the next (TrackSmoother3D of stereo_matcher.py).           *)
(*                                                                         *)
(* A place is a number on a line.  The smoothed place of a matched track   *)
(* is any place between the old one and the one seen, and the assignment   *)
(* that scipy computes is any of those with the least cost.                *)
(*                                                                         *)
(* An operator named X_<what is wrong> is X with a mistake its code could  *)
(* have, and no part of the specification.                                 *)
(***************************************************************************)
EXTENDS Integers, Sequences, FiniteSets, FiniteSetsExt

CONSTANTS
    Places,         \* an interval of integers
    Classes,        \* class_name
    MaxMatch,       \* max_match_dist_m
    MaxMissed,      \* max_missed_frames
    MaxSeen,        \* a bound on the detections of one frame
    MaxId           \* a bound on the track ids

ASSUME NumbersAssumption ==
    MaxMatch \in Nat /\ MaxMissed \in Nat /\ MaxSeen \in Nat /\ MaxId \in Nat

VARIABLES
    next_track_id,
    tracks,         \* from the ids of the live tracks to their data
    seen, matches,  \* the latest frame: its detections, and the id given to each
    born,           \* the classes with which each id was given out, one each time
    unseen          \* for how many updates in a row each id has not been matched,
                    \* as far as MaxMissed + 1

vars == <<next_track_id, tracks, seen, matches, born, unseen>>

Init ==
    /\ next_track_id = 1
    /\ tracks = <<>> /\ seen = <<>> /\ matches = <<>>
    /\ born = <<>> /\ unseen = <<>>

active_tids == DOMAIN tracks

Distance(p, q) == IF p < q THEN q - p ELSE p - q

\* Farther than any object can be: 1e6.
Far == 1000 + MaxMatch

\* The matcher keeps an object only within max_depth_m, 50 metres, of the cameras.
ASSUME PlacesAssumption == Places \subseteq Int /\ \A p, q \in Places : Distance(p, q) <= Far

Cost_ClassIgnored(d, t) == Distance(d.place, tracks[t].place)

\* d_matrix
Cost(d, t) == IF d.class = tracks[t].class THEN Distance(d.place, tracks[t].place) ELSE Far

Pairs(dets) == (DOMAIN dets) \X active_tids

OneToOne_TracksShared(a) == \A p, q \in a : p[1] = q[1] => p = q

OneToOne(a) == \A p, q \in a : p[1] = q[1] \/ p[2] = q[2] => p = q

\* As many detections with as many tracks as can be paired.
Assignments(dets) ==
    LET most == IF Len(dets) < Cardinality(active_tids)
                THEN Len(dets) ELSE Cardinality(active_tids)
    IN  {a \in kSubset(most, Pairs(dets)) : OneToOne(a)}

Total(dets, a) == MapThenSumSet(LAMBDA p : Cost(dets[p[1]], p[2]), a)

\* linear_sum_assignment
LeastCost(dets, a) == \A b \in Assignments(dets) : Total(dets, a) <= Total(dets, b)

Hits_Strict(dets, a) == {p \in a : Cost(dets[p[1]], p[2]) < MaxMatch}

\* The pairs that are close enough; the others count as unmatched.
Hits(dets, a) == {p \in a : Cost(dets[p[1]], p[2]) <= MaxMatch}

Between(p, q) == {r \in Places : (p <= r /\ r <= q) \/ (q <= r /\ r <= p)}

Matched(t, p) == [tracks[t] EXCEPT !.place = p, !.missed = 0]

Missed(t) == [tracks[t] EXCEPT !.missed = @ + 1]

Dead_Early(t) == tracks[t].missed + 1 >= MaxMissed

\* missed > max_missed_frames, after its increment
Dead(t) == tracks[t].missed + 1 > MaxMissed

Survivors(lost) == {t \in lost : ~Dead(t)}

NewId_AfterLive(n) == Max({0} \cup active_tids) + n

\* The id of the n-th new track of an update.
NewId(n) == next_track_id + n - 1

Births(t) == IF t \in DOMAIN born THEN born[t] ELSE <<>>

\* How unseen counts, given which tracks have been matched or made.
Aged(ids, found) ==
    [t \in ids |-> IF t \in found THEN 0
                   ELSE IF unseen[t] > MaxMissed THEN unseen[t] ELSE unseen[t] + 1]

\* An update with detections; i is in fresh if no track is close to detection i.
Update(dets, a, places) ==
    LET hits == Hits(dets, a)
        kept == {p[2] : p \in hits}
        fresh == DOMAIN dets \ {p[1] : p \in hits}
        rest == Survivors(active_tids \ kept)
        IdOf(i) == IF i \in fresh THEN NewId(Cardinality({j \in fresh : j <= i}))
                   ELSE (CHOOSE p \in hits : p[1] = i)[2]
        DetOf(t) == dets[CHOOSE i \in DOMAIN dets : IdOf(i) = t]
        new == {IdOf(i) : i \in fresh}
    IN  /\ \A t \in kept : places[t] \in Between(tracks[t].place, DetOf(t).place)
        /\ tracks' = [t \in kept \cup rest \cup new |->
                        IF t \in new
                        THEN [place |-> DetOf(t).place, class |-> DetOf(t).class, missed |-> 0]
                        ELSE IF t \in kept THEN Matched(t, places[t]) ELSE Missed(t)]
        /\ next_track_id' = next_track_id + Cardinality(fresh)
        /\ matches' = [i \in DOMAIN dets |-> IdOf(i)]
        /\ born' = [t \in DOMAIN born \cup new |->
                      IF t \in new THEN Append(Births(t), DetOf(t).class) ELSE born[t]]
        /\ unseen' = Aged(DOMAIN born \cup new, kept \cup new)

Detections == [place : Places, class : Classes]

update ==
    \E n \in 1 .. MaxSeen : \E dets \in [1 .. n -> Detections] :
        /\ next_track_id + n <= MaxId + 1
        /\ seen' = dets
        /\ \E a \in Assignments(dets) :
              /\ LeastCost(dets, a)
              /\ \E places \in [active_tids -> Places] : Update(dets, a, places)

\* An update without detections.
update_empty ==
    /\ tracks' = [t \in Survivors(active_tids) |-> Missed(t)]
    /\ unseen' = Aged(DOMAIN born, {})
    /\ seen' = <<>> /\ matches' = <<>>
    /\ UNCHANGED <<next_track_id, born>>

\* A frame in which one camera sees nothing: match_and_triangulate returns without an
\* update.
NothingSeen ==
    /\ seen' = <<>> /\ matches' = <<>>
    /\ UNCHANGED <<next_track_id, tracks, born, unseen>>

Next == update \/ update_empty \/ NothingSeen

Spec == Init /\ [][Next]_vars

-----------------------------------------------------------------------------
(* Properties *)

\* Every object of a frame has an identity of its own, and that of a live track.
OneIdEach ==
    \A i, j \in DOMAIN matches :
        matches[i] \in active_tids /\ (matches[i] = matches[j] => i = j)

\* An id is given out once, also when its track has died, and every object that ever
\* has it is of the class it was given out for.
IdKeepsClass ==
    /\ \A t \in DOMAIN born : Len(born[t]) = 1
    /\ \A i \in DOMAIN matches : born[matches[i]] = <<seen[i].class>>

\* A track is forgotten when it has gone unmatched for more than max_missed_frames
\* updates in a row, with detections or without, and not before.
ForgottenInTime ==
    \A t \in DOMAIN born : t \in active_tids <=> unseen[t] <= MaxMissed

\* The one object of its class keeps its id as long as it is seen close enough to
\* where the one track of that class was.
LoneObjectKeepsId ==
    [][\A i \in DOMAIN seen', t \in DOMAIN tracks :
          /\ matches' # <<>>
          /\ \A j \in DOMAIN seen' : seen'[j].class = seen'[i].class => j = i
          /\ \A u \in DOMAIN tracks : tracks[u].class = seen'[i].class <=> u = t
          /\ Distance(seen'[i].place, tracks[t].place) <= MaxMatch
          => matches'[i] = t]_vars
=============================================================================
