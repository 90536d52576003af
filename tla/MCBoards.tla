------------------------------ MODULE MCBoards ------------------------------
(* Two teams, of which the second has a board or is about to create one, two
   libraries with different versions of a blueprint, and two storage
   directories, of which the second holds an old ticket of the first board. *)
EXTENDS Boards, TLC

CONSTANTS e1, e2, t1, t2, l1, l2, r1, r2, w1, w2, s1, s2

Narrow == [shapes |-> {s1}, initial |-> s1]
Wide == [shapes |-> {s1, s2}, initial |-> s1]
MCDefinitions == {Narrow, Wide}

FirstBoard == [team |-> t1, blueprint |-> 1, root |-> r1, generation |-> 0]
SecondBoard == [team |-> t2, blueprint |-> 2, root |-> r1, generation |-> 0]
MCInitialConfigs ==
    {[library |-> l1, section |-> FALSE, default |-> t1, teams |-> (t1 :> 1 @@ t2 :> 2),
      boards |-> (w1 :> FirstBoard @@ w2 :> second)] : second \in {SecondBoard, NoBoard}}

MCInitialSources ==
    {(<<l1, 1>> :> Wide @@ <<l1, 2>> :> Narrow @@ <<l2, 1>> :> Narrow @@ <<l2, 2>> :> Missing)}

Stored(s) == [shape |-> s, revision |-> 1]
MCInitialTickets ==
    {(<<r1, w1>> :> first @@ <<r2, w1>> :> Stored(s2) @@ <<r1, w2>> :> second @@ <<r2, w2>> :> Missing) :
        first \in {Stored(s1), Missing}, second \in {Stored(s1), Missing}}

(* The directory the second storage lies in can be given to a team. *)
MCOverlaps == {{3, r2}}

Symmetry == Permutations(Editors)
=============================================================================
