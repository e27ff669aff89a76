-------------------------------- MODULE MCCanvas --------------------------------
(***************************************************************************)
(* Texts that differ in case only and a blank one; files with a shape of   *)
(* no identity next to its twin, with two shapes of one subject, with a    *)
(* subject that is no primitive, one that nobody knows and a broken one.   *)
(***************************************************************************)
EXTENDS Canvas, TLC

CONSTANT Drawn

MCSymmetry == Permutations(Scenes)

MCNotes == << "n1", "n2", "n3", "n4" >>
MCNormal == [milk |-> "milk", MILK |-> "milk", blank |-> ""]
Shape(id, type, text, identity) == Element(id, type, text, identity, Drawn)

MCFiles ==
  { << Shape("s1", "text", "milk", NoSubject), Shape("s2", "text", "MILK", "n1") >>,
    << Shape("s1", "text", "MILK", "n1"), Shape("s2", "text", "milk", "n1") >>,
    << Shape("s1", "box", "milk", NoSubject), Shape("s2", "text", "milk", Broken) >>,
    << Shape("s1", "text", "milk", "system"), Shape("s2", "text", "blank", NoSubject) >>,
    << Shape("s1", "box", "milk", "stranger"), Shape("s2", "box", "milk", NoSubject) >> }
=============================================================================
