----------------------------- MODULE MCReferences -----------------------------
(* Three instances, of which any may start unnamed, with an empty name or  *)
(* with the same name as another, and a generator that can draw the name   *)
(* "r1" of an instance the table has not met yet.                          *)
EXTENDS References

CONSTANTS i1, i2, i3

MCInstances == {i1, i2, i3}
MCRefs == {"", "null", "r1", "r2", "g1", "g2"}
MCEmptyRefs == {"", "null"}
MCGenerated == {"r1", "g1", "g2"}
MCProperties == {"p"}
MCData == {}

===============================================================================
