---------------------------- MODULE MCActivation ----------------------------
(* One source in two versions and one file that states governed facts; the  *)
(* state document and a document with a region.                             *)
EXTENDS Projections

CONSTANTS whole, index

MCFirstTree == [facts |-> [f \in Fact |-> 1], consumers |-> {},
                candidate |-> NoFiles, registry |-> NoFiles]

MCOrder == <<whole, index>>

=============================================================================
