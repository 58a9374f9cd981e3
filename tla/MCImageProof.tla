---------------------------- MODULE MCImageProof ----------------------------
(* ImageProof for TLC: a base image, one derived from it, and the input of both.  *)
EXTENDS ImageProof

CONSTANTS base, derived, baseFile

MCParent == [i \in Image |-> IF i = derived THEN base ELSE Root]
MCConsumers == [f \in File |-> {base}]
MCRelocks == {{}, {base}, Image}
=============================================================================
