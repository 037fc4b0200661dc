--------------------------------- MODULE MCLog ---------------------------------
(* Frames of two records for model checking: a third does not fit, and a record of *)
(* length 7 fits no frame.                                                         *)
EXTENDS Log
MCSizes == {1, 2, 7}
MCHeaders == {1, 2}
=============================================================================
