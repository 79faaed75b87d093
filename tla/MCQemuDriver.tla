---------------------------- MODULE MCQemuDriver ----------------------------
(***************************************************************************)
(* Model values for QemuDriver: a port range of the least size the driver  *)
(* accepts, and one that is a port too small.                              *)
(***************************************************************************)
EXTENDS QemuDriver

MCRanges == {<<1, 3>>, <<1, 2>>}
=============================================================================
