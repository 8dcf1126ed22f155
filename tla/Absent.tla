------------------------------- MODULE Absent -------------------------------
(* The absent value of the backend's services: null, undefined, a missing  *)
(* row or key.                                                             *)
CONSTANT None
=============================================================================
