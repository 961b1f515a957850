---------------------------- MODULE MCWriteBroker ----------------------------
(* One broker, its editors, and two requests. *)
EXTENDS WriteBroker

CONSTANTS r1, r2, n1, u1

MCRequests == {r1, r2}
MCNotes == {n1}
MCSubjects == {u1}
=============================================================================
