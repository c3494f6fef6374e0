-------------------------- MODULE MCVersionedCache --------------------------
(* VersionedCache with two readers, one writer and writes of other origin. *)
EXTENDS VersionedCache
=============================================================================
