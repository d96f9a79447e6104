---------------------------- MODULE MCStatusMap -----------------------------
(* StatusMap with a class and its parent: m1 and m3 map the parent, m2 the *)
(* class itself, as S3Exception and ExternalServiceError.                  *)
EXTENDS StatusMap, TLC

CONSTANTS sub, super, m1, m2, m3

MCIsA     == {<<sub, sub>>, <<sub, super>>, <<super, super>>}
MCClassOf == (m1 :> super) @@ (m2 :> sub) @@ (m3 :> super)
=============================================================================
