--------------------------- MODULE RuntimeObjectsMC ---------------------------
(* A Helm-like definition: a source, an untyped companion and a Service;   *)
(* its next version renders no companion, in another order.                *)
EXTENDS RuntimeObjects

CONSTANTS repository, companion, service

ClassOf == [o \in {repository, companion, service} |->
              CASE o = repository -> "plain" [] o = companion -> "untyped" [] OTHER -> "known"]

TwoVersions == <<<<repository, companion, service>>, <<service, repository>>>>

=============================================================================
