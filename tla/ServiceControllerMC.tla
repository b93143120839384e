------------------------- MODULE ServiceControllerMC -------------------------
(* Small instances of ServiceController.  The configurations are the       *)
(* corners of the builders: everything, only a NodePort, nothing, and a    *)
(* database.                                                               *)
EXTENDS ServiceControllerProperties

CONSTANTS img, host

Full == [database |-> FALSE, image |-> img, ports |-> <<[port |-> 80, nodePort |-> NoPort]>>,
         hosts |-> <<[host |-> host, port |-> NoPort]>>, public |-> TRUE]
NodeOnly == [Full EXCEPT !.ports = <<[port |-> 81, nodePort |-> 30081]>>, !.public = FALSE]
Bare == [Full EXCEPT !.image = NoImage, !.ports = <<>>, !.public = FALSE]
Database == [Bare EXCEPT !.database = TRUE]

FullAndNode == {Full, NodeOnly}
FullAndBare == {Full, Bare}
All == {Full, NodeOnly, Bare, Database}
=============================================================================
