----------------------------- MODULE MCRoutes -----------------------------
(* Two users, two units, and what TLC tries for options and data. *)
EXTENDS Routes

MCMappings ==
    {<<>>, [u \in {"ann"} |-> "charmed_read"],
     [u \in {"ann", "bob"} |-> IF u = "ann" THEN "charmed_manager" ELSE "admin"],
     [u \in {"bob"} |-> "no_role"]}
Asks(valid, name, protocol, grpc) ==
    [valid |-> valid, service |-> name, protocol |-> protocol, grpc |-> grpc]
MCOtherData ==
    {Asks(TRUE, "kafka-ui", "http", 0), Asks(FALSE, "kafka-ui", "http", 0),
     Asks(TRUE, "shop", "http", 9000)}
=============================================================================
