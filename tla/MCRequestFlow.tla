---------------------------- MODULE MCRequestFlow ----------------------------
(* Four requests of two tenants that between them take every way. *)
EXTENDS RequestFlow

CONSTANTS wide, narrow, direct, legacy, acme, umbrella

MCRequests == {wide, narrow, direct, legacy}

MCRequest ==
    [r \in MCRequests |->
        CASE r = wide -> [endpoint |-> "chat", direct |-> FALSE, stream |-> TRUE,
                          tenant |-> acme, parallel |-> 3]
          [] r = narrow -> [endpoint |-> "background", direct |-> FALSE, stream |-> FALSE,
                            tenant |-> umbrella, parallel |-> 2]
          [] r = direct -> [endpoint |-> "responses", direct |-> TRUE, stream |-> FALSE,
                            tenant |-> acme, parallel |-> 1]
          [] r = legacy -> [endpoint |-> "completions", direct |-> TRUE, stream |-> TRUE,
                            tenant |-> umbrella, parallel |-> 1]]

=============================================================================
