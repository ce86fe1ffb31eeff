---------------------------- MODULE MCRequestPath ----------------------------
(* RequestPath with one worker and two requests of three kinds. *)
EXTENDS RequestPath, TLC

CONSTANTS w1, dev, new, token, other

MCCall(operation, scheme, credential, charged, fits) ==
    [operation |-> operation, scheme |-> scheme, credential |-> credential,
     charged |-> charged, fits |-> fits]

MCCalls == {
    MCCall("search_vectors", "Bearer", token, TRUE, TRUE),
    MCCall("search_vectors", "raw", new, FALSE, FALSE),
    MCCall("write_vectors", "ApiKey", dev, TRUE, TRUE)}

MCExcluded == {MCCall("search_vectors", "Bearer", token, TRUE, TRUE)}

MCOwner == dev :> "default" @@ new :> other @@ token :> "default"
MCPermissions == dev :> {"read", "write", "admin"} @@ new :> {"read"} @@ token :> {"write", "read"}
MCExpiry == dev :> 9 @@ new :> 0 @@ token :> 1

=============================================================================
