----------------------------- MODULE AuthService -----------------------------
(***************************************************************************)
(* AuthService, src/app/services/auth_service.py, in every process that    *)
(* has one: the workers of the server and the scripts that make keys.      *)
(*                                                                         *)
(* Its keys and tenants are dictionaries of the process.  What a key       *)
(* stands for does not change once it is made, except that it is revoked;  *)
(* a token is signed with a secret that all processes share, and stands    *)
(* for what it says.  Hashes, names, quotas and usage counters, which no   *)
(* decision reads, are left out.                                           *)
(***************************************************************************)
EXTENDS Naturals

CONSTANTS
    Processes,      \* the processes
    Keys,           \* all API keys
    Tokens,         \* all JWT tokens
    Nobody,         \* what is neither: no credential, or a made-up one
    DefaultKeys,    \* DEV_DEFAULT_API_KEY: one key or none
    Tenants,
    DefaultTenant,
    Operations,     \* what a route asks authorize_operation for
    Owner,          \* the tenant of a key or token
    Permissions,    \* its permissions
    Expiry,         \* when it expires
    MaxTime         \* bound of the clock

Credentials == Keys \cup Tokens

ASSUME AuthAssumption ==
    /\ DefaultKeys \subseteq Keys
    /\ Keys \cap Tokens = {}
    /\ Nobody \notin Credentials
    /\ DefaultTenant \in Tenants
    /\ Owner \in [Credentials -> Tenants]
    /\ Permissions \in [Credentials -> SUBSET {"read", "write", "admin"}]
    /\ Expiry \in [Credentials -> Nat]
    /\ MaxTime \in Nat

VARIABLES
    known,      \* api_keys: pairs of a process and a key
    revoked,    \* those of them that are not active
    tenants,    \* tenants: pairs of a process and a tenant
    made,       \* the keys made so far (no counterpart: keys are never drawn twice)
    clock

authVars == <<known, revoked, tenants, made, clock>>

AuthInit ==
    /\ known = Processes \X DefaultKeys
    /\ revoked = {}
    /\ tenants = Processes \X {DefaultTenant}
    /\ made = DefaultKeys
    /\ clock = 0

-----------------------------------------------------------------------------
(* Operations.  No route calls them: a script does, or an embedding program *)

GenerateKey(p, k) ==
    /\ k \notin made
    /\ known' = known \cup {<<p, k>>}
    /\ made' = made \cup {k}
    /\ UNCHANGED <<revoked, tenants, clock>>

RevokeKey(p, k) ==
    /\ <<p, k>> \in known
    /\ revoked' = revoked \cup {<<p, k>>}
    /\ UNCHANGED <<known, tenants, made, clock>>

\* A tenant that exists is not created again.
CreateTenant(p, t) ==
    /\ <<p, t>> \notin tenants
    /\ tenants' = tenants \cup {<<p, t>>}
    /\ UNCHANGED <<known, revoked, made, clock>>

Tick ==
    /\ clock < MaxTime
    /\ clock' = clock + 1
    /\ UNCHANGED <<known, revoked, tenants, made>>

\* The pairs of the other processes.
Others(pairs, p) == {x \in pairs : x[1] # p}

\* A process starts again with the default key and the default tenant alone.
StartAgain(p) ==
    /\ known' = Others(known, p) \cup ({p} \X DefaultKeys)
    /\ revoked' = Others(revoked, p)
    /\ tenants' = Others(tenants, p) \cup {<<p, DefaultTenant>>}
    /\ UNCHANGED <<made, clock>>

-----------------------------------------------------------------------------
(* Decisions *)

\* Mutant of VerifyKey: a key that is not active verifies.
VerifyKeyRevoked(p, k) == <<p, k>> \in known /\ clock <= Expiry[k]

VerifyKey(p, k) ==
    /\ <<p, k>> \in known
    /\ <<p, k>> \notin revoked
    /\ clock <= Expiry[k]

\* A token is expired at the second in which it expires, a key after it.
VerifyToken(t) == clock < Expiry[t]

\* get_current_auth and authenticate_request.  "raw" is a header without a
\* scheme or an x-api-key header; only the two spellings "ApiKey" and "Bearer"
\* are passed on as they are, any other is put behind a second "ApiKey".
Authenticates(p, scheme, c) ==
    \/ scheme \in {"raw", "ApiKey"} /\ c \in Keys /\ VerifyKey(p, c)
    \/ scheme = "Bearer" /\ c \in Tokens /\ VerifyToken(c)

\* What is not in permission_map, the operations of import, export, backup,
\* usage and indexes included, needs admin.
Required(operation) ==
    CASE operation \in {"read_dataset", "list_datasets", "read_vector", "search_vectors", "get_stats"} -> "read"
      [] operation \in {"create_dataset", "update_dataset", "insert_vector", "update_vector", "delete_vector"} -> "write"
      [] OTHER -> "admin"

\* Mutant of CheckPermission: a tenant is not looked up.
CheckPermissionOnly(p, c, permission) == "admin" \in Permissions[c] \/ permission \in Permissions[c]

CheckPermission(p, c, permission) ==
    /\ <<p, Owner[c]>> \in tenants
    /\ "admin" \in Permissions[c] \/ permission \in Permissions[c]

Authorizes(p, c, operation) == CheckPermission(p, c, Required(operation))

=============================================================================
