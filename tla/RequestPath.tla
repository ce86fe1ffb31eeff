----------------------------- MODULE RequestPath -----------------------------
(***************************************************************************)
(* The way of a request through a worker: RateLimitMiddleware of           *)
(* src/app/middleware/rate_limit.py, the dependencies of                   *)
(* src/app/api/http/dependencies.py, which authenticate and authorize, and *)
(* the handler.  The handler of a search by text, search_by_text of        *)
(* src/app/api/http/v1/search.py, is followed through the embedding of its *)
(* text; of the others, only how they end is.                              *)
(*                                                                         *)
(* Requests of one worker interleave wherever the code awaits, and it does *)
(* between the steps below: redis, the thread pool that runs the plain     *)
(* dependencies, and the model.  What the limiter decides is in            *)
(* RateLimiter, and what the other handlers do in the modules of theirs.   *)
(***************************************************************************)
EXTENDS AuthService, TextEmbedding

CONSTANTS
    Calls,          \* what a request asks: see below
    Excluded,       \* the calls whose path begins with one that is excluded
    Unguarded,      \* the operations whose handler may raise what is no answer
    MaxRestarts     \* bound of the restarts of workers

\* A call has an operation, a scheme and a credential; charged tells whether
\* it has an X-Tenant-ID header and fits whether the dataset it searches has
\* the dimensions of the model.
ASSUME PathAssumption ==
    /\ Hosts \subseteq Processes
    /\ Calls \subseteq
          [operation : Operations, scheme : {"raw", "ApiKey", "Bearer", "other"},
           credential : Credentials \cup {Nobody}, charged : BOOLEAN, fits : BOOLEAN]
    /\ Excluded \subseteq Calls
    /\ MaxRestarts \in Nat

VARIABLES
    at,         \* where a request is
    worker,     \* the worker that serves it
    call,       \* what it asks
    provider,   \* the embedding provider it was given
    guarded,    \* the requests whose call_next is inside the try of the middleware
    status,     \* how it was answered
    runs,       \* how often its handler began (no counterpart)
    raised,     \* how often its handler raised (no counterpart)
    late,       \* requests whose key was revoked when they came (no counterpart)
    restarts    \* how often a worker was restarted (no counterpart)

pathVars == <<at, worker, call, provider, guarded, status, runs, raised, late, restarts>>
vars == <<known, revoked, tenants, made, clock, service, model, dimensions,
          at, worker, call, provider, guarded, status, runs, raised, late, restarts>>

Serving == {"service", "making", "taking"}
Handling == {"handler", "load", "test", "reload", "retest", "encode", "lookup", "search"}
Stages == {"idle", "dispatch", "limit", "body", "authenticate", "authorize", "done"}
              \cup Serving \cup Handling

\* Where a request waits for what is not in the worker: redis, the client, a
\* download of a model, what a dataset is stored on.
Outside == {"limit", "body", "handler", "load", "reload", "lookup", "search"}

Init ==
    /\ AuthInit
    /\ EmbeddingInit
    /\ at = [r \in Requests |-> "idle"]
    /\ worker \in [Requests -> Hosts]
    /\ call \in [Requests -> Calls]
    /\ provider = [r \in Requests |-> NoProvider]
    /\ guarded = {}
    /\ status = [r \in Requests |-> 0]
    /\ runs = [r \in Requests |-> 0]
    /\ raised = [r \in Requests |-> 0]
    /\ late = {}
    /\ restarts = 0

\* Steps of a request that keep everything else.
Goto(r, stage) == at' = [at EXCEPT ![r] = stage]
Reply(r, code) ==
    /\ Goto(r, "done")
    /\ status' = [status EXCEPT ![r] = code]
KeepServices == UNCHANGED <<known, revoked, tenants, made, clock, service, model, dimensions>>
KeepRequest == UNCHANGED <<worker, call, provider, late, restarts>>
KeepCounts == UNCHANGED <<guarded, runs, raised>>

-----------------------------------------------------------------------------
(* RateLimitMiddleware.dispatch *)

Send(r) ==
    /\ at[r] = "idle"
    /\ Goto(r, "dispatch")
    /\ late' = IF <<worker[r], call[r].credential>> \in revoked THEN late \cup {r} ELSE late
    /\ KeepServices /\ KeepCounts
    /\ UNCHANGED <<worker, call, provider, status, restarts>>

\* The tenant is that of the header: the state has one only later.  Without a
\* tenant nothing is charged, but the call of the application is in the try.
Dispatch(r) ==
    /\ at[r] = "dispatch"
    /\ \/ /\ call[r] \in Excluded
          /\ Goto(r, "authenticate")
          /\ UNCHANGED guarded
       \/ /\ call[r] \notin Excluded /\ ~call[r].charged
          /\ Goto(r, "authenticate")
          /\ guarded' = guarded \cup {r}
       \/ /\ call[r] \notin Excluded /\ call[r].charged
          /\ Goto(r, "limit")
          /\ UNCHANGED guarded
    /\ KeepServices /\ KeepRequest
    /\ UNCHANGED <<status, runs, raised>>

LimitAllows(r) ==
    /\ at[r] = "limit"
    /\ Goto(r, "authenticate")
    /\ guarded' = guarded \cup {r}
    /\ KeepServices /\ KeepRequest
    /\ UNCHANGED <<status, runs, raised>>

\* The exception has no reset_at, so the headers of the 429 cannot be made.
LimitRefuses(r) ==
    /\ at[r] = "limit"
    /\ Reply(r, 500)
    /\ KeepServices /\ KeepRequest /\ KeepCounts

\* Any other exception of the limiter lets the request through.
LimitFails(r) ==
    /\ at[r] = "limit"
    /\ Goto(r, "authenticate")
    /\ KeepServices /\ KeepRequest /\ KeepCounts
    /\ UNCHANGED status

-----------------------------------------------------------------------------
(* Dependencies.  They are solved once the body is read. *)

IsText(r) == call[r].operation = "search_vectors"

\* The body of a request that was read once may be gone the second time.  Then
\* the application waits for it until the client gives up.
BodyIsGone(r) ==
    /\ at[r] = "authenticate" /\ raised[r] > 0
    /\ Goto(r, "body")
    /\ UNCHANGED status
    /\ KeepServices /\ KeepRequest /\ KeepCounts
ClientLeaves(r) ==
    /\ at[r] = "body"
    /\ Reply(r, 400)
    /\ KeepServices /\ KeepRequest /\ KeepCounts

Authenticate(r) ==
    /\ at[r] = "authenticate"
    /\ IF Authenticates(worker[r], call[r].scheme, call[r].credential)
       THEN Goto(r, IF IsText(r) THEN "service" ELSE "authorize") /\ UNCHANGED status
       ELSE Reply(r, 401)
    /\ KeepServices /\ KeepRequest /\ KeepCounts

\* get_embedding_service runs in a thread of the pool: another may have made
\* the service since this one looked for it, and may make one before it is
\* returned.
LookForService(r) ==
    /\ at[r] = "service"
    /\ Goto(r, IF service[worker[r]] = NoProvider THEN "making" ELSE "taking")
    /\ KeepServices /\ KeepRequest /\ KeepCounts
    /\ UNCHANGED status
MakeService(r) ==
    /\ at[r] = "making"
    /\ ServiceMade(worker[r], r)
    /\ Goto(r, "taking")
    /\ UNCHANGED authVars /\ KeepRequest /\ KeepCounts
    /\ UNCHANGED status
TakeService(r) ==
    /\ at[r] = "taking"
    /\ provider' = [provider EXCEPT ![r] = service[worker[r]]]
    /\ Goto(r, "authorize")
    /\ KeepServices /\ KeepCounts
    /\ UNCHANGED <<worker, call, late, restarts, status>>

\* Mutant of Authorize: the permission is checked in the handler.
AuthorizeLate(r) ==
    /\ at[r] = "authorize"
    /\ runs' = [runs EXCEPT ![r] = @ + 1]
    /\ IF Authorizes(worker[r], call[r].credential, call[r].operation)
       THEN Goto(r, "handler") /\ UNCHANGED status
       ELSE Reply(r, 403)
    /\ KeepServices /\ KeepRequest
    /\ UNCHANGED <<guarded, raised>>

\* The caller is not authenticated again: a key may be revoked by now.
Authorize(r) ==
    /\ at[r] = "authorize"
    /\ IF Authorizes(worker[r], call[r].credential, call[r].operation)
       THEN /\ Goto(r, "handler")
            /\ runs' = [runs EXCEPT ![r] = @ + 1]
            /\ UNCHANGED status
       ELSE Reply(r, 403) /\ UNCHANGED runs
    /\ KeepServices /\ KeepRequest
    /\ UNCHANGED <<guarded, raised>>

-----------------------------------------------------------------------------
(* Handlers *)

HandlerAnswers(r) ==
    /\ at[r] = "handler" /\ ~IsText(r)
    /\ Reply(r, 200)
    /\ KeepServices /\ KeepRequest /\ KeepCounts

\* Mutant of HandlerRaises: the second call_next is guarded as well.
HandlerRaisesGuarded(r) ==
    /\ at[r] = "handler" /\ call[r].operation \in Unguarded
    /\ raised[r] < 3
    /\ raised' = [raised EXCEPT ![r] = @ + 1]
    /\ IF r \in guarded
       THEN Goto(r, "authenticate") /\ UNCHANGED <<guarded, status>>
       ELSE Reply(r, 500) /\ UNCHANGED guarded
    /\ KeepServices /\ KeepRequest
    /\ UNCHANGED runs

\* What a handler raises looks to the middleware like an error of the limiter,
\* and it calls the rest of the application again, unguarded.
HandlerRaises(r) ==
    /\ at[r] = "handler" /\ call[r].operation \in Unguarded
    /\ raised' = [raised EXCEPT ![r] = @ + 1]
    /\ IF r \in guarded
       THEN Goto(r, "authenticate") /\ guarded' = guarded \ {r} /\ UNCHANGED status
       ELSE Reply(r, 500) /\ UNCHANGED guarded
    /\ KeepServices /\ KeepRequest
    /\ UNCHANGED runs

-----------------------------------------------------------------------------
(* search_by_text.  The step between two awaits is one action. *)

\* validate_compatibility once the model is there, or cannot be: what cannot
\* be validated is compatible, and then text_to_vector loads and encodes.
Encoding(p) == IF p \in model' THEN "encode" ELSE "reload"
Validated(r, dimensionsAreKnown) ==
    IF dimensionsAreKnown /\ ~call[r].fits
    THEN Reply(r, 400)
    ELSE Goto(r, Encoding(provider[r])) /\ UNCHANGED status

\* get_dataset finds none, or raises.
DatasetFails(r) ==
    /\ at[r] = "handler" /\ IsText(r)
    /\ \E code \in {400, 404, 500} : Reply(r, code)
    /\ KeepServices /\ KeepRequest /\ KeepCounts

TextStart(r) ==
    /\ at[r] = "handler" /\ IsText(r)
    /\ UNCHANGED embeddingVars
    /\ IF provider[r] \in model
       THEN Validated(r, provider[r] \in dimensions)
       ELSE Goto(r, "load") /\ UNCHANGED status
    /\ UNCHANGED authVars /\ KeepRequest /\ KeepCounts

\* Mutant of LoadDone: the dimensions are awaited by whoever needs them.
LoadDoneKeepsModel(r) ==
    /\ at[r] \in {"load", "reload"}
    /\ UNCHANGED embeddingVars
    /\ Goto(r, IF at[r] = "load" THEN "test" ELSE "retest")
    /\ UNCHANGED status
    /\ UNCHANGED authVars /\ KeepRequest /\ KeepCounts

LoadDone(r) ==
    /\ at[r] \in {"load", "reload"}
    /\ ModelLoaded(provider[r])
    /\ Goto(r, IF at[r] = "load" THEN "test" ELSE "retest")
    /\ UNCHANGED status
    /\ UNCHANGED authVars /\ KeepRequest /\ KeepCounts

TestDone(r) ==
    /\ at[r] \in {"test", "retest"}
    /\ DimensionsFound(provider[r])
    /\ IF at[r] = "test" THEN Validated(r, TRUE)
       ELSE Goto(r, "encode") /\ UNCHANGED status
    /\ UNCHANGED authVars /\ KeepRequest /\ KeepCounts

\* Mutant of LoadFails: what fails to load is loaded again.
LoadFailsRetries(r) ==
    /\ at[r] \in {"load", "test", "reload", "retest"}
    /\ UNCHANGED embeddingVars
    /\ Goto(r, "load")
    /\ UNCHANGED status
    /\ UNCHANGED authVars /\ KeepRequest /\ KeepCounts

\* The first time that loading fails nothing is known, so nothing is refused;
\* the second time, the text cannot be embedded.
LoadFails(r) ==
    /\ at[r] \in {"load", "test", "reload", "retest"}
    /\ UNCHANGED embeddingVars
    /\ IF at[r] \in {"load", "test"} THEN Validated(r, FALSE) ELSE Reply(r, 400)
    /\ UNCHANGED authVars /\ KeepRequest /\ KeepCounts

EncodeDone(r) ==
    /\ at[r] = "encode"
    /\ Goto(r, "lookup")
    /\ KeepServices /\ KeepRequest /\ KeepCounts
    /\ UNCHANGED status

EncodeFails(r) ==
    /\ at[r] = "encode"
    /\ Reply(r, 400)
    /\ KeepServices /\ KeepRequest /\ KeepCounts

\* What the cache has of a search, which is in ResponseCache, is no answer: its
\* validation raises.
LookupHits(r) ==
    /\ at[r] = "lookup"
    /\ Reply(r, 500)
    /\ KeepServices /\ KeepRequest /\ KeepCounts
LookupMisses(r) ==
    /\ at[r] = "lookup"
    /\ Goto(r, "search")
    /\ KeepServices /\ KeepRequest /\ KeepCounts
    /\ UNCHANGED status

\* search_vectors compares the dimensions again, and may raise.  The answer is
\* stored in the cache first.
Search(r) ==
    /\ at[r] = "search"
    /\ \/ call[r].fits /\ Reply(r, 200)
       \/ \E code \in {400, 404, 500} : Reply(r, code)
    /\ KeepServices /\ KeepRequest /\ KeepCounts

-----------------------------------------------------------------------------
(* The rest of the world *)

Administer ==
    /\ \/ \E p \in Processes, k \in Keys : GenerateKey(p, k) \/ RevokeKey(p, k)
       \/ \E p \in Processes, t \in Tenants : CreateTenant(p, t)
       \/ Tick
    /\ UNCHANGED embeddingVars /\ UNCHANGED pathVars

\* A worker is restarted: its requests end without an answer.
Restart(h) ==
    /\ restarts < MaxRestarts
    /\ restarts' = restarts + 1
    /\ StartAgain(h)
    /\ ServiceLost(h, {r \in Requests : worker[r] = h})
    /\ at' = [r \in Requests |-> IF worker[r] = h /\ at[r] # "idle" THEN "done" ELSE at[r]]
    /\ KeepCounts
    /\ UNCHANGED <<worker, call, provider, status, late>>

Step(r) ==
    \/ Dispatch(r)
    \/ LimitAllows(r) \/ LimitRefuses(r) \/ LimitFails(r)
    \/ BodyIsGone(r) \/ ClientLeaves(r)
    \/ Authenticate(r) \/ Authorize(r)
    \/ LookForService(r) \/ MakeService(r) \/ TakeService(r)
    \/ HandlerAnswers(r) \/ HandlerRaises(r)
    \/ DatasetFails(r) \/ TextStart(r) \/ LoadDone(r) \/ TestDone(r) \/ LoadFails(r)
    \/ EncodeDone(r) \/ EncodeFails(r)
    \/ LookupHits(r) \/ LookupMisses(r) \/ Search(r)

Next ==
    \/ \E r \in Requests : Send(r) \/ Step(r)
    \/ Administer
    \/ \E h \in Hosts : Restart(h)

\* The event loop resumes what is ready, and the pool finishes what it only
\* computes.  What a request waits for outside need not come: the commands to
\* redis have no timeout, and nobody makes a client leave.
Fairness == \A r \in Requests : WF_vars(at[r] \notin Outside /\ Step(r))

Spec == Init /\ [][Next]_vars /\ Fairness

-----------------------------------------------------------------------------
(* Properties *)

TypeOK ==
    /\ known \subseteq Processes \X Keys
    /\ revoked \subseteq known
    /\ tenants \subseteq Processes \X Tenants
    /\ made \subseteq Keys
    /\ clock \in 0 .. MaxTime
    /\ service \in [Hosts -> Requests \cup {NoProvider}]
    /\ model \subseteq Requests
    /\ dimensions \subseteq model
    /\ at \in [Requests -> Stages]
    /\ worker \in [Requests -> Hosts]
    /\ call \in [Requests -> Calls]
    /\ provider \in [Requests -> Requests \cup {NoProvider}]
    /\ guarded \subseteq Requests
    /\ status \in [Requests -> {0, 200, 400, 401, 403, 404, 500}]
    /\ runs \in [Requests -> 0 .. 2]
    /\ raised \in [Requests -> 0 .. 2]
    /\ late \subseteq Requests
    /\ restarts \in 0 .. MaxRestarts

\* A request that comes to a worker after the worker revoked its key does not
\* run its handler, whatever happens to its limit, and neither when the
\* middleware calls the application a second time nor when the worker was
\* restarted with the same default key.
RevokedNeverRuns == \A r \in late : runs[r] = 0

\* A handler runs once for a request, and once more only after it raised; what
\* is answered by a handler was handled, and what is refused was not, unless
\* the handler raised before.
RunsOnce ==
    \A r \in Requests :
        /\ runs[r] <= 1 + raised[r]
        /\ raised[r] <= runs[r]
        /\ status[r] = 200 => runs[r] = 1 + raised[r]
        /\ status[r] \in {401, 403} => runs[r] = raised[r]

\* As long as a handler runs, its worker knows the key and the tenant of the
\* request, although keys and tenants were checked before several awaits.
HandlerKnowsCaller ==
    \A r \in Requests :
        at[r] \in Handling =>
            /\ call[r].credential \in Credentials
            /\ call[r].credential \in Keys => <<worker[r], call[r].credential>> \in known
            /\ <<worker[r], Owner[call[r].credential]>> \in tenants

\* No text is encoded by a model that is not loaded, whoever made the provider,
\* loaded it and failed to, and whichever of two providers a request was given.
EncodesWithModel ==
    \A r \in Requests : at[r] \in {"test", "retest", "encode", "lookup", "search"} => provider[r] \in model

\* Every request ends, unless it waits for ever at one place for what is outside
\* the worker: it never goes in circles, by the second call of the application,
\* by what it tries again, or by what others do to the service meanwhile.
RequestsEnd ==
    \A r \in Requests :
        (\A stage \in Outside : []<>(at[r] # stage)) => (at[r] = "dispatch" ~> at[r] = "done")

-----------------------------------------------------------------------------
(* Properties the code does not have *)

\* "Revoke an API key", src/app/services/auth_service.py:319: in every process.
RevokedEverywhere ==
    \A r \in Requests : at[r] = "authorize" =>
        \A p \in Processes : <<p, call[r].credential>> \notin revoked

\* A key that was made is known to the workers: the scripts that print one say
\* to use it, src/scripts/generate_api_key.py:70.
MadeKeysAreKnown == \A h \in Hosts, k \in made : <<h, k>> \in known

\* A request without its limit is answered with "Rate limit exceeded", 429,
\* src/app/middleware/rate_limit.py:113, and a handler runs once.
HandledOnce == \A r \in Requests : runs[r] <= 1

\* A dataset of other dimensions is refused before its text is embedded,
\* src/app/api/http/v1/search.py:152.
MismatchIsNoticed ==
    \A r \in Requests : at[r] = "search" => call[r].fits

\* A model that is loaded has its dimensions, once nobody is loading it.
DimensionsAreFound ==
    \A p \in model :
        (\A r \in Requests : provider[r] = p => at[r] \notin {"test", "retest"}) => p \in dimensions

\* "Get or create the global embedding service instance",
\* src/app/services/embedding_service.py:278: the requests of a worker share one.
OneService ==
    \A q, r \in Requests :
        {at[q], at[r]} \subseteq {"load", "test", "reload", "retest", "encode"} /\ worker[q] = worker[r]
            => provider[q] = provider[r]

=============================================================================
