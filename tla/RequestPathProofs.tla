-------------------------- MODULE RequestPathProofs --------------------------
(***************************************************************************)
(* Proofs about RequestPath: its type invariant, that a revoked key never  *)
(* runs a handler, how often handlers run, and what a handler can rely on. *)
(*                                                                         *)
(* The inductive invariant says of every request, stage by stage, how many *)
(* runs and exceptions its handler has had, that a late request has not    *)
(* come past its authentication, what was checked so far and still holds,  *)
(* that it has a provider, and that the model is there where it is used.   *)
(* A restart takes only what belongs to its worker, so providers belong to *)
(* the worker of the request that made them.                               *)
(***************************************************************************)
EXTENDS RequestPath, TLAPS

\* What a worker has, and what its requests are given, was made in it.
Owned ==
    /\ \A h \in Hosts : service[h] # NoProvider => worker[service[h]] = h
    /\ \A r \in Requests : provider[r] # NoProvider => worker[provider[r]] = worker[r]

\* TypeOK without the bounds of the counters.
Types ==
    /\ known \subseteq Processes \X Keys
    /\ revoked \subseteq known
    /\ tenants \subseteq Processes \X Tenants
    /\ made \subseteq Keys
    /\ clock \in 0 .. MaxTime
    /\ service \in [Hosts -> Requests \cup {NoProvider}]
    /\ model \subseteq Requests
    /\ dimensions \subseteq model
    /\ at \in [Requests -> Stages]
    /\ worker \in [Requests -> Hosts]
    /\ call \in [Requests -> Calls]
    /\ provider \in [Requests -> Requests \cup {NoProvider}]
    /\ guarded \subseteq Requests
    /\ status \in [Requests -> {0, 200, 400, 401, 403, 404, 500}]
    /\ runs \in [Requests -> Nat]
    /\ raised \in [Requests -> Nat]
    /\ late \subseteq Requests
    /\ restarts \in 0 .. MaxRestarts

\* The first call of the application is guarded, so nothing has been raised.
Counted(r) ==
    /\ at[r] \in {"idle", "dispatch", "limit"} => runs[r] = 0 /\ raised[r] = 0
    /\ at[r] \in {"body", "authenticate", "authorize"} \cup Serving => runs[r] = raised[r] /\ raised[r] <= 1
    /\ at[r] \in Handling => runs[r] = raised[r] + 1 /\ raised[r] <= 1
    /\ at[r] # "done" => status[r] = 0 /\ (r \in guarded => raised[r] = 0)
    /\ at[r] = "done" => runs[r] \in {raised[r], raised[r] + 1} /\ runs[r] <= 2
    /\ status[r] = 200 => runs[r] = raised[r] + 1
    /\ status[r] \in {401, 403} => runs[r] = raised[r]

\* Where a late request can be, and why it does not come further.
Refused(r) ==
    r \in late =>
        /\ runs[r] = 0
        /\ at[r] \in {"dispatch", "limit", "body", "authenticate", "done"}
        /\ at[r] # "done" => <<worker[r], call[r].credential>> \in revoked

\* What was checked of a request that came past its authentication.
KnownTo(r) ==
    /\ at[r] \in {"authorize"} \cup Serving \cup Handling =>
          /\ call[r].credential \in Credentials
          /\ call[r].credential \in Keys => <<worker[r], call[r].credential>> \in known
    /\ at[r] \in Handling => <<worker[r], Owner[call[r].credential]>> \in tenants

\* A request that comes to search_by_text has a provider.
Served(r) ==
    /\ at[r] = "taking" => service[worker[r]] # NoProvider
    /\ IsText(r) /\ at[r] \in {"authorize", "handler"} => provider[r] # NoProvider
    /\ at[r] \in Handling \ {"handler"} => provider[r] # NoProvider

Loaded(r) == at[r] \in {"test", "retest", "encode", "lookup", "search"} => provider[r] \in model

Good(r) == Counted(r) /\ Refused(r) /\ KnownTo(r) /\ Served(r) /\ Loaded(r)

IInv == Types /\ Owned /\ \A r \in Requests : Good(r)

-----------------------------------------------------------------------------
(* The invariant implies the properties *)

LEMMA InvariantSuffices ==
    IInv => TypeOK /\ RevokedNeverRuns /\ RunsOnce /\ HandlerKnowsCaller /\ EncodesWithModel
<1> SUFFICES ASSUME IInv
             PROVE  TypeOK /\ RevokedNeverRuns /\ RunsOnce /\ HandlerKnowsCaller /\ EncodesWithModel
  OBVIOUS
<1>1. ASSUME NEW r \in Requests
      PROVE  runs[r] \in 0 .. 2 /\ raised[r] \in 0 .. 2 /\ raised[r] <= runs[r] /\ runs[r] <= raised[r] + 1
  <2>1. at[r] \in Stages /\ runs[r] \in Nat /\ raised[r] \in Nat /\ Counted(r)
    BY DEF IInv, Types, Good
  <2> QED BY <2>1 DEF Counted, Stages, Serving, Handling
<1>2. TypeOK
  <2>1. runs \in [Requests -> 0 .. 2] /\ raised \in [Requests -> 0 .. 2]
    BY <1>1 DEF IInv, Types
  <2> QED BY <2>1 DEF IInv, Types, TypeOK
<1>3. RevokedNeverRuns
  BY DEF IInv, Types, Good, Refused, RevokedNeverRuns
<1>4. RunsOnce
  <2> SUFFICES ASSUME NEW r \in Requests
               PROVE  /\ runs[r] <= 1 + raised[r]
                      /\ raised[r] <= runs[r]
                      /\ status[r] = 200 => runs[r] = 1 + raised[r]
                      /\ status[r] \in {401, 403} => runs[r] = raised[r]
    BY DEF RunsOnce
  <2>1. runs[r] \in Nat /\ raised[r] \in Nat /\ Counted(r)
    BY DEF IInv, Types, Good
  <2> QED BY <1>1, <2>1 DEF Counted
<1>5. HandlerKnowsCaller
  BY DEF IInv, Good, KnownTo, HandlerKnowsCaller
<1>6. EncodesWithModel
  BY DEF IInv, Good, Loaded, EncodesWithModel
<1> QED BY <1>2, <1>3, <1>4, <1>5, <1>6

LEMMA InitialInvariant == Init => IInv
<1> SUFFICES ASSUME Init PROVE IInv
  OBVIOUS
<1>1. Types
  BY AuthAssumption, PathAssumption
     DEF Init, AuthInit, EmbeddingInit, Types, Stages, Handling
<1>2. Owned
  BY DEF Init, EmbeddingInit, Owned
<1>3. ASSUME NEW r \in Requests PROVE Good(r)
  BY DEF Init, Good, Counted, Refused, KnownTo, Served, Loaded, Serving, Handling
<1> QED BY <1>1, <1>2, <1>3 DEF IInv

-----------------------------------------------------------------------------
(* The steps of a request *)

\* What a step of r leaves alone, and how the rest of it may change.
StepFrame(r) ==
    /\ UNCHANGED <<known, revoked, tenants, made, clock>>
    /\ UNCHANGED <<worker, call, late, restarts>>
    /\ service' \in [Hosts -> Requests \cup {NoProvider}]
    /\ \A h \in Hosts : service[h] # NoProvider => service'[h] # NoProvider
    /\ provider' \in [Requests -> Requests \cup {NoProvider}]
    /\ Owned'
    /\ model \subseteq model' /\ model' \subseteq Requests /\ dimensions' \subseteq model'
    /\ at' \in [Requests -> Stages]
    /\ status' \in [Requests -> {0, 200, 400, 401, 403, 404, 500}]
    /\ runs' \in [Requests -> Nat] /\ raised' \in [Requests -> Nat]
    /\ guarded' \subseteq Requests
    /\ \A q \in Requests \ {r} :
          /\ at'[q] = at[q] /\ status'[q] = status[q] /\ provider'[q] = provider[q]
          /\ runs'[q] = runs[q] /\ raised'[q] = raised[q]
          /\ q \in guarded' <=> q \in guarded

\* A step of one request keeps what the invariant says of another.
LEMMA OthersStayGood ==
    ASSUME IInv, NEW r \in Requests, StepFrame(r), NEW q \in Requests \ {r}
    PROVE  Good(q)'
<1>1. /\ at'[q] = at[q] /\ status'[q] = status[q] /\ provider'[q] = provider[q]
      /\ runs'[q] = runs[q] /\ raised'[q] = raised[q]
      /\ q \in guarded' <=> q \in guarded
      /\ worker' = worker /\ call' = call /\ late' = late
      /\ known' = known /\ revoked' = revoked /\ tenants' = tenants
      /\ model \subseteq model'
  BY DEF StepFrame
<1>2. Good(q)
  BY DEF IInv
<1>3. Counted(q)'
  BY <1>1, <1>2 DEF Good, Counted
<1>4. Refused(q)'
  BY <1>1, <1>2 DEF Good, Refused
<1>5. KnownTo(q)'
  BY <1>1, <1>2 DEF Good, KnownTo
<1>6. Served(q)'
  <2>1. worker[q] \in Hosts
    BY DEF IInv, Types
  <2>2. service[worker[q]] # NoProvider => service'[worker[q]] # NoProvider
    BY <2>1 DEF StepFrame
  <2> QED BY <1>1, <1>2, <2>2 DEF Good, Served, IsText
<1>7. Loaded(q)'
  BY <1>1, <1>2 DEF Good, Loaded
<1> QED BY <1>3, <1>4, <1>5, <1>6, <1>7 DEF Good

\* So it is enough to look at the request that takes the step.
LEMMA StepKeeps ==
    ASSUME IInv, NEW r \in Requests, StepFrame(r), Good(r)'
    PROVE  IInv'
<1>1. Types' /\ Owned'
  BY DEF IInv, Types, StepFrame
<1>2. \A q \in Requests : Good(q)'
  BY OthersStayGood
<1> QED BY <1>1, <1>2 DEF IInv

-----------------------------------------------------------------------------
(* The decisions *)

\* Who is authenticated has a credential, and a key is known and active.
LEMMA AuthenticatedIsKnown ==
    ASSUME Types, NEW p, NEW scheme, NEW c, Authenticates(p, scheme, c)
    PROVE  c \in Credentials /\ (c \in Keys => <<p, c>> \in known) /\ <<p, c>> \notin revoked
<1>1. c \in Credentials
  BY DEF Authenticates, Credentials
<1>2. c \in Keys => <<p, c>> \in known /\ <<p, c>> \notin revoked
  BY AuthAssumption DEF Authenticates, VerifyKey
<1>3. <<p, c>> \in revoked => c \in Keys
  BY DEF Types
<1> QED BY <1>1, <1>2, <1>3

\* Who is authorized belongs to a tenant of the process.
LEMMA AuthorizedHasTenant ==
    ASSUME NEW p, NEW c, NEW operation, Authorizes(p, c, operation)
    PROVE  <<p, Owner[c]>> \in tenants
BY DEF Authorizes, CheckPermission

-----------------------------------------------------------------------------
(* The actions of the middleware and the dependencies *)

USE DEF Goto, Reply, KeepServices, KeepRequest, KeepCounts, Serving, Handling

LEMMA DispatchKeeps == ASSUME IInv, NEW r \in Requests, Dispatch(r) PROVE IInv'
<1>1. Types /\ Owned /\ Counted(r) /\ Refused(r) /\ KnownTo(r) /\ Served(r) /\ Loaded(r)
  BY DEF IInv, Good
<1>2. StepFrame(r)
  BY <1>1, EmbeddingAssumption
     DEF Dispatch, IsText, Types, Owned, Served, StepFrame, Stages
<1>3. Counted(r)'
  BY <1>1, <1>2 DEF Dispatch, Types, StepFrame, Counted
<1>4. Refused(r)'
  BY <1>1, <1>2 DEF Dispatch, Types, StepFrame, Refused
<1>5. KnownTo(r)'
  BY <1>1, <1>2 DEF Dispatch, Types, StepFrame, KnownTo
<1>6. Served(r)'
  BY <1>1, <1>2, EmbeddingAssumption DEF Dispatch, Types, StepFrame, Served, IsText
<1>7. Loaded(r)'
  BY <1>1, <1>2 DEF Dispatch, Types, StepFrame, Loaded
<1> QED BY <1>2, <1>3, <1>4, <1>5, <1>6, <1>7, StepKeeps DEF Good

LEMMA LimitAllowsKeeps == ASSUME IInv, NEW r \in Requests, LimitAllows(r) PROVE IInv'
<1>1. Types /\ Owned /\ Counted(r) /\ Refused(r) /\ KnownTo(r) /\ Served(r) /\ Loaded(r)
  BY DEF IInv, Good
<1>2. StepFrame(r)
  BY <1>1, EmbeddingAssumption
     DEF LimitAllows, IsText, Types, Owned, Served, StepFrame, Stages
<1>3. Counted(r)'
  BY <1>1, <1>2 DEF LimitAllows, Types, StepFrame, Counted
<1>4. Refused(r)'
  BY <1>1, <1>2 DEF LimitAllows, Types, StepFrame, Refused
<1>5. KnownTo(r)'
  BY <1>1, <1>2 DEF LimitAllows, Types, StepFrame, KnownTo
<1>6. Served(r)'
  BY <1>1, <1>2, EmbeddingAssumption DEF LimitAllows, Types, StepFrame, Served, IsText
<1>7. Loaded(r)'
  BY <1>1, <1>2 DEF LimitAllows, Types, StepFrame, Loaded
<1> QED BY <1>2, <1>3, <1>4, <1>5, <1>6, <1>7, StepKeeps DEF Good

LEMMA LimitRefusesKeeps == ASSUME IInv, NEW r \in Requests, LimitRefuses(r) PROVE IInv'
<1>1. Types /\ Owned /\ Counted(r) /\ Refused(r) /\ KnownTo(r) /\ Served(r) /\ Loaded(r)
  BY DEF IInv, Good
<1>2. StepFrame(r)
  BY <1>1, EmbeddingAssumption
     DEF LimitRefuses, IsText, Types, Owned, Served, StepFrame, Stages
<1>3. Counted(r)'
  BY <1>1, <1>2 DEF LimitRefuses, Types, StepFrame, Counted
<1>4. Refused(r)'
  BY <1>1, <1>2 DEF LimitRefuses, Types, StepFrame, Refused
<1>5. KnownTo(r)'
  BY <1>1, <1>2 DEF LimitRefuses, Types, StepFrame, KnownTo
<1>6. Served(r)'
  BY <1>1, <1>2, EmbeddingAssumption DEF LimitRefuses, Types, StepFrame, Served, IsText
<1>7. Loaded(r)'
  BY <1>1, <1>2 DEF LimitRefuses, Types, StepFrame, Loaded
<1> QED BY <1>2, <1>3, <1>4, <1>5, <1>6, <1>7, StepKeeps DEF Good

LEMMA LimitFailsKeeps == ASSUME IInv, NEW r \in Requests, LimitFails(r) PROVE IInv'
<1>1. Types /\ Owned /\ Counted(r) /\ Refused(r) /\ KnownTo(r) /\ Served(r) /\ Loaded(r)
  BY DEF IInv, Good
<1>2. StepFrame(r)
  BY <1>1, EmbeddingAssumption
     DEF LimitFails, IsText, Types, Owned, Served, StepFrame, Stages
<1>3. Counted(r)'
  BY <1>1, <1>2 DEF LimitFails, Types, StepFrame, Counted
<1>4. Refused(r)'
  BY <1>1, <1>2 DEF LimitFails, Types, StepFrame, Refused
<1>5. KnownTo(r)'
  BY <1>1, <1>2 DEF LimitFails, Types, StepFrame, KnownTo
<1>6. Served(r)'
  BY <1>1, <1>2, EmbeddingAssumption DEF LimitFails, Types, StepFrame, Served, IsText
<1>7. Loaded(r)'
  BY <1>1, <1>2 DEF LimitFails, Types, StepFrame, Loaded
<1> QED BY <1>2, <1>3, <1>4, <1>5, <1>6, <1>7, StepKeeps DEF Good

LEMMA BodyIsGoneKeeps == ASSUME IInv, NEW r \in Requests, BodyIsGone(r) PROVE IInv'
<1>1. Types /\ Owned /\ Counted(r) /\ Refused(r) /\ KnownTo(r) /\ Served(r) /\ Loaded(r)
  BY DEF IInv, Good
<1>2. StepFrame(r)
  BY <1>1, EmbeddingAssumption
     DEF BodyIsGone, IsText, Types, Owned, Served, StepFrame, Stages
<1>3. Counted(r)'
  BY <1>1, <1>2 DEF BodyIsGone, Types, StepFrame, Counted
<1>4. Refused(r)'
  BY <1>1, <1>2 DEF BodyIsGone, Types, StepFrame, Refused
<1>5. KnownTo(r)'
  BY <1>1, <1>2 DEF BodyIsGone, Types, StepFrame, KnownTo
<1>6. Served(r)'
  BY <1>1, <1>2, EmbeddingAssumption DEF BodyIsGone, Types, StepFrame, Served, IsText
<1>7. Loaded(r)'
  BY <1>1, <1>2 DEF BodyIsGone, Types, StepFrame, Loaded
<1> QED BY <1>2, <1>3, <1>4, <1>5, <1>6, <1>7, StepKeeps DEF Good

LEMMA ClientLeavesKeeps == ASSUME IInv, NEW r \in Requests, ClientLeaves(r) PROVE IInv'
<1>1. Types /\ Owned /\ Counted(r) /\ Refused(r) /\ KnownTo(r) /\ Served(r) /\ Loaded(r)
  BY DEF IInv, Good
<1>2. StepFrame(r)
  BY <1>1, EmbeddingAssumption
     DEF ClientLeaves, IsText, Types, Owned, Served, StepFrame, Stages
<1>3. Counted(r)'
  BY <1>1, <1>2 DEF ClientLeaves, Types, StepFrame, Counted
<1>4. Refused(r)'
  BY <1>1, <1>2 DEF ClientLeaves, Types, StepFrame, Refused
<1>5. KnownTo(r)'
  BY <1>1, <1>2 DEF ClientLeaves, Types, StepFrame, KnownTo
<1>6. Served(r)'
  BY <1>1, <1>2, EmbeddingAssumption DEF ClientLeaves, Types, StepFrame, Served, IsText
<1>7. Loaded(r)'
  BY <1>1, <1>2 DEF ClientLeaves, Types, StepFrame, Loaded
<1> QED BY <1>2, <1>3, <1>4, <1>5, <1>6, <1>7, StepKeeps DEF Good

LEMMA AuthenticateKeeps == ASSUME IInv, NEW r \in Requests, Authenticate(r) PROVE IInv'
<1>1. Types /\ Owned /\ Counted(r) /\ Refused(r) /\ KnownTo(r) /\ Served(r) /\ Loaded(r)
  BY DEF IInv, Good
<1>2. StepFrame(r)
  BY <1>1, EmbeddingAssumption
     DEF Authenticate, IsText, IsText, Types, Owned, Served, StepFrame, Stages
<1>3. Authenticates(worker[r], call[r].scheme, call[r].credential) =>
         /\ call[r].credential \in Credentials
         /\ call[r].credential \in Keys => <<worker[r], call[r].credential>> \in known
         /\ <<worker[r], call[r].credential>> \notin revoked
  BY <1>1, AuthenticatedIsKnown
<1>4. Counted(r)'
  BY <1>1, <1>2 DEF Authenticate, IsText, Types, StepFrame, Counted
<1>5. Refused(r)'
  BY <1>1, <1>2, <1>3 DEF Authenticate, IsText, Types, StepFrame, Refused
<1>6. KnownTo(r)'
  BY <1>1, <1>2, <1>3 DEF Authenticate, IsText, Types, StepFrame, KnownTo
<1>7. Served(r)'
  BY <1>1, <1>2, EmbeddingAssumption DEF Authenticate, IsText, Types, StepFrame, Served
<1>8. Loaded(r)'
  BY <1>1, <1>2 DEF Authenticate, IsText, Types, StepFrame, Loaded
<1> QED BY <1>2, <1>4, <1>5, <1>6, <1>7, <1>8, StepKeeps DEF Good

LEMMA LookForServiceKeeps == ASSUME IInv, NEW r \in Requests, LookForService(r) PROVE IInv'
<1>1. Types /\ Owned /\ Counted(r) /\ Refused(r) /\ KnownTo(r) /\ Served(r) /\ Loaded(r)
  BY DEF IInv, Good
<1>2. StepFrame(r)
  BY <1>1, EmbeddingAssumption
     DEF LookForService, IsText, Types, Owned, Served, StepFrame, Stages
<1>3. Counted(r)'
  BY <1>1, <1>2 DEF LookForService, Types, StepFrame, Counted
<1>4. Refused(r)'
  BY <1>1, <1>2 DEF LookForService, Types, StepFrame, Refused
<1>5. KnownTo(r)'
  BY <1>1, <1>2 DEF LookForService, Types, StepFrame, KnownTo
<1>6. Served(r)'
  BY <1>1, <1>2, EmbeddingAssumption DEF LookForService, Types, StepFrame, Served, IsText
<1>7. Loaded(r)'
  BY <1>1, <1>2 DEF LookForService, Types, StepFrame, Loaded
<1> QED BY <1>2, <1>3, <1>4, <1>5, <1>6, <1>7, StepKeeps DEF Good

LEMMA MakeServiceKeeps == ASSUME IInv, NEW r \in Requests, MakeService(r) PROVE IInv'
<1>1. Types /\ Owned /\ Counted(r) /\ Refused(r) /\ KnownTo(r) /\ Served(r) /\ Loaded(r)
  BY DEF IInv, Good
<1>2. StepFrame(r)
  BY <1>1, EmbeddingAssumption
     DEF MakeService, ServiceMade, authVars, embeddingVars, IsText, Types, Owned, Served, StepFrame, Stages
<1>3. Counted(r)'
  BY <1>1, <1>2 DEF MakeService, ServiceMade, authVars, embeddingVars, Types, StepFrame, Counted
<1>4. Refused(r)'
  BY <1>1, <1>2 DEF MakeService, ServiceMade, authVars, embeddingVars, Types, StepFrame, Refused
<1>5. KnownTo(r)'
  BY <1>1, <1>2 DEF MakeService, ServiceMade, authVars, embeddingVars, Types, StepFrame, KnownTo
<1>6. Served(r)'
  BY <1>1, <1>2, EmbeddingAssumption
     DEF MakeService, ServiceMade, authVars, embeddingVars, Types, StepFrame, Served, IsText
<1>7. Loaded(r)'
  BY <1>1, <1>2 DEF MakeService, ServiceMade, authVars, embeddingVars, Types, StepFrame, Loaded
<1> QED BY <1>2, <1>3, <1>4, <1>5, <1>6, <1>7, StepKeeps DEF Good

LEMMA TakeServiceKeeps == ASSUME IInv, NEW r \in Requests, TakeService(r) PROVE IInv'
<1>1. Types /\ Owned /\ Counted(r) /\ Refused(r) /\ KnownTo(r) /\ Served(r) /\ Loaded(r)
  BY DEF IInv, Good
<1>2. StepFrame(r)
  BY <1>1, EmbeddingAssumption
     DEF TakeService, IsText, Types, Owned, Served, StepFrame, Stages
<1>3. Counted(r)'
  BY <1>1, <1>2 DEF TakeService, Types, StepFrame, Counted
<1>4. Refused(r)'
  BY <1>1, <1>2 DEF TakeService, Types, StepFrame, Refused
<1>5. KnownTo(r)'
  BY <1>1, <1>2 DEF TakeService, Types, StepFrame, KnownTo
<1>6. Served(r)'
  BY <1>1, <1>2, EmbeddingAssumption DEF TakeService, Types, StepFrame, Served, IsText
<1>7. Loaded(r)'
  BY <1>1, <1>2 DEF TakeService, Types, StepFrame, Loaded
<1> QED BY <1>2, <1>3, <1>4, <1>5, <1>6, <1>7, StepKeeps DEF Good

LEMMA AuthorizeKeeps == ASSUME IInv, NEW r \in Requests, Authorize(r) PROVE IInv'
<1>1. Types /\ Owned /\ Counted(r) /\ Refused(r) /\ KnownTo(r) /\ Served(r) /\ Loaded(r)
  BY DEF IInv, Good
<1>2. StepFrame(r)
  BY <1>1, EmbeddingAssumption
     DEF Authorize, IsText, Types, Owned, Served, StepFrame, Stages
<1>3. Authorizes(worker[r], call[r].credential, call[r].operation) =>
         <<worker[r], Owner[call[r].credential]>> \in tenants
  BY AuthorizedHasTenant
<1>4. Counted(r)'
  BY <1>1, <1>2 DEF Authorize, Types, StepFrame, Counted
<1>5. Refused(r)'
  BY <1>1, <1>2, <1>3 DEF Authorize, Types, StepFrame, Refused
<1>6. KnownTo(r)'
  BY <1>1, <1>2, <1>3 DEF Authorize, Types, StepFrame, KnownTo
<1>7. Served(r)'
  BY <1>1, <1>2, EmbeddingAssumption DEF Authorize, Types, StepFrame, Served, IsText
<1>8. Loaded(r)'
  BY <1>1, <1>2 DEF Authorize, Types, StepFrame, Loaded
<1> QED BY <1>2, <1>4, <1>5, <1>6, <1>7, <1>8, StepKeeps DEF Good

-----------------------------------------------------------------------------
(* The actions of the handlers *)

LEMMA HandlerAnswersKeeps == ASSUME IInv, NEW r \in Requests, HandlerAnswers(r) PROVE IInv'
<1>1. Types /\ Owned /\ Counted(r) /\ Refused(r) /\ KnownTo(r) /\ Served(r) /\ Loaded(r)
  BY DEF IInv, Good
<1>2. StepFrame(r)
  BY <1>1, EmbeddingAssumption
     DEF HandlerAnswers, IsText, IsText, Types, Owned, Served, StepFrame, Stages
<1>3. Counted(r)'
  BY <1>1, <1>2 DEF HandlerAnswers, IsText, Types, StepFrame, Counted
<1>4. Refused(r)'
  BY <1>1, <1>2 DEF HandlerAnswers, IsText, Types, StepFrame, Refused
<1>5. KnownTo(r)'
  BY <1>1, <1>2 DEF HandlerAnswers, IsText, Types, StepFrame, KnownTo
<1>6. Served(r)'
  BY <1>1, <1>2, EmbeddingAssumption DEF HandlerAnswers, IsText, Types, StepFrame, Served
<1>7. Loaded(r)'
  BY <1>1, <1>2 DEF HandlerAnswers, IsText, Types, StepFrame, Loaded
<1> QED BY <1>2, <1>3, <1>4, <1>5, <1>6, <1>7, StepKeeps DEF Good

LEMMA HandlerRaisesKeeps == ASSUME IInv, NEW r \in Requests, HandlerRaises(r) PROVE IInv'
<1>1. Types /\ Owned /\ Counted(r) /\ Refused(r) /\ KnownTo(r) /\ Served(r) /\ Loaded(r)
  BY DEF IInv, Good
<1>2. StepFrame(r)
  BY <1>1, EmbeddingAssumption
     DEF HandlerRaises, IsText, Types, Owned, Served, StepFrame, Stages
<1>3. Counted(r)'
  BY <1>1, <1>2 DEF HandlerRaises, Types, StepFrame, Counted
<1>4. Refused(r)'
  BY <1>1, <1>2 DEF HandlerRaises, Types, StepFrame, Refused
<1>5. KnownTo(r)'
  BY <1>1, <1>2 DEF HandlerRaises, Types, StepFrame, KnownTo
<1>6. Served(r)'
  BY <1>1, <1>2, EmbeddingAssumption DEF HandlerRaises, Types, StepFrame, Served, IsText
<1>7. Loaded(r)'
  BY <1>1, <1>2 DEF HandlerRaises, Types, StepFrame, Loaded
<1> QED BY <1>2, <1>3, <1>4, <1>5, <1>6, <1>7, StepKeeps DEF Good

LEMMA DatasetFailsKeeps == ASSUME IInv, NEW r \in Requests, DatasetFails(r) PROVE IInv'
<1>1. Types /\ Owned /\ Counted(r) /\ Refused(r) /\ KnownTo(r) /\ Served(r) /\ Loaded(r)
  BY DEF IInv, Good
<1>2. StepFrame(r)
  BY <1>1, EmbeddingAssumption
     DEF DatasetFails, IsText, IsText, Types, Owned, Served, StepFrame, Stages
<1>3. Counted(r)'
  BY <1>1, <1>2 DEF DatasetFails, IsText, Types, StepFrame, Counted
<1>4. Refused(r)'
  BY <1>1, <1>2 DEF DatasetFails, IsText, Types, StepFrame, Refused
<1>5. KnownTo(r)'
  BY <1>1, <1>2 DEF DatasetFails, IsText, Types, StepFrame, KnownTo
<1>6. Served(r)'
  BY <1>1, <1>2, EmbeddingAssumption DEF DatasetFails, IsText, Types, StepFrame, Served
<1>7. Loaded(r)'
  BY <1>1, <1>2 DEF DatasetFails, IsText, Types, StepFrame, Loaded
<1> QED BY <1>2, <1>3, <1>4, <1>5, <1>6, <1>7, StepKeeps DEF Good

LEMMA TextStartKeeps == ASSUME IInv, NEW r \in Requests, TextStart(r) PROVE IInv'
<1>1. Types /\ Owned /\ Counted(r) /\ Refused(r) /\ KnownTo(r) /\ Served(r) /\ Loaded(r)
  BY DEF IInv, Good
<1>2. StepFrame(r)
  BY <1>1, EmbeddingAssumption
     DEF TextStart, Validated, Encoding, IsText, authVars, embeddingVars, IsText,
         Types, Owned, Served, StepFrame, Stages
<1>3. Counted(r)'
  BY <1>1, <1>2
     DEF TextStart, Validated, Encoding, IsText, authVars, embeddingVars, Types, StepFrame, Counted
<1>4. Refused(r)'
  BY <1>1, <1>2
     DEF TextStart, Validated, Encoding, IsText, authVars, embeddingVars, Types, StepFrame, Refused
<1>5. KnownTo(r)'
  BY <1>1, <1>2
     DEF TextStart, Validated, Encoding, IsText, authVars, embeddingVars, Types, StepFrame, KnownTo
<1>6. Served(r)'
  BY <1>1, <1>2, EmbeddingAssumption
     DEF TextStart, Validated, Encoding, IsText, authVars, embeddingVars, Types, StepFrame, Served
<1>7. Loaded(r)'
  BY <1>1, <1>2
     DEF TextStart, Validated, Encoding, IsText, authVars, embeddingVars, Types, StepFrame, Loaded
<1> QED BY <1>2, <1>3, <1>4, <1>5, <1>6, <1>7, StepKeeps DEF Good

LEMMA LoadDoneKeeps == ASSUME IInv, NEW r \in Requests, LoadDone(r) PROVE IInv'
<1>1. Types /\ Owned /\ Counted(r) /\ Refused(r) /\ KnownTo(r) /\ Served(r) /\ Loaded(r)
  BY DEF IInv, Good
<1>2. StepFrame(r)
  BY <1>1, EmbeddingAssumption
     DEF LoadDone, ModelLoaded, authVars, embeddingVars, IsText, Types, Owned, Served, StepFrame, Stages
<1>3. Counted(r)'
  BY <1>1, <1>2 DEF LoadDone, ModelLoaded, authVars, embeddingVars, Types, StepFrame, Counted
<1>4. Refused(r)'
  BY <1>1, <1>2 DEF LoadDone, ModelLoaded, authVars, embeddingVars, Types, StepFrame, Refused
<1>5. KnownTo(r)'
  BY <1>1, <1>2 DEF LoadDone, ModelLoaded, authVars, embeddingVars, Types, StepFrame, KnownTo
<1>6. Served(r)'
  BY <1>1, <1>2, EmbeddingAssumption
     DEF LoadDone, ModelLoaded, authVars, embeddingVars, Types, StepFrame, Served, IsText
<1>7. Loaded(r)'
  BY <1>1, <1>2 DEF LoadDone, ModelLoaded, authVars, embeddingVars, Types, StepFrame, Loaded
<1> QED BY <1>2, <1>3, <1>4, <1>5, <1>6, <1>7, StepKeeps DEF Good

LEMMA TestDoneKeeps == ASSUME IInv, NEW r \in Requests, TestDone(r) PROVE IInv'
<1>1. Types /\ Owned /\ Counted(r) /\ Refused(r) /\ KnownTo(r) /\ Served(r) /\ Loaded(r)
  BY DEF IInv, Good
<1>2. StepFrame(r)
  BY <1>1, EmbeddingAssumption
     DEF TestDone, Validated, Encoding, IsText, authVars, embeddingVars, DimensionsFound, IsText,
         Types, Owned, Served, Loaded, StepFrame, Stages
<1>3. Counted(r)'
  BY <1>1, <1>2
     DEF TestDone, Validated, Encoding, IsText, authVars, embeddingVars, DimensionsFound,
         Types, StepFrame, Counted
<1>4. Refused(r)'
  BY <1>1, <1>2
     DEF TestDone, Validated, Encoding, IsText, authVars, embeddingVars, DimensionsFound,
         Types, StepFrame, Refused
<1>5. KnownTo(r)'
  BY <1>1, <1>2
     DEF TestDone, Validated, Encoding, IsText, authVars, embeddingVars, DimensionsFound,
         Types, StepFrame, KnownTo
<1>6. Served(r)'
  BY <1>1, <1>2, EmbeddingAssumption
     DEF TestDone, Validated, Encoding, IsText, authVars, embeddingVars, DimensionsFound,
         Types, StepFrame, Served
<1>7. Loaded(r)'
  BY <1>1, <1>2
     DEF TestDone, Validated, Encoding, IsText, authVars, embeddingVars, DimensionsFound,
         Types, StepFrame, Loaded
<1> QED BY <1>2, <1>3, <1>4, <1>5, <1>6, <1>7, StepKeeps DEF Good

LEMMA LoadFailsKeeps == ASSUME IInv, NEW r \in Requests, LoadFails(r) PROVE IInv'
<1>1. Types /\ Owned /\ Counted(r) /\ Refused(r) /\ KnownTo(r) /\ Served(r) /\ Loaded(r)
  BY DEF IInv, Good
<1>2. StepFrame(r)
  BY <1>1, EmbeddingAssumption
     DEF LoadFails, Validated, Encoding, IsText, authVars, embeddingVars, IsText,
         Types, Owned, Served, StepFrame, Stages
<1>3. Counted(r)'
  BY <1>1, <1>2
     DEF LoadFails, Validated, Encoding, IsText, authVars, embeddingVars, Types, StepFrame, Counted
<1>4. Refused(r)'
  BY <1>1, <1>2
     DEF LoadFails, Validated, Encoding, IsText, authVars, embeddingVars, Types, StepFrame, Refused
<1>5. KnownTo(r)'
  BY <1>1, <1>2
     DEF LoadFails, Validated, Encoding, IsText, authVars, embeddingVars, Types, StepFrame, KnownTo
<1>6. Served(r)'
  BY <1>1, <1>2, EmbeddingAssumption
     DEF LoadFails, Validated, Encoding, IsText, authVars, embeddingVars, Types, StepFrame, Served
<1>7. Loaded(r)'
  BY <1>1, <1>2
     DEF LoadFails, Validated, Encoding, IsText, authVars, embeddingVars, Types, StepFrame, Loaded
<1> QED BY <1>2, <1>3, <1>4, <1>5, <1>6, <1>7, StepKeeps DEF Good

LEMMA EncodeDoneKeeps == ASSUME IInv, NEW r \in Requests, EncodeDone(r) PROVE IInv'
<1>1. Types /\ Owned /\ Counted(r) /\ Refused(r) /\ KnownTo(r) /\ Served(r) /\ Loaded(r)
  BY DEF IInv, Good
<1>2. StepFrame(r)
  BY <1>1, EmbeddingAssumption
     DEF EncodeDone, IsText, Types, Owned, Served, StepFrame, Stages
<1>3. Counted(r)'
  BY <1>1, <1>2 DEF EncodeDone, Types, StepFrame, Counted
<1>4. Refused(r)'
  BY <1>1, <1>2 DEF EncodeDone, Types, StepFrame, Refused
<1>5. KnownTo(r)'
  BY <1>1, <1>2 DEF EncodeDone, Types, StepFrame, KnownTo
<1>6. Served(r)'
  BY <1>1, <1>2, EmbeddingAssumption DEF EncodeDone, Types, StepFrame, Served, IsText
<1>7. Loaded(r)'
  BY <1>1, <1>2 DEF EncodeDone, Types, StepFrame, Loaded
<1> QED BY <1>2, <1>3, <1>4, <1>5, <1>6, <1>7, StepKeeps DEF Good

LEMMA EncodeFailsKeeps == ASSUME IInv, NEW r \in Requests, EncodeFails(r) PROVE IInv'
<1>1. Types /\ Owned /\ Counted(r) /\ Refused(r) /\ KnownTo(r) /\ Served(r) /\ Loaded(r)
  BY DEF IInv, Good
<1>2. StepFrame(r)
  BY <1>1, EmbeddingAssumption
     DEF EncodeFails, IsText, Types, Owned, Served, StepFrame, Stages
<1>3. Counted(r)'
  BY <1>1, <1>2 DEF EncodeFails, Types, StepFrame, Counted
<1>4. Refused(r)'
  BY <1>1, <1>2 DEF EncodeFails, Types, StepFrame, Refused
<1>5. KnownTo(r)'
  BY <1>1, <1>2 DEF EncodeFails, Types, StepFrame, KnownTo
<1>6. Served(r)'
  BY <1>1, <1>2, EmbeddingAssumption DEF EncodeFails, Types, StepFrame, Served, IsText
<1>7. Loaded(r)'
  BY <1>1, <1>2 DEF EncodeFails, Types, StepFrame, Loaded
<1> QED BY <1>2, <1>3, <1>4, <1>5, <1>6, <1>7, StepKeeps DEF Good

LEMMA LookupHitsKeeps == ASSUME IInv, NEW r \in Requests, LookupHits(r) PROVE IInv'
<1>1. Types /\ Owned /\ Counted(r) /\ Refused(r) /\ KnownTo(r) /\ Served(r) /\ Loaded(r)
  BY DEF IInv, Good
<1>2. StepFrame(r)
  BY <1>1, EmbeddingAssumption
     DEF LookupHits, IsText, Types, Owned, Served, StepFrame, Stages
<1>3. Counted(r)'
  BY <1>1, <1>2 DEF LookupHits, Types, StepFrame, Counted
<1>4. Refused(r)'
  BY <1>1, <1>2 DEF LookupHits, Types, StepFrame, Refused
<1>5. KnownTo(r)'
  BY <1>1, <1>2 DEF LookupHits, Types, StepFrame, KnownTo
<1>6. Served(r)'
  BY <1>1, <1>2, EmbeddingAssumption DEF LookupHits, Types, StepFrame, Served, IsText
<1>7. Loaded(r)'
  BY <1>1, <1>2 DEF LookupHits, Types, StepFrame, Loaded
<1> QED BY <1>2, <1>3, <1>4, <1>5, <1>6, <1>7, StepKeeps DEF Good

LEMMA LookupMissesKeeps == ASSUME IInv, NEW r \in Requests, LookupMisses(r) PROVE IInv'
<1>1. Types /\ Owned /\ Counted(r) /\ Refused(r) /\ KnownTo(r) /\ Served(r) /\ Loaded(r)
  BY DEF IInv, Good
<1>2. StepFrame(r)
  BY <1>1, EmbeddingAssumption
     DEF LookupMisses, IsText, Types, Owned, Served, StepFrame, Stages
<1>3. Counted(r)'
  BY <1>1, <1>2 DEF LookupMisses, Types, StepFrame, Counted
<1>4. Refused(r)'
  BY <1>1, <1>2 DEF LookupMisses, Types, StepFrame, Refused
<1>5. KnownTo(r)'
  BY <1>1, <1>2 DEF LookupMisses, Types, StepFrame, KnownTo
<1>6. Served(r)'
  BY <1>1, <1>2, EmbeddingAssumption DEF LookupMisses, Types, StepFrame, Served, IsText
<1>7. Loaded(r)'
  BY <1>1, <1>2 DEF LookupMisses, Types, StepFrame, Loaded
<1> QED BY <1>2, <1>3, <1>4, <1>5, <1>6, <1>7, StepKeeps DEF Good

LEMMA SearchKeeps == ASSUME IInv, NEW r \in Requests, Search(r) PROVE IInv'
<1>1. Types /\ Owned /\ Counted(r) /\ Refused(r) /\ KnownTo(r) /\ Served(r) /\ Loaded(r)
  BY DEF IInv, Good
<1>2. StepFrame(r)
  BY <1>1, EmbeddingAssumption
     DEF Search, IsText, Types, Owned, Served, StepFrame, Stages
<1>3. Counted(r)'
  BY <1>1, <1>2 DEF Search, Types, StepFrame, Counted
<1>4. Refused(r)'
  BY <1>1, <1>2 DEF Search, Types, StepFrame, Refused
<1>5. KnownTo(r)'
  BY <1>1, <1>2 DEF Search, Types, StepFrame, KnownTo
<1>6. Served(r)'
  BY <1>1, <1>2, EmbeddingAssumption DEF Search, Types, StepFrame, Served, IsText
<1>7. Loaded(r)'
  BY <1>1, <1>2 DEF Search, Types, StepFrame, Loaded
<1> QED BY <1>2, <1>3, <1>4, <1>5, <1>6, <1>7, StepKeeps DEF Good

LEMMA StepKeepsInvariant == ASSUME IInv, NEW r \in Requests, Step(r) PROVE IInv'
<1> HIDE DEF Goto, Reply, KeepServices, KeepRequest, KeepCounts, Serving, Handling
<1> QED
  BY DispatchKeeps, LimitAllowsKeeps, LimitRefusesKeeps, LimitFailsKeeps,
     BodyIsGoneKeeps, ClientLeavesKeeps, AuthenticateKeeps, AuthorizeKeeps,
     LookForServiceKeeps, MakeServiceKeeps, TakeServiceKeeps,
     HandlerAnswersKeeps, HandlerRaisesKeeps, DatasetFailsKeeps, TextStartKeeps,
     LoadDoneKeeps, TestDoneKeeps, LoadFailsKeeps, EncodeDoneKeeps, EncodeFailsKeeps,
     LookupHitsKeeps, LookupMissesKeeps, SearchKeeps
     DEF Step

-----------------------------------------------------------------------------
(* The rest of the world *)

\* A request that comes is late if its key is revoked already.
LEMMA SendKeeps == ASSUME IInv, NEW r \in Requests, Send(r) PROVE IInv'
<1>1. Types /\ Owned /\ (\A q \in Requests : Good(q))
  BY DEF IInv
<1>2. Types' /\ Owned'
  BY <1>1 DEF Send, Types, Owned, Stages
<1>3. ASSUME NEW q \in Requests, q # r PROVE Good(q)'
  <2>1. /\ at'[q] = at[q] /\ (q \in late' <=> q \in late)
        /\ UNCHANGED <<known, revoked, tenants, made, clock, service, model, dimensions>>
        /\ UNCHANGED <<worker, call, provider, guarded, status, runs, raised>>
    BY <1>1, <1>3 DEF Send, Types
  <2> QED BY <1>1, <2>1 DEF Good, Counted, Refused, KnownTo, Served, IsText, Loaded
<1>4. Good(r)'
  <2>1. at[r] = "idle" /\ at'[r] = "dispatch"
        /\ (r \in late' => r \in late \/ <<worker[r], call[r].credential>> \in revoked)
        /\ UNCHANGED <<known, revoked, tenants, made, clock, service, model, dimensions>>
        /\ UNCHANGED <<worker, call, provider, guarded, status, runs, raised>>
    BY <1>1 DEF Send, Types
  <2> QED BY <1>1, <2>1 DEF Good, Counted, Refused, KnownTo, Served, IsText, Loaded
<1> QED BY <1>2, <1>3, <1>4 DEF IInv

\* Keys, tenants and revocations only grow, and time passes.
LEMMA AdministerKeeps == ASSUME IInv, Administer PROVE IInv'
<1>1. Types /\ Owned /\ (\A q \in Requests : Good(q))
  BY DEF IInv
<1>2. /\ UNCHANGED <<at, worker, call, provider, guarded, status, runs, raised, late, restarts>>
      /\ UNCHANGED <<service, model, dimensions>>
  BY DEF Administer, embeddingVars, pathVars
<1>3. /\ known \subseteq known' /\ revoked \subseteq revoked' /\ tenants \subseteq tenants'
      /\ known' \subseteq Processes \X Keys /\ revoked' \subseteq known'
      /\ tenants' \subseteq Processes \X Tenants /\ made' \subseteq Keys
      /\ clock' \in 0 .. MaxTime
  <2>1. CASE \E p \in Processes, k \in Keys : GenerateKey(p, k)
    BY <1>1, <2>1 DEF GenerateKey, Types
  <2>2. CASE \E p \in Processes, k \in Keys : RevokeKey(p, k)
    BY <1>1, <2>2 DEF RevokeKey, Types
  <2>3. CASE \E p \in Processes, t \in Tenants : CreateTenant(p, t)
    BY <1>1, <2>3 DEF CreateTenant, Types
  <2>4. CASE Tick
    BY <1>1, <2>4, AuthAssumption DEF Tick, Types
  <2> QED BY <2>1, <2>2, <2>3, <2>4 DEF Administer
<1>4. Types' /\ Owned'
  BY <1>1, <1>2, <1>3 DEF Types, Owned
<1>5. ASSUME NEW q \in Requests PROVE Good(q)'
  BY <1>1, <1>2, <1>3 DEF Good, Counted, Refused, KnownTo, Served, IsText, Loaded
<1> QED BY <1>4, <1>5 DEF IInv

\* What a worker forgets was needed by none but its own requests.
LEMMA RestartKeeps == ASSUME IInv, NEW h \in Hosts, Restart(h) PROVE IInv'
<1>1. Types /\ Owned /\ (\A q \in Requests : Good(q))
  BY DEF IInv
<1>2. /\ UNCHANGED <<worker, call, provider, guarded, status, runs, raised, late, made, clock>>
      /\ restarts' \in 0 .. MaxRestarts
      /\ at' = [r \in Requests |-> IF worker[r] = h /\ at[r] # "idle" THEN "done" ELSE at[r]]
  BY <1>1, PathAssumption DEF Restart, StartAgain, Types
<1>3. /\ known' \subseteq Processes \X Keys
      /\ revoked' \subseteq known'
      /\ tenants' \subseteq Processes \X Tenants
      /\ service' = [service EXCEPT ![h] = NoProvider]
      /\ model' \subseteq Requests /\ dimensions' \subseteq model'
  BY <1>1, AuthAssumption, PathAssumption
     DEF Restart, StartAgain, ServiceLost, Others, Types
<1>4. Types' /\ Owned'
  BY <1>1, <1>2, <1>3 DEF Types, Owned, Stages
<1>5. ASSUME NEW q \in Requests PROVE Good(q)'
  <2>1. CASE at'[q] # at[q]
    <3>1. at'[q] = "done" /\ at[q] # "idle" /\ at[q] \in Stages
      BY <1>1, <1>2, <2>1 DEF Types
    <3>2. runs[q] \in Nat /\ raised[q] \in Nat
      BY <1>1 DEF Types
    <3>3. Counted(q)'
      BY <1>1, <1>2, <3>1, <3>2 DEF Good, Counted, Stages
    <3> QED BY <1>1, <1>2, <3>1, <3>3 DEF Good, Refused, KnownTo, Served, Loaded
  <2>2. CASE at'[q] = at[q] /\ at[q] \in {"idle", "done"}
    BY <1>1, <1>2, <2>2 DEF Good, Counted, Refused, KnownTo, Served, IsText, Loaded
  <2>3. CASE at'[q] = at[q] /\ at[q] \notin {"idle", "done"}
    <3>1. worker[q] # h
      BY <1>2, <2>3
    <3>2. /\ \A k : <<worker[q], k>> \in known => <<worker[q], k>> \in known'
          /\ \A k : <<worker[q], k>> \in revoked => <<worker[q], k>> \in revoked'
          /\ \A t : <<worker[q], t>> \in tenants => <<worker[q], t>> \in tenants'
          /\ service'[worker[q]] = service[worker[q]]
      BY <1>1, <1>3, <3>1 DEF Restart, StartAgain, Others, Types
    <3>3. provider[q] \in model => provider[q] \in model'
      <4>1. provider[q] \in model => worker[provider[q]] # h
        BY <1>1, <3>1, EmbeddingAssumption DEF Types, Owned
      <4> QED BY <4>1 DEF Restart, ServiceLost
    <3> QED BY <1>1, <1>2, <2>3, <3>2, <3>3 DEF Good, Counted, Refused, KnownTo, Served, IsText, Loaded
  <2> QED BY <2>1, <2>2, <2>3
<1> QED BY <1>4, <1>5 DEF IInv

-----------------------------------------------------------------------------
(* Theorems *)

LEMMA Inductive == IInv /\ [Next]_vars => IInv'
<1> SUFFICES ASSUME IInv, [Next]_vars PROVE IInv'
  OBVIOUS
<1>1. CASE UNCHANGED vars
  BY <1>1 DEF vars, IInv, Types, Owned, Good, Counted, Refused, KnownTo, Served, IsText, Loaded
<1>2. CASE Next
  BY <1>2, SendKeeps, StepKeepsInvariant, AdministerKeeps, RestartKeeps DEF Next
<1> QED BY <1>1, <1>2

LEMMA Invariance == Spec => []IInv
BY InitialInvariant, Inductive, PTL DEF Spec

\* The state keeps its types, and no handler runs or raises more than twice.
THEOREM TypeCorrect == Spec => []TypeOK
BY Invariance, InvariantSuffices, PTL

\* A request that comes after its worker revoked its key runs no handler.
THEOREM RevokedKeysAreRefused == Spec => []RevokedNeverRuns
BY Invariance, InvariantSuffices, PTL

\* A handler runs again only after it raised, and what is refused did not run,
\* unless it raised before.
THEOREM HandlersRunOnce == Spec => []RunsOnce
BY Invariance, InvariantSuffices, PTL

\* A handler that runs belongs to a caller that its worker knows.
THEOREM CallersAreKnown == Spec => []HandlerKnowsCaller
BY Invariance, InvariantSuffices, PTL

\* A text is encoded by a model that is loaded.
THEOREM ModelsAreLoaded == Spec => []EncodesWithModel
BY Invariance, InvariantSuffices, PTL

=============================================================================
