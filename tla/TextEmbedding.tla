---------------------------- MODULE TextEmbedding ----------------------------
(***************************************************************************)
(* src/app/services/embedding_service.py: the embedding service of a       *)
(* process, which the first request that needs one makes, and              *)
(* SentenceTransformersProvider, whose model requests load as they come    *)
(* and whose dimensions are found out after it is loaded.  The provider of *)
(* OpenAI knows its dimensions from the start and is left out.             *)
(***************************************************************************)

CONSTANTS
    Hosts,          \* the processes
    Requests,       \* the requests; a provider has the name of the one that made it
    NoProvider

ASSUME EmbeddingAssumption == NoProvider \notin Requests

VARIABLES
    service,        \* the provider of the _embedding_service of each host
    model,          \* the providers whose _model is loaded
    dimensions      \* the providers whose _dimensions are set

embeddingVars == <<service, model, dimensions>>

EmbeddingInit ==
    /\ service = [h \in Hosts |-> NoProvider]
    /\ model = {}
    /\ dimensions = {}

\* get_embedding_service, once it found that there is none.
ServiceMade(h, p) ==
    /\ service' = [service EXCEPT ![h] = p]
    /\ UNCHANGED <<model, dimensions>>

\* The two awaits of _load_model, either of which may raise; in between, any
\* number of requests can come and find the model loaded.
ModelLoaded(p) ==
    /\ model' = model \cup {p}
    /\ UNCHANGED <<service, dimensions>>
DimensionsFound(p) ==
    /\ dimensions' = dimensions \cup {p}
    /\ UNCHANGED <<service, model>>

\* The end of a process and of the providers that were made in it.
ServiceLost(h, lost) ==
    /\ service' = [service EXCEPT ![h] = NoProvider]
    /\ model' = model \ lost
    /\ dimensions' = dimensions \ lost

=============================================================================
