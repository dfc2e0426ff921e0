---------------------------- MODULE ProviderBinding ----------------------------
(***************************************************************************)
(* How vectors stay bound to the model that computed them: Embedder.encode  *)
(* and its cache (src/src/specsearch/embeddings.py), the vectors of an index *)
(* (Store._build) and the comparison of a query with them                   *)
(* (SearchService.vector).  The served model can be exchanged at any time,  *)
(* between any two requests to the provider.                                *)
(*                                                                         *)
(* A model stands for everything identity() reports of it, and a vector for *)
(* the model that computed it.  Texts are the chunks of a corpus, or those  *)
(* of a query; each is a batch of its own, and gets its vector in one       *)
(* request to the provider.                                                 *)
(***************************************************************************)
EXTENDS Naturals

CONSTANTS
  Models,    \* what the provider may serve, told apart by identity()
  Texts,     \* chunks of text
  Builds,    \* index builds
  Queries,   \* the server's vector searches
  None,      \* no provider, no vector, no index
  MayRevert  \* whether the provider may serve again a model it had replaced

ASSUME BindingAssumption ==
  /\ None \notin Models \cup Builds
  /\ Builds \cap Queries = {}
  /\ MayRevert \in BOOLEAN

VARIABLES
  model,     \* the model the provider serves
  replaced,  \* history: the models it served before
  cache,     \* cache.db: the vector stored under a model's identity and a text
  pc,        \* where each build and query is
  provider,  \* the identity a build or query compares its own readings with
  identity,  \* the identity encode() read first
  vectors,   \* the vectors a build or query has
  fresh,     \* the texts whose vectors encode() has inserted, not yet committed
  target     \* the index a query searches

vars == <<model, replaced, cache, pc, provider, identity, vectors, fresh, target>>

Callers == Builds \cup Queries
NoVectors == [t \in Texts |-> None]

(* The statements of encode(), and of its two callers around it.           *)
Encoding == {"identify", "lookup", "compute", "encoded"}

(* The writer lock lets one build run at a time.                           *)
Building == \E b \in Builds : pc[b] \in Encoding

TypeOK ==
  /\ model \in Models
  /\ replaced \subseteq Models
  /\ cache \in [Models -> [Texts -> Models \cup {None}]]
  /\ pc \in [Callers -> {"idle", "done", "failed"} \cup Encoding]
  /\ provider \in [Callers -> Models \cup {None}]
  /\ identity \in [Callers -> Models \cup {None}]
  /\ vectors \in [Callers -> [Texts -> Models \cup {None}]]
  /\ fresh \in [Callers -> SUBSET Texts] /\ \A q \in Queries : fresh[q] = {}
  /\ target \in [Queries -> Builds \cup {None}]

Init ==
  /\ model \in Models
  /\ replaced = {}
  /\ cache = [m \in Models |-> NoVectors]
  /\ pc = [c \in Callers |-> "idle"]
  /\ provider = [c \in Callers |-> None]
  /\ identity = [c \in Callers |-> None]
  /\ vectors = [c \in Callers |-> NoVectors]
  /\ fresh = [c \in Callers |-> {}]
  /\ target = [q \in Queries |-> None]

--------------------------------------------------------------------------------
(* The definitions whose names end in Unchecked, CachingQueries and         *)
(* Identities are the ones below them as a plausible bug would make them;  *)
(* the specification uses none of them.                                    *)

(* The provider: a pull, a reload, another file behind the same name.      *)
ServeModel(m) ==
  /\ m # model
  /\ MayRevert \/ m \notin replaced
  /\ model' = m
  /\ replaced' = replaced \cup {model}
  /\ UNCHANGED <<cache, pc, provider, identity, vectors, fresh, target>>

(* Store._build with an embedder: `provider = embedder.identity()`.        *)
StartBuild(b) ==
  /\ pc[b] = "idle" /\ ~Building
  /\ pc' = [pc EXCEPT ![b] = "identify"]
  /\ provider' = [provider EXCEPT ![b] = model]
  /\ UNCHANGED <<model, replaced, cache, identity, vectors, fresh, target>>

(* `index build --lexical`: an index without provider and vectors.         *)
BuildLexical(b) ==
  /\ pc[b] = "idle" /\ ~Building
  /\ pc' = [pc EXCEPT ![b] = "done"]
  /\ UNCHANGED <<model, replaced, cache, provider, identity, vectors, fresh, target>>

(* SearchService.vector: an index of another provider, or of none, is an   *)
(* EmbeddingError before anything is computed.                             *)
StartQuery(q) ==
  /\ pc[q] \notin Encoding
  /\ \E b \in Builds :
       /\ pc[b] = "done" /\ provider[b] = model
       /\ pc' = [pc EXCEPT ![q] = "identify"]
       /\ provider' = [provider EXCEPT ![q] = provider[b]]
       /\ target' = [target EXCEPT ![q] = b]
       /\ vectors' = [vectors EXCEPT ![q] = NoVectors]
  /\ UNCHANGED <<model, replaced, cache, identity, fresh>>

(* encode(): the identity under which it will look up and store.           *)
Identify(c) ==
  /\ pc[c] = "identify"
  /\ identity' = [identity EXCEPT ![c] = model]
  /\ pc' = [pc EXCEPT ![c] = IF c \in Builds THEN "lookup" ELSE "compute"]
  /\ UNCHANGED <<model, replaced, cache, provider, vectors, fresh, target>>

(* Only documents are cached, and only builds encode documents, one build  *)
(* at a time, so no other process writes between the SELECTs.              *)
Lookup(b) ==
  /\ pc[b] = "lookup"
  /\ vectors' = [vectors EXCEPT ![b] = cache[identity[b]]]
  /\ pc' = [pc EXCEPT ![b] = "compute"]
  /\ UNCHANGED <<model, replaced, cache, provider, identity, fresh, target>>

ComputeCachingQueries(c, t) ==
  /\ pc[c] = "compute" /\ vectors[c][t] = None
  /\ vectors' = [vectors EXCEPT ![c][t] = model]
  /\ fresh' = [fresh EXCEPT ![c] = @ \cup {t}]
  /\ UNCHANGED <<model, replaced, cache, pc, provider, identity, target>>

(* raw(batch): whatever model the provider serves by now.                  *)
Compute(c, t) ==
  /\ pc[c] = "compute" /\ vectors[c][t] = None
  /\ vectors' = [vectors EXCEPT ![c][t] = model]
  /\ fresh' = [fresh EXCEPT ![c] = IF c \in Builds THEN @ \cup {t} ELSE @]
  /\ UNCHANGED <<model, replaced, cache, pc, provider, identity, target>>

(* The second identity() of encode().  An error leaves the with statement  *)
(* of the cache connection, which rolls the insertions back; without one   *)
(* it commits them.                                                        *)
ConfirmUnchecked(c) ==
  /\ pc[c] = "compute" /\ \A t \in Texts : vectors[c][t] # None
  /\ cache' = [cache EXCEPT ![identity[c]] =
                 [t \in Texts |-> IF t \in fresh[c] THEN vectors[c][t] ELSE @[t]]]
  /\ pc' = [pc EXCEPT ![c] = "encoded"]
  /\ fresh' = [fresh EXCEPT ![c] = {}]
  /\ UNCHANGED <<model, replaced, provider, identity, vectors, target>>

Confirm(c) ==
  /\ pc[c] = "compute" /\ \A t \in Texts : vectors[c][t] # None
  /\ model = identity[c]
  /\ cache' = [cache EXCEPT ![identity[c]] =
                 [t \in Texts |-> IF t \in fresh[c] THEN vectors[c][t] ELSE @[t]]]
  /\ pc' = [pc EXCEPT ![c] = "encoded"]
  /\ fresh' = [fresh EXCEPT ![c] = {}]
  /\ UNCHANGED <<model, replaced, provider, identity, vectors, target>>

(* The last identity(), in _build and in vector: against the one the build *)
(* read first, or the one the index records.                               *)
CompareIdentities(c) ==
  /\ pc[c] = "encoded" /\ model = identity[c]
  /\ pc' = [pc EXCEPT ![c] = "done"]
  /\ UNCHANGED <<model, replaced, cache, provider, identity, vectors, fresh, target>>

Compare(c) ==
  /\ pc[c] = "encoded" /\ model = provider[c]
  /\ pc' = [pc EXCEPT ![c] = "done"]
  /\ UNCHANGED <<model, replaced, cache, provider, identity, vectors, fresh, target>>

(* A comparison that fails, a provider that does not answer twice, an      *)
(* interrupt or a crash: the transaction is lost, the database removed.    *)
Fail(c) ==
  /\ pc[c] \in Encoding
  /\ pc' = [pc EXCEPT ![c] = "failed"]
  /\ fresh' = [fresh EXCEPT ![c] = {}]
  /\ UNCHANGED <<model, replaced, cache, provider, identity, vectors, target>>

Next ==
  \/ \E m \in Models : ServeModel(m)
  \/ \E b \in Builds : StartBuild(b) \/ BuildLexical(b) \/ Lookup(b)
  \/ \E q \in Queries : StartQuery(q)
  \/ \E c \in Callers :
       Identify(c) \/ (\E t \in Texts : Compute(c, t)) \/ Confirm(c) \/ Compare(c) \/ Fail(c)

Spec == Init /\ [][Next]_vars

--------------------------------------------------------------------------------
(* Properties.                                                             *)

(* What the cache holds under a model's identity, that model computed:     *)
(* a later build may take it without asking the provider.                  *)
CacheBound ==
  \A m \in Models, t \in Texts : cache[m][t] \in {None, m}

(* The vectors of an index are those of the provider its metadata names.   *)
IndexBound ==
  \A b \in Builds :
    pc[b] = "done" /\ provider[b] # None => \A t \in Texts : vectors[b][t] = provider[b]

(* A search that scored compared vectors of one model.                     *)
ScoresComparable ==
  \A q \in Queries :
    pc[q] = "done" => \A t, u \in Texts : vectors[q][t] = vectors[target[q]][u]

(* An index holds vectors of one model only.                               *)
IndexUnmixed ==
  \A b \in Builds : pc[b] = "done" => \A t, u \in Texts : vectors[b][t] = vectors[b][u]
===============================================================================
