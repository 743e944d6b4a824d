---------------------------- MODULE ClientCache ----------------------------
(***************************************************************************)
(* multicluster.ClientFactory: ClientForEnvironment validates the           *)
(* environment's connection, reads the kubeconfig Secret, looks the key     *)
(* (namespace, secret, data key, resourceVersion) up in the cache under     *)
(* RLock, and on a miss builds a client outside any lock and stores it      *)
(* under Lock.  InvalidateSecret and InvalidateCache remove entries; the    *)
(* Secret may be rewritten at any time.  Callers are concurrent goroutines. *)
(* The namespace is one, so a cache key is (secret, data key, version).     *)
(***************************************************************************)
EXTENDS Integers, FiniteSets, TLC

CONSTANTS
  Callers,     \* goroutines calling ClientForEnvironment
  Secrets,     \* kubeconfig Secret names
  DataKeys,    \* data keys a Secret may hold
  Envs,        \* Connection specs: [kind, secretRef, key]
  MaxRV,       \* bound on a Secret's resourceVersion
  MaxGen,      \* bound on invalidations of a Secret
  NoClient     \* model value: a nil client

VARIABLES
  secret,   \* name -> [rv, keys, valid]: the Secret in the API server (rv 0: absent)
  cache,    \* cacheKey -> client
  caller,   \* goroutine -> [pc, ck, rv, cl, got, hit]: rv is the version read
  gen       \* history: secret -> number of invalidations that covered it

vars == <<secret, cache, caller, gen>>

\* a built client remembers what it was built from and the invalidation
\* generation of its secret when it was built
Client == [secret : Secrets, key : DataKeys, rv : 1..MaxRV, born : 0..MaxGen]

----------------------------------------------------------------------------
\* key := Kubeconfig.Key, defaulting to "kubeconfig"
DataKey(e) == IF e.key = "" THEN "kubeconfig" ELSE e.key

CacheKeyNoVersion(s, k, rv) == \* mutant: the resourceVersion is left out of the key
  [secret |-> s, key |-> k, rv |-> 0]

\* cacheKey{namespace, secretName, secretKey, resourceVersion}
CacheKey(s, k, rv) == [secret |-> s, key |-> k, rv |-> rv]

Idle(c) == [pc |-> "idle", ck |-> NoClient, rv |-> 0, cl |-> NoClient,
            got |-> caller[c].got, hit |-> FALSE]

EarlyReturnIgnoresGetError(c, e) == \* mutant: the Get error is dropped
  \/ e.kind # "kubeconfig"
  \/ e.secretRef = ""

\* ClientForEnvironment returns (nil or an error) before any cache access:
\* in-cluster or no connection, an unsupported kind, an empty secretRef, or
\* a failed Secret Get.
EarlyReturn(c, e) ==
  \/ e.kind # "kubeconfig"
  \/ e.secretRef = ""
  \/ secret[e.secretRef].rv = 0

\* ClientForEnvironment up to the cache check: the Secret is read and the
\* key looked up under RLock; a hit returns the cached client.
Lookup(c) ==
  /\ caller[c].pc = "idle"
  /\ \E e \in Envs :
       IF EarlyReturn(c, e)
       THEN caller' = [caller EXCEPT ![c] = [Idle(c) EXCEPT !.got = NoClient]]
       ELSE LET s == e.secretRef
                ck == CacheKey(s, DataKey(e), secret[s].rv)
            IN IF ck \in DOMAIN cache
               THEN caller' = [caller EXCEPT ![c] = [Idle(c) EXCEPT !.got = cache[ck],
                                                       !.rv = secret[s].rv, !.hit = TRUE]]
               ELSE caller' = [caller EXCEPT ![c] =
                                 [pc |-> "miss", ck |-> ck, rv |-> secret[s].rv,
                                  got |-> caller[c].got,
                                  hit |-> FALSE,
                                  cl |-> IF DataKey(e) \in secret[s].keys /\ secret[s].valid
                                         THEN [secret |-> s, key |-> DataKey(e),
                                               rv |-> secret[s].rv, born |-> gen[s]]
                                         ELSE NoClient]]
  /\ UNCHANGED <<secret, cache, gen>>

\* The data key is missing or the kubeconfig does not parse: an error.
BuildFails(c) ==
  /\ caller[c].pc = "miss"
  /\ caller[c].cl = NoClient
  /\ caller' = [caller EXCEPT ![c] = [Idle(c) EXCEPT !.got = NoClient]]
  /\ UNCHANGED <<secret, cache, gen>>

\* client.New succeeds; the goroutine is about to take the write lock.
Build(c) ==
  /\ caller[c].pc = "miss"
  /\ caller[c].cl # NoClient
  /\ caller' = [caller EXCEPT ![c].pc = "built"]
  /\ UNCHANGED <<secret, cache, gen>>

\* Under Lock: cache[ck] = remoteClient (overwriting a concurrent build),
\* and the client is returned.
Store(c) ==
  /\ caller[c].pc = "built"
  /\ cache' = (caller[c].ck :> caller[c].cl) @@ cache
  /\ caller' = [caller EXCEPT ![c] = [Idle(c) EXCEPT !.got = caller[c].cl]]
  /\ UNCHANGED <<secret, gen>>

----------------------------------------------------------------------------
\* The Secret is rewritten: a new resourceVersion, with any data.
UpdateSecret(s) ==
  /\ secret[s].rv < MaxRV
  /\ \E ks \in SUBSET DataKeys, ok \in BOOLEAN :
       secret' = [secret EXCEPT ![s] = [rv |-> @.rv + 1, keys |-> ks, valid |-> ok]]
  /\ UNCHANGED <<cache, caller, gen>>

\* InvalidateSecret(namespace, name)
InvalidateSecret(s) ==
  /\ gen[s] < MaxGen
  /\ cache' = [k \in {k \in DOMAIN cache : k.secret # s} |-> cache[k]]
  /\ gen' = [gen EXCEPT ![s] = @ + 1]
  /\ UNCHANGED <<secret, caller>>

\* InvalidateCache
InvalidateCache ==
  /\ \A s \in Secrets : gen[s] < MaxGen
  /\ cache' = <<>>
  /\ gen' = [s \in Secrets |-> gen[s] + 1]
  /\ UNCHANGED <<secret, caller>>

----------------------------------------------------------------------------
Init ==
  /\ secret \in [Secrets -> [rv : {0, 1}, keys : SUBSET DataKeys, valid : BOOLEAN]]
  /\ cache = <<>>
  /\ caller = [c \in Callers |-> [pc |-> "idle", ck |-> NoClient, rv |-> 0,
                                  cl |-> NoClient, got |-> NoClient, hit |-> FALSE]]
  /\ gen = [s \in Secrets |-> 0]

Next ==
  \/ \E c \in Callers : Lookup(c) \/ BuildFails(c) \/ Build(c) \/ Store(c)
  \/ \E s \in Secrets : UpdateSecret(s) \/ InvalidateSecret(s)
  \/ InvalidateCache

Spec == Init /\ [][Next]_vars

----------------------------------------------------------------------------
TypeOK ==
  /\ \A s \in Secrets : secret[s].rv \in 0..MaxRV /\ secret[s].keys \subseteq DataKeys
  /\ \A k \in DOMAIN cache : cache[k] \in Client
  /\ \A c \in Callers : /\ caller[c].pc \in {"idle", "miss", "built"}
                        /\ caller[c].got \in Client \cup {NoClient}
  /\ gen \in [Secrets -> 0..MaxGen]

\* Spec 4.9: a resourceVersion change invalidates the entry: whatever
\* rewrites of the Secret interleave with concurrent builds and stores, a
\* cache hit returns a client built from the version of the Secret that
\* the same call read.
ServesReadVersion ==
  \A c \in Callers :
    caller[c].hit => caller[c].got.rv = caller[c].rv
=============================================================================
