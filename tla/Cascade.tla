------------------------------- MODULE Cascade -------------------------------
(* The cascade router in one process (src/cascade-router/classify.ts,            *)
(* cascade-router.ts, reference-store.ts) as routeTask uses it: one router,       *)
(* made by the first request and never reloaded; concurrent requests, each of     *)
(* which falls back to the classifier of src/classifier when anything throws.     *)
(* Operators change rules, configuration and embeddings under it.                 *)
EXTENDS CascadeLayers

CONSTANTS Req, Prompt,
          Config,       \* the configurations an operator may write: threshold, topK,
                        \* default, escalate, dims
          SeedDims,     \* what seed-embeddings asks for, whatever the configuration says
          MaxChanges, MaxMishaps,
          Nobody

ASSUME CascadeAssumption ==
  /\ IsFiniteSet(Req) /\ Nobody \notin Req /\ MaxChanges \in Nat /\ MaxMishaps \in Nat
  /\ \A c \in Config : c.threshold \in 0..100 /\ c.topK \in Nat /\ c.default \in Tier

VARIABLES enabled, dims, conf,  \* the tables: rules, embeddings (0: pending), configuration
          keys,      \* the API keys of this process
          cache,     \* cachedConfig
          promise,   \* instancePromise: the request whose call made it
          init,      \* initCascadeRouter, by the request that started it
          req,       \* classifyCascade, by request
          log,       \* the rows of routing_log
          failed,    \* history: requests that met a failure of their own
          changes, mishaps

tables == <<enabled, dims, conf>>
vars == <<tables, keys, cache, promise, init, req, log, failed, changes, mishaps>>

NoCache == [value |-> CHOOSE c \in Config : TRUE, fresh |-> FALSE]
\* The configuration the provider was made for, and what load() read.
NoInit  == [at |-> "none", some |-> FALSE, maker |-> CHOOSE c \in Config : TRUE,
            rules |-> {}, known |-> {}, conf |-> CHOOSE c \in Config : TRUE, left |-> {}]
NoAnswer == [tier |-> 0, layer |-> "none", trust |-> "none", caps |-> {}, trace |-> <<>>]
NoReq == [at |-> "new", prompt |-> CHOOSE p \in Prompt : TRUE, of |-> Nobody, second |-> "skipped",
          answer |-> NoAnswer, by |-> "none"]

Mishap == mishaps < MaxMishaps /\ mishaps' = mishaps + 1
InitAt(r, s) == init' = [init EXCEPT ![r] = [NoInit EXCEPT !.at = s]]
Loaded(q) == init[req[q].of]
Becomes(q, local) == req' = [req EXCEPT ![q] = local]
Waiters(r) == {q \in Req : req[q].at = "wait" /\ req[q].of = r}

\* routeTask catches whatever classifyCascade throws.
Done(q, answer, by) == [NoReq EXCEPT !.at = "done", !.answer = answer, !.by = by]
ByLegacy(q) == Done(q, Legacy(req[q].prompt), "legacy")
Throws(q) == Becomes(q, ByLegacy(q)) /\ failed' = failed \cup {q}
Resolved(q, answer) == Becomes(q, [NoReq EXCEPT !.at = "log", !.answer = answer])

------------------------------------------------------------------------------
(* getInstance and initCascadeRouter.                                             *)
\* Mutant: the promise is stored when the router is there, as it once was.
StartInitUnshared(q) ==
  /\ InitAt(q, "rules") /\ UNCHANGED promise
  /\ req' = [req EXCEPT ![q].at = "wait", ![q].of = q]
StartInit(q) ==
  /\ InitAt(q, "rules") /\ promise' = q
  /\ req' = [req EXCEPT ![q].at = "wait", ![q].of = q]

\* A request arrives; its prompt may be any.
Arrive(q) ==
  /\ req[q].at = "new"
  /\ \E p \in Prompt : Becomes(q, [req[q] EXCEPT !.at = "get", !.prompt = p])
  /\ UNCHANGED <<tables, keys, cache, promise, init, log, failed, changes, mishaps>>
GetInstance(q) ==
  /\ req[q].at = "get"
  /\ \/ promise = Nobody /\ StartInit(q)
     \/ /\ promise # Nobody /\ Becomes(q, [req[q] EXCEPT !.at = "wait", !.of = promise])
        /\ UNCHANGED <<promise, init>>
  /\ UNCHANGED <<tables, keys, cache, log, failed, changes, mishaps>>

\* The promise is rejected: the next caller starts afresh, who waits will throw.
\* Mutant: the rejected promise is kept.
RejectKept(r) == InitAt(r, "rejected") /\ UNCHANGED promise
Reject(r) == InitAt(r, "rejected") /\ promise' = Nobody
InitFails(r) ==
  Reject(r) /\ failed' = failed \cup Waiters(r) /\ UNCHANGED <<cache, req, log, changes>>
AwaitRejected(q) ==
  /\ req[q].at = "wait" /\ Loaded(q).at = "rejected" /\ Becomes(q, ByLegacy(q))
  /\ UNCHANGED <<tables, keys, cache, promise, init, log, failed, changes, mishaps>>

InitFrame == UNCHANGED <<tables, keys>>
InitGoes  == UNCHANGED <<promise, req, failed, log, changes, mishaps>>
QueryFails(r) == Mishap /\ InitFails(r)

InitRules(r) ==
  /\ init[r].at = "rules"
  /\ \/ init' = [init EXCEPT ![r].at = "embeds", ![r].some = enabled # {}] /\ InitGoes /\ UNCHANGED cache
     \/ QueryFails(r)
  /\ InitFrame
Embedded == {u \in DOMAIN Utterance : dims[u] # 0}
InitEmbeds(r) ==
  /\ init[r].at = "embeds"
  /\ \/ (init[r].some \/ Embedded # {}) /\ init' = [init EXCEPT ![r].at = "config"] /\ InitGoes /\ UNCHANGED cache
     \/ ~init[r].some /\ Embedded = {} /\ InitFails(r) /\ UNCHANGED mishaps
     \/ QueryFails(r)
  /\ InitFrame

\* loadConfig: the cached value as long as it is fresh, else what the table says now (the
\* callers of one SELECT share its answer).
ConfigNow == IF cache.fresh THEN cache.value ELSE conf
LoadConfig == cache' = [value |-> ConfigNow, fresh |-> TRUE]
\* The providers are made: the embedding model and dimensions are those of this read.
InitConfig(r) ==
  /\ init[r].at = "config"
  /\ \/ LoadConfig /\ init' = [init EXCEPT ![r].at = "load", ![r].maker = ConfigNow,
                                 ![r].left = {"rules", "utterances", "config"}, ![r].some = FALSE] /\ InitGoes
     \/ ~cache.fresh /\ QueryFails(r)
  /\ InitFrame

\* CascadeRouter.create: three reads side by side, then the tiers.
Load(r) ==
  /\ init[r].at = "load" /\ init[r].left # {}
  /\ \/ /\ InitGoes
        /\ \E x \in init[r].left :
          /\ init' = [init EXCEPT ![r].left = @ \ {x},
                        ![r].rules = IF x = "rules" THEN enabled ELSE @,
                        ![r].known = IF x = "utterances" THEN {<<u, dims[u]>> : u \in Embedded} ELSE @,
                        ![r].conf = IF x = "config" THEN ConfigNow ELSE @]
          /\ IF x = "config" THEN LoadConfig ELSE UNCHANGED cache
     \/ QueryFails(r)
  /\ InitFrame
LoadTiers(r) ==
  /\ init[r].at = "load" /\ init[r].left = {}
  /\ \/ init' = [init EXCEPT ![r].at = "ready"] /\ InitGoes /\ UNCHANGED cache
     \/ QueryFails(r)
  /\ InitFrame
InitStep(r) == InitRules(r) \/ InitEmbeds(r) \/ InitConfig(r) \/ Load(r) \/ LoadTiers(r)

------------------------------------------------------------------------------
(* CascadeRouter.classify, from await to await.                                   *)
ClassifyFrame == UNCHANGED <<tables, keys, cache, promise, init, changes>>
KnownUtterances(i) == {k[1] : k \in i.known}

\* The rejection of an unsafe pattern is logged on the side, under an id of its own.
\* Mutant: under the id of the request.
RejectionRowsOwn(q) ==
  {[req |-> q, rule |-> x, tier |-> Rule[x].tier, layer |-> "deterministic", trace |-> <<>>]
     : x \in Unsafe(Loaded(q).rules)}
RejectionRows(q) ==
  {[req |-> Nobody, rule |-> x, tier |-> Rule[x].tier, layer |-> "deterministic", trace |-> <<>>]
     : x \in Unsafe(Loaded(q).rules)}

\* The override of the caller, the rules, or on to the layers that wait for a service.
Classify(q) ==
  /\ req[q].at = "wait" /\ Loaded(q).at = "ready"
  /\ LET p == req[q].prompt i == Loaded(q) IN
     \/ p.tier # 0 /\ Resolved(q, Override(p)) /\ UNCHANGED log
     \/ /\ p.tier = 0 /\ \E rows \in SUBSET RejectionRows(q) : log' = log \cup rows
        /\ \/ \E a \in Deterministic(i.rules, p) : Resolved(q, a)
           \/ /\ Matching(i.rules, p) = {}
              /\ Becomes(q, [req[q] EXCEPT !.at =
                   IF i.known # {} /\ "openai" \in keys THEN "embed" ELSE "escalate"])
  /\ UNCHANGED <<failed, mishaps>> /\ ClassifyFrame

\* embed() and the vote.  A vector of another length than an utterance's throws.
Embed(q) ==
  /\ req[q].at = "embed"
  /\ LET p == req[q].prompt i == Loaded(q) known == KnownUtterances(i) IN
     \/ /\ \A k \in i.known : k[2] = i.maker.dims
        /\ \E S \in Ranked(known, p, i.conf.topK) :
             \/ \E t \in Accepted(S, p, i.conf.threshold) : Resolved(q, Semantic(t, p))
             \/ /\ Accepted(S, p, i.conf.threshold) = {}
                /\ Becomes(q, [req[q] EXCEPT !.at = "escalate", !.second = "missed"])
        /\ UNCHANGED <<failed, mishaps>>
     \/ (\E k \in i.known : k[2] # i.maker.dims) /\ Throws(q) /\ UNCHANGED mishaps
     \/ Mishap /\ Throws(q)
  /\ UNCHANGED log /\ ClassifyFrame

\* tryEscalation: the provider answers or gives its own conservative answer (it catches
\* every error); without it the default tier.  There are tiers: a rule or an
\* utterance refers to one.
Escalate(q) ==
  /\ req[q].at = "escalate"
  /\ LET p == req[q].prompt i == Loaded(q) s == req[q].second IN
     IF i.conf.escalate /\ "anthropic" \in keys
     THEN \/ \E t \in Tier : Resolved(q, Escalated(t, "llm", {"llm"}, s, p))
          \/ Resolved(q, Escalated(3, "half", {}, s, p))
     ELSE Resolved(q, FellBack(i.conf.default, s, p))
  /\ UNCHANGED <<log, failed, mishaps>> /\ ClassifyFrame

\* logDecision, last and best effort: written, not written, or written with its answer lost.
LogDecision(q) ==
  /\ req[q].at = "log" /\ Becomes(q, Done(q, req[q].answer, "cascade"))
  /\ LET a == req[q].answer
         row == [req |-> q, rule |-> Nobody, tier |-> a.tier, layer |-> a.layer, trace |-> a.trace] IN
     \/ log' = log \cup {row} /\ UNCHANGED mishaps
     \/ UNCHANGED log /\ Mishap
  /\ UNCHANGED failed /\ ClassifyFrame
ClassifyStep(q) == GetInstance(q) \/ AwaitRejected(q) \/ Classify(q) \/ Embed(q) \/ Escalate(q) \/ LogDecision(q)

\* findTraceByTaskId.
Traces(q) == {x.trace : x \in {y \in log : y.req = q}}

------------------------------------------------------------------------------
(* The operators, the clock and the process.                                      *)
Change ==
  /\ changes < MaxChanges /\ changes' = changes + 1
  /\ UNCHANGED <<keys, cache, promise, init, req, log, failed, mishaps>>
SwitchRule(x) ==
  Change /\ enabled' = (IF x \in enabled THEN enabled \ {x} ELSE enabled \cup {x}) /\ UNCHANGED <<dims, conf>>
Configure(c) == Change /\ c # conf /\ conf' = c /\ UNCHANGED <<enabled, dims>>
\* The script embeds the pending utterances.
SeedEmbeddings ==
  /\ Change /\ \E u \in DOMAIN Utterance : dims[u] = 0
  /\ dims' = [u \in DOMAIN Utterance |-> IF dims[u] = 0 THEN SeedDims ELSE dims[u]]
  /\ UNCHANGED <<enabled, conf>>
Expire ==
  /\ cache.fresh /\ cache' = [cache EXCEPT !.fresh = FALSE]
  /\ UNCHANGED <<tables, keys, promise, init, req, log, failed, changes, mishaps>>
\* The process ends and starts again, with other keys perhaps: what it did not answer is lost.
Restart ==
  /\ Mishap /\ keys' \in SUBSET {"openai", "anthropic"}
  /\ cache' = NoCache /\ promise' = Nobody /\ init' = [r \in Req |-> NoInit]
  /\ req' = [q \in Req |-> IF req[q].at \in {"new", "done"} THEN req[q] ELSE [NoReq EXCEPT !.at = "lost"]]
  /\ UNCHANGED <<tables, log, failed, changes>>

Init ==
  /\ enabled \in {{}, DOMAIN Rule} /\ conf \in Config
  /\ \E d \in {0, SeedDims} : dims = [u \in DOMAIN Utterance |-> d]
  /\ keys \in SUBSET {"openai", "anthropic"}
  /\ cache = NoCache /\ promise = Nobody
  /\ init = [r \in Req |-> NoInit] /\ req = [q \in Req |-> NoReq]
  /\ log = {} /\ failed = {} /\ changes = 0 /\ mishaps = 0

Next ==
  \/ \E q \in Req : Arrive(q) \/ ClassifyStep(q) \/ InitStep(q)
  \/ \E x \in DOMAIN Rule : SwitchRule(x)
  \/ \E c \in Config : Configure(c)
  \/ SeedEmbeddings \/ Expire \/ Restart

Spec == Init /\ [][Next]_vars

------------------------------------------------------------------------------
Answered == {q \in Req : req[q].at = "done"}

\* The variables have their types.
TypeOK ==
  /\ enabled \subseteq DOMAIN Rule /\ dims \in [DOMAIN Utterance -> Nat] /\ conf \in Config
  /\ promise \in Req \cup {Nobody} /\ failed \subseteq Req
  /\ \A q \in Req : req[q].at \in {"new", "get", "wait", "embed", "escalate", "log", "done", "lost"}
  /\ \A r \in Req : init[r].at \in {"none", "rules", "embeds", "config", "load", "ready", "rejected"}

\* However many requests meet an empty process, one router is made: the requests answered
\* from a router all used the same one, and while it is made no other is.
OneRouter ==
  \A p, r \in Req : init[p].at \notin {"none", "rejected"} /\ init[r].at \notin {"none", "rejected"} => p = r

\* The stand-in answers only for a request that itself met a failure: of the router it
\* waited for, of its embedding, of vectors of two lengths, or of unseeded tables.  A failed
\* start is not remembered.
LegacyIsExcused == \A q \in Answered : req[q].by = "legacy" => q \in failed

\* What routing_log holds for a task is the classification the task got, trace included, and
\* nothing for a task the stand-in classified (a row may be missing, never wrong).
LogAgrees ==
  \A q \in Answered :
    /\ Traces(q) \subseteq {req[q].answer.trace}
    /\ \A x \in log : x.req = q => x.tier = req[q].answer.tier /\ x.layer = req[q].answer.layer
    /\ req[q].by = "legacy" => Traces(q) = {}

\* Each answer comes with the attempts of all four layers, in order, and the one that
\* resolved it is the only match.
TraceIsComplete == \A q \in Answered : WellTraced(req[q].answer)
==============================================================================
