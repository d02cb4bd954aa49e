---------------------------- MODULE CascadeProofs ----------------------------
(* What the cascade promises to routeTask, for any number of requests, rules,     *)
(* utterances, changes and mishaps.                                               *)
EXTENDS Cascade, TLAPS

Busy == {"rules", "embeds", "config", "load", "ready"}
Fields == {"at", "prompt", "of", "second", "answer", "by"}

Shape ==
  /\ DOMAIN init = Req /\ DOMAIN req = Req
  /\ \A q \in Req : "at" \in DOMAIN init[q] /\ Fields \subseteq DOMAIN req[q]

\* A start that has not failed is the one the promise stands for.
RouterInv ==
  /\ promise # Nobody => promise \in Req /\ init[promise].at \in Busy
  /\ \A r \in Req : /\ init[r].at \in Busy \cup {"none", "rejected"}
                    /\ init[r].at \in Busy => promise = r

\* Who waits, waits for a start that exists, and has been told if it failed.
WaitInv ==
  \A q \in Req :
    /\ req[q].at \in {"new", "get"} => init[q].at = "none"
    /\ req[q].at = "wait" => /\ req[q].of \in Req /\ init[req[q].of].at # "none"
                             /\ init[req[q].of].at = "rejected" => q \in failed
    /\ req[q].at = "done" /\ req[q].by = "legacy" => q \in failed

\* A row that names a request agrees with the answer the request got.
LogInv ==
  \A q \in Req : \A x \in log :
    x.req = q => /\ req[q].at = "done" /\ req[q].by = "cascade"
                 /\ x.tier = req[q].answer.tier /\ x.layer = req[q].answer.layer
                 /\ x.trace = req[q].answer.trace

TraceInv ==
  \A q \in Req : /\ req[q].second \in {"skipped", "missed"}
                 /\ req[q].at \in {"log", "done"} => WellTraced(req[q].answer)

Inv == Shape /\ RouterInv /\ WaitInv /\ LogInv /\ TraceInv

LEMMA NobodyIsNoRequest == Nobody \notin Req
  BY CascadeAssumption

------------------------------------------------------------------------------
(* Every way to answer traces the four layers.                                    *)
LEMMA FourLayers ==
  ASSUME NEW a, NEW i \in 1..4, a.layer = Layers[i], NEW s1, NEW s2, NEW s3, NEW s4,
         a.trace = <<Attempt(1, s1), Attempt(2, s2), Attempt(3, s3), Attempt(4, s4)>>,
         \/ i = 1 /\ s1 = "matched" /\ s2 = "skipped" /\ s3 = "skipped" /\ s4 = "skipped"
         \/ i = 2 /\ s1 = "missed" /\ s2 = "matched" /\ s3 = "skipped" /\ s4 = "skipped"
         \/ i = 3 /\ s1 = "missed" /\ s2 \in {"skipped", "missed"} /\ s3 = "matched" /\ s4 = "skipped"
         \/ i = 4 /\ s1 = "missed" /\ s2 \in {"skipped", "missed"} /\ s3 = "skipped" /\ s4 = "matched"
  PROVE  WellTraced(a)
  <1>1. /\ Len(a.trace) = 4
        /\ a.trace[1] = [layer |-> Layers[1], status |-> s1]
        /\ a.trace[2] = [layer |-> Layers[2], status |-> s2]
        /\ a.trace[3] = [layer |-> Layers[3], status |-> s3]
        /\ a.trace[4] = [layer |-> Layers[4], status |-> s4]
    BY DEF Attempt
  <1>2. /\ Layers[1] # Layers[2] /\ Layers[1] # Layers[3] /\ Layers[1] # Layers[4]
        /\ Layers[2] # Layers[3] /\ Layers[2] # Layers[4] /\ Layers[3] # Layers[4]
    BY DEF Layers
  <1>3. \A j \in 1..4 : j = 1 \/ j = 2 \/ j = 3 \/ j = 4
    BY SMT
  <1>4. \A j \in 1..4 : a.trace[j].layer = Layers[j]  BY <1>1, <1>3
  <1>5. \A j \in 1..4 : a.trace[j].status = "matched" <=> j = i  BY <1>1, <1>3
  <1>6. \A j \in 1..4 : a.layer = Layers[j] <=> j = i  BY <1>2, <1>3
  <1>7. \A j \in 1..4 : i < j => a.trace[j].status = "skipped"  BY <1>1, <1>3
  <1> HIDE DEF Layers
  <1> QED  BY <1>1, <1>4, <1>5, <1>6, <1>7 DEF WellTraced

LEMMA AnswersAreTraced ==
  ASSUME NEW p, NEW on, NEW tier, NEW trust, NEW extra, NEW second \in {"skipped", "missed"}
  PROVE  /\ WellTraced(Legacy(p)) /\ WellTraced(Override(p))
         /\ \A a \in Deterministic(on, p) : WellTraced(a)
         /\ WellTraced(Semantic(tier, p))
         /\ WellTraced(Escalated(tier, trust, extra, second, p))
         /\ WellTraced(FellBack(tier, second, p))
  <1> DEFINE First(caps, t) == Answer(t, "deterministic", "full", caps,
                 <<Attempt(1, "matched"), Skipped(2), Skipped(3), Skipped(4)>>)
  <1>1. ASSUME NEW caps, NEW t PROVE WellTraced(First(caps, t))
    <2>1. First(caps, t).layer = Layers[1]  BY DEF Answer, Layers
    <2>2. First(caps, t).trace = <<Attempt(1, "matched"), Attempt(2, "skipped"),
                                   Attempt(3, "skipped"), Attempt(4, "skipped")>>
      BY DEF Answer, Skipped
    <2> HIDE DEF First
    <2>3. 1 \in 1..4  OBVIOUS
    <2> QED  BY <2>1, <2>2, <2>3, FourLayers
  <1>2. WellTraced(Legacy(p)) /\ WellTraced(Override(p))
    BY <1>1 DEF Legacy, Override
  <1>3. ASSUME NEW a \in Deterministic(on, p) PROVE WellTraced(a)
    BY <1>1 DEF Deterministic
  <1>4. WellTraced(Semantic(tier, p))
    <2> DEFINE a == Semantic(tier, p)
    <2>1. a.layer = Layers[2]  BY DEF Semantic, Answer, Layers
    <2>2. a.trace = <<Attempt(1, "missed"), Attempt(2, "matched"), Attempt(3, "skipped"), Attempt(4, "skipped")>>
      BY DEF Semantic, Answer, Skipped
    <2>3. 2 \in 1..4  OBVIOUS
    <2> HIDE DEF a
    <2>4. WellTraced(a)  BY <2>1, <2>2, <2>3, FourLayers
    <2> QED  BY <2>4 DEF a
  <1>5. WellTraced(Escalated(tier, trust, extra, second, p))
    <2> DEFINE a == Escalated(tier, trust, extra, second, p)
    <2>1. a.layer = Layers[3]  BY DEF Escalated, Answer, Layers
    <2>2. a.trace = <<Attempt(1, "missed"), Attempt(2, second), Attempt(3, "matched"), Attempt(4, "skipped")>>
      BY DEF Escalated, Answer, Skipped
    <2>3. 3 \in 1..4  OBVIOUS
    <2> HIDE DEF a
    <2>4. WellTraced(a)  BY <2>1, <2>2, <2>3, FourLayers
    <2> QED  BY <2>4 DEF a
  <1>6. WellTraced(FellBack(tier, second, p))
    <2> DEFINE a == FellBack(tier, second, p)
    <2>1. a.layer = Layers[4]  BY DEF FellBack, Answer, Layers
    <2>2. a.trace = <<Attempt(1, "missed"), Attempt(2, second), Attempt(3, "skipped"), Attempt(4, "matched")>>
      BY DEF FellBack, Answer, Skipped
    <2>3. 4 \in 1..4  OBVIOUS
    <2> HIDE DEF a
    <2>4. WellTraced(a)  BY <2>1, <2>2, <2>3, FourLayers
    <2> QED  BY <2>4 DEF a
  <1> QED  BY <1>2, <1>3, <1>4, <1>5, <1>6

------------------------------------------------------------------------------
(* The steps of a start.                                                          *)
LEMMA StartsEmpty == Init => Inv
  <1> SUFFICES ASSUME Init PROVE Inv  OBVIOUS
  <1>1. Shape  BY DEF Init, Shape, NoInit, NoReq, Fields
  <1>2. RouterInv  BY DEF Init, RouterInv, NoInit, Busy
  <1>3. WaitInv  BY DEF Init, WaitInv, NoInit, NoReq
  <1>4. LogInv  BY DEF Init, LogInv
  <1>5. TraceInv  BY DEF Init, TraceInv, NoReq
  <1> QED  BY <1>1, <1>2, <1>3, <1>4, <1>5 DEF Inv

\* A start that goes on is still the one the promise stands for.
LEMMA StartGoesOn ==
  ASSUME Inv, NEW r \in Req, init[r].at \in Busy,
         DOMAIN init' = Req, "at" \in DOMAIN init'[r], init'[r].at \in Busy,
         \A x \in Req : x # r => init'[x] = init[x], UNCHANGED <<promise, req, failed, log>>
  PROVE  Inv'
  <1> USE DEF Inv
  <1>1. Shape'  BY DEF Shape
  <1>2. RouterInv'  BY DEF RouterInv
  <1>3. WaitInv'  BY DEF WaitInv, Busy
  <1>4. LogInv'  BY DEF LogInv
  <1>5. TraceInv'  BY DEF TraceInv
  <1> QED  BY <1>1, <1>2, <1>3, <1>4, <1>5

\* A start that fails is told to whoever waits for it, and the promise is free again.
LEMMA StartFails ==
  ASSUME Inv, NEW r \in Req, init[r].at \in Busy, InitFails(r)
  PROVE  Inv'
  <1> USE DEF Inv
  <1>0. /\ init' = [init EXCEPT ![r] = [NoInit EXCEPT !.at = "rejected"]] /\ promise' = Nobody
        /\ failed' = failed \cup Waiters(r) /\ UNCHANGED <<req, log>>
    BY DEF InitFails, Reject, InitAt
  <1>1. /\ DOMAIN init' = Req /\ init'[r].at = "rejected" /\ "at" \in DOMAIN init'[r]
        /\ \A x \in Req : x # r => init'[x] = init[x]
    BY <1>0 DEF Shape, NoInit
  <1>2. Shape'  BY <1>0, <1>1 DEF Shape
  <1>3. \A x \in Req : x # r => init[x].at \notin Busy  BY DEF RouterInv
  <1>4. RouterInv'  BY <1>0, <1>1, <1>3 DEF RouterInv, Busy
  <1>5. ASSUME NEW q \in Req, req[q].at = "wait", req[q].of = r PROVE q \in failed'
    BY <1>0, <1>5 DEF Waiters
  <1>6. WaitInv'  BY <1>0, <1>1, <1>5 DEF WaitInv, Busy
  <1>7. LogInv'  BY <1>0 DEF LogInv
  <1>8. TraceInv'  BY <1>0 DEF TraceInv
  <1> QED  BY <1>2, <1>4, <1>6, <1>7, <1>8

LEMMA StartStepKeeps ==
  ASSUME Inv, NEW r \in Req, InitStep(r)
  PROVE  Inv'
  <1>0. "at" \in DOMAIN init[r]  BY DEF Inv, Shape
  <1>1. CASE InitRules(r)
    <2>1. init[r].at \in Busy  BY <1>1 DEF InitRules, Busy
    <2>2. CASE QueryFails(r)  BY <2>1, <2>2, StartFails DEF QueryFails
    <2>3. CASE ~QueryFails(r)
      <3>1. /\ init' = [init EXCEPT ![r].at = "embeds", ![r].some = enabled # {}]
            /\ UNCHANGED <<promise, req, failed, log>>
        BY <1>1, <2>3 DEF InitRules, InitGoes
      <3>2. /\ DOMAIN init' = Req /\ "at" \in DOMAIN init'[r] /\ init'[r].at \in Busy
            /\ \A z \in Req : z # r => init'[z] = init[z]
        BY <1>0, <3>1 DEF Inv, Shape, Busy
      <3> QED  BY <2>1, <3>1, <3>2, StartGoesOn
    <2> QED  BY <2>2, <2>3
  <1>2. CASE InitEmbeds(r)
    <2>1. init[r].at \in Busy  BY <1>2 DEF InitEmbeds, Busy
    <2>2. CASE QueryFails(r) \/ InitFails(r)  BY <2>1, <2>2, StartFails DEF QueryFails
    <2>3. CASE ~(QueryFails(r) \/ InitFails(r))
      <3>1. /\ init' = [init EXCEPT ![r].at = "config"]
            /\ UNCHANGED <<promise, req, failed, log>>
        BY <1>2, <2>3 DEF InitEmbeds, InitGoes
      <3>2. /\ DOMAIN init' = Req /\ "at" \in DOMAIN init'[r] /\ init'[r].at \in Busy
            /\ \A z \in Req : z # r => init'[z] = init[z]
        BY <1>0, <3>1 DEF Inv, Shape, Busy
      <3> QED  BY <2>1, <3>1, <3>2, StartGoesOn
    <2> QED  BY <2>2, <2>3
  <1>3. CASE InitConfig(r)
    <2>1. init[r].at \in Busy  BY <1>3 DEF InitConfig, Busy
    <2>2. CASE QueryFails(r)  BY <2>1, <2>2, StartFails DEF QueryFails
    <2>3. CASE ~QueryFails(r)
      <3>1. /\ init' = [init EXCEPT ![r].at = "load", ![r].maker = ConfigNow,
                         ![r].left = {"rules", "utterances", "config"}, ![r].some = FALSE]
            /\ UNCHANGED <<promise, req, failed, log>>
        BY <1>3, <2>3 DEF InitConfig, InitGoes
      <3>2. /\ DOMAIN init' = Req /\ "at" \in DOMAIN init'[r] /\ init'[r].at \in Busy
            /\ \A z \in Req : z # r => init'[z] = init[z]
        BY <1>0, <3>1 DEF Inv, Shape, Busy
      <3> QED  BY <2>1, <3>1, <3>2, StartGoesOn
    <2> QED  BY <2>2, <2>3
  <1>4. CASE Load(r)
    <2>1. init[r].at = "load" /\ init[r].at \in Busy  BY <1>4 DEF Load, Busy
    <2>2. CASE QueryFails(r)  BY <2>1, <2>2, StartFails DEF QueryFails
    <2>3. CASE ~QueryFails(r)
      <3>1. PICK x \in init[r].left :
              init' = [init EXCEPT ![r].left = @ \ {x},
                        ![r].rules = IF x = "rules" THEN enabled ELSE @,
                        ![r].known = IF x = "utterances" THEN {<<u, dims[u]>> : u \in Embedded} ELSE @,
                        ![r].conf = IF x = "config" THEN ConfigNow ELSE @]
        BY <1>4, <2>3 DEF Load
      <3>2. UNCHANGED <<promise, req, failed, log>>  BY <1>4, <2>3 DEF Load, InitGoes
      <3>3. /\ DOMAIN init' = Req /\ "at" \in DOMAIN init'[r] /\ init'[r].at = "load"
            /\ \A z \in Req : z # r => init'[z] = init[z]
        BY <1>0, <2>1, <3>1 DEF Inv, Shape
      <3> QED  BY <2>1, <3>2, <3>3, StartGoesOn
    <2> QED  BY <2>2, <2>3
  <1>5. CASE LoadTiers(r)
    <2>1. init[r].at \in Busy  BY <1>5 DEF LoadTiers, Busy
    <2>2. CASE QueryFails(r)  BY <2>1, <2>2, StartFails DEF QueryFails
    <2>3. CASE ~QueryFails(r)
      <3>1. /\ init' = [init EXCEPT ![r].at = "ready"]
            /\ UNCHANGED <<promise, req, failed, log>>
        BY <1>5, <2>3 DEF LoadTiers, InitGoes
      <3>2. /\ DOMAIN init' = Req /\ "at" \in DOMAIN init'[r] /\ init'[r].at \in Busy
            /\ \A z \in Req : z # r => init'[z] = init[z]
        BY <1>0, <3>1 DEF Inv, Shape, Busy
      <3> QED  BY <2>1, <3>1, <3>2, StartGoesOn
    <2> QED  BY <2>2, <2>3
  <1> QED  BY <1>1, <1>2, <1>3, <1>4, <1>5 DEF InitStep

------------------------------------------------------------------------------
(* The steps of a request.                                                        *)
\* A request that is not answered yet moves on: no row names it, so none disagrees.
LEMMA RequestMoves ==
  ASSUME Inv, NEW q \in Req, req[q].at # "done", NEW e, req' = [req EXCEPT ![q] = e],
         Fields \subseteq DOMAIN e, e.second \in {"skipped", "missed"},
         UNCHANGED <<promise, init>>, failed \subseteq failed',
         \A x \in log' : x \in log \/ x.req \notin Req,
         \/ req[q].at = "new" /\ e.at = "get"
         \/ e.at = "wait" /\ e.of = promise /\ promise # Nobody
         \/ e.at \in {"embed", "escalate"}
         \/ e.at = "log" /\ WellTraced(e.answer)
         \/ e.at = "done" /\ q \in failed' /\ WellTraced(e.answer)
  PROVE  Inv'
  <1> USE DEF Inv
  <1>0. /\ DOMAIN req' = Req /\ req'[q] = e
        /\ \A x \in Req : x # q => req'[x] = req[x]
    BY DEF Shape
  <1>1. Shape'  BY <1>0 DEF Shape
  <1>2. RouterInv'  BY DEF RouterInv
  <1>3. WaitInv'
    <2>1. ASSUME NEW z \in Req, z # q
          PROVE /\ req'[z].at \in {"new", "get"} => init'[z].at = "none"
                /\ req'[z].at = "wait" => /\ req'[z].of \in Req /\ init'[req'[z].of].at # "none"
                                          /\ init'[req'[z].of].at = "rejected" => z \in failed'
                /\ req'[z].at = "done" /\ req'[z].by = "legacy" => z \in failed'
      BY <1>0, <2>1 DEF WaitInv
    <2>2. /\ req'[q].at \in {"new", "get"} => init'[q].at = "none"
          /\ req'[q].at = "wait" => /\ req'[q].of \in Req /\ init'[req'[q].of].at # "none"
                                    /\ init'[req'[q].of].at = "rejected" => q \in failed'
          /\ req'[q].at = "done" /\ req'[q].by = "legacy" => q \in failed'
      BY <1>0 DEF WaitInv, RouterInv, Busy
    <2> QED  BY <2>1, <2>2 DEF WaitInv
  <1>4. LogInv'  BY <1>0 DEF LogInv
  <1>5. TraceInv'  BY <1>0 DEF TraceInv
  <1> QED  BY <1>1, <1>2, <1>3, <1>4, <1>5

LEMMA ArriveKeeps ==
  ASSUME Inv, NEW q \in Req, Arrive(q)
  PROVE  Inv'
  <1>1. PICK p \in Prompt : req' = [req EXCEPT ![q] = [req[q] EXCEPT !.at = "get", !.prompt = p]]
    BY DEF Arrive, Becomes
  <1> DEFINE e == [req[q] EXCEPT !.at = "get", !.prompt = p]
  <1>2. Fields \subseteq DOMAIN e /\ e.at = "get" /\ e.second = req[q].second
    BY DEF Inv, Shape, Fields
  <1>3. req[q].second \in {"skipped", "missed"}  BY DEF Inv, TraceInv
  <1>4. req[q].at = "new" /\ UNCHANGED <<promise, init, log, failed>>  BY DEF Arrive
  <1>5. req' = [req EXCEPT ![q] = e]  BY <1>1
  <1> HIDE DEF e
  <1> QED  BY <1>2, <1>3, <1>4, <1>5, RequestMoves

LEMMA GetInstanceKeeps ==
  ASSUME Inv, NEW q \in Req, GetInstance(q)
  PROVE  Inv'
  <1>0. req[q].at = "get" /\ UNCHANGED <<log, failed>>  BY DEF GetInstance
  <1>1. CASE promise # Nobody
    <2> DEFINE e == [req[q] EXCEPT !.at = "wait", !.of = promise]
    <2>1. req' = [req EXCEPT ![q] = e] /\ UNCHANGED <<promise, init>>
      BY <1>1 DEF GetInstance, Becomes
    <2>2. Fields \subseteq DOMAIN e /\ e.at = "wait" /\ e.of = promise /\ e.second = req[q].second
      BY DEF Inv, Shape, Fields
    <2>3. req[q].second \in {"skipped", "missed"}  BY DEF Inv, TraceInv
    <2> HIDE DEF e
    <2> QED  BY <1>0, <1>1, <2>1, <2>2, <2>3, RequestMoves
  <1>2. CASE promise = Nobody
    <2> USE DEF Inv
    <2>1. /\ init' = [init EXCEPT ![q] = [NoInit EXCEPT !.at = "rules"]] /\ promise' = q
          /\ req' = [req EXCEPT ![q].at = "wait", ![q].of = q]
      BY <1>2 DEF GetInstance, StartInit, InitAt
    <2>2. /\ DOMAIN init' = Req /\ init'[q].at = "rules" /\ "at" \in DOMAIN init'[q]
          /\ \A x \in Req : x # q => init'[x] = init[x]
      BY <2>1 DEF Shape, NoInit
    <2>3. /\ DOMAIN req' = Req /\ req'[q].at = "wait" /\ req'[q].of = q
          /\ Fields \subseteq DOMAIN req'[q] /\ req'[q].second = req[q].second
          /\ \A x \in Req : x # q => req'[x] = req[x]
      BY <2>1 DEF Shape, Fields
    <2>4. Shape'  BY <2>2, <2>3 DEF Shape
    <2>5. \A x \in Req : init[x].at \notin Busy  BY <1>2, NobodyIsNoRequest DEF RouterInv
    <2>6. RouterInv'  BY <2>1, <2>2, <2>5 DEF RouterInv, Busy
    <2>7. WaitInv'
      <3>1. ASSUME NEW z \in Req, z # q
            PROVE /\ req'[z].at \in {"new", "get"} => init'[z].at = "none"
                  /\ req'[z].at = "wait" => /\ req'[z].of \in Req /\ init'[req'[z].of].at # "none"
                                            /\ init'[req'[z].of].at = "rejected" => z \in failed'
                  /\ req'[z].at = "done" /\ req'[z].by = "legacy" => z \in failed'
        BY <1>0, <2>2, <2>3, <3>1 DEF WaitInv
      <3> QED  BY <2>2, <2>3, <3>1 DEF WaitInv
    <2>8. LogInv'  BY <1>0, <2>3 DEF LogInv
    <2>9. TraceInv'  BY <1>0, <2>3 DEF TraceInv
    <2> QED  BY <2>4, <2>6, <2>7, <2>8, <2>9
  <1> QED  BY <1>1, <1>2

LEMMA RejectedKeeps ==
  ASSUME Inv, NEW q \in Req, AwaitRejected(q)
  PROVE  Inv'
  <1> DEFINE e == ByLegacy(q)
  <1>1. /\ req[q].at = "wait" /\ init[req[q].of].at = "rejected" /\ req' = [req EXCEPT ![q] = e]
        /\ UNCHANGED <<promise, init, log, failed>>
    BY DEF AwaitRejected, Becomes, Loaded
  <1>2. q \in failed  BY <1>1 DEF Inv, WaitInv
  <1>3. /\ Fields \subseteq DOMAIN e /\ e.at = "done" /\ e.second = "skipped"
        /\ e.answer = Legacy(req[q].prompt)
    BY DEF ByLegacy, Done, NoReq, Fields
  <1>4. WellTraced(e.answer)
    <2> HIDE DEF e
    <2> QED  BY <1>3, AnswersAreTraced
  <1> HIDE DEF e
  <1> QED  BY <1>1, <1>2, <1>3, <1>4, RequestMoves

\* An answer on its way to the log, and one that falls to the stand-in.
LEMMA ResolvedKeeps ==
  ASSUME Inv, NEW q \in Req, req[q].at # "done", NEW a, WellTraced(a), Resolved(q, a),
         UNCHANGED <<promise, init, failed>>, \A x \in log' : x \in log \/ x.req \notin Req
  PROVE  Inv'
  <1> DEFINE e == [NoReq EXCEPT !.at = "log", !.answer = a]
  <1>1. req' = [req EXCEPT ![q] = e]  BY DEF Resolved, Becomes
  <1>2. Fields \subseteq DOMAIN e /\ e.at = "log" /\ e.second = "skipped" /\ e.answer = a
    BY DEF NoReq, Fields
  <1> HIDE DEF e
  <1> QED  BY <1>1, <1>2, RequestMoves

LEMMA ThrowsKeeps ==
  ASSUME Inv, NEW q \in Req, req[q].at # "done", Throws(q), UNCHANGED <<promise, init, log>>
  PROVE  Inv'
  <1> DEFINE e == ByLegacy(q)
  <1>1. req' = [req EXCEPT ![q] = e] /\ failed' = failed \cup {q}  BY DEF Throws, Becomes
  <1>2. /\ Fields \subseteq DOMAIN e /\ e.at = "done" /\ e.second = "skipped"
        /\ e.answer = Legacy(req[q].prompt)
    BY DEF ByLegacy, Done, NoReq, Fields
  <1> HIDE DEF e
  <1>3. WellTraced(e.answer)  BY <1>2, AnswersAreTraced
  <1> QED  BY <1>1, <1>2, <1>3, RequestMoves

\* On to the layer that waits for a service, with or without a vote that did not suffice.
LEMMA NextLayerKeeps ==
  ASSUME Inv, NEW q \in Req, req[q].at # "done", NEW s \in {"embed", "escalate"},
         \/ Becomes(q, [req[q] EXCEPT !.at = s])
         \/ Becomes(q, [req[q] EXCEPT !.at = s, !.second = "missed"]),
         UNCHANGED <<promise, init, failed>>, \A x \in log' : x \in log \/ x.req \notin Req
  PROVE  Inv'
  <1>0. Fields \subseteq DOMAIN req[q] /\ req[q].second \in {"skipped", "missed"}
    BY DEF Inv, Shape, TraceInv
  <1>1. ASSUME NEW e, Becomes(q, e), Fields \subseteq DOMAIN e, e.at = s, e.second \in {"skipped", "missed"}
        PROVE  Inv'
    BY <1>1, RequestMoves DEF Becomes
  <1>2. CASE Becomes(q, [req[q] EXCEPT !.at = s])
    <2> DEFINE e == [req[q] EXCEPT !.at = s]
    <2>1. Fields \subseteq DOMAIN e /\ e.at = s /\ e.second = req[q].second  BY <1>0 DEF Fields
    <2>2. Becomes(q, e)  BY <1>2
    <2> HIDE DEF e
    <2> QED  BY <1>0, <1>1, <2>1, <2>2
  <1>3. CASE Becomes(q, [req[q] EXCEPT !.at = s, !.second = "missed"])
    <2> DEFINE e == [req[q] EXCEPT !.at = s, !.second = "missed"]
    <2>1. Fields \subseteq DOMAIN e /\ e.at = s /\ e.second = "missed"  BY <1>0 DEF Fields
    <2>2. Becomes(q, e)  BY <1>3
    <2> HIDE DEF e
    <2> QED  BY <1>1, <2>1, <2>2
  <1> QED  BY <1>2, <1>3

LEMMA ClassifyKeeps ==
  ASSUME Inv, NEW q \in Req, Classify(q)
  PROVE  Inv'
  <1> DEFINE p == req[q].prompt
             i == Loaded(q)
  <1>0. req[q].at # "done" /\ UNCHANGED <<promise, init, failed>>  BY DEF Classify, ClassifyFrame
  <1>1. CASE p.tier # 0
    <2>1. Resolved(q, Override(p)) /\ UNCHANGED log  BY <1>1 DEF Classify
    <2>2. WellTraced(Override(p))  BY AnswersAreTraced
    <2> QED  BY <1>0, <2>1, <2>2, ResolvedKeeps
  <1>2. CASE p.tier = 0
    <2>1. PICK rows \in SUBSET RejectionRows(q) : log' = log \cup rows  BY <1>2 DEF Classify
    <2>2. \A x \in log' : x \in log \/ x.req \notin Req
      BY <2>1, NobodyIsNoRequest DEF RejectionRows
    <2>3. \/ \E a \in Deterministic(i.rules, p) : Resolved(q, a)
          \/ \E s \in {"embed", "escalate"} : Becomes(q, [req[q] EXCEPT !.at = s])
      BY <1>2 DEF Classify
    <2>4. CASE \E a \in Deterministic(i.rules, p) : Resolved(q, a)
      <3>0. PICK a \in Deterministic(i.rules, p) : Resolved(q, a)  BY <2>4
      <3>1. WellTraced(a)  BY AnswersAreTraced
      <3> QED  BY <1>0, <2>2, <3>0, <3>1, ResolvedKeeps
    <2>5. CASE \E s \in {"embed", "escalate"} : Becomes(q, [req[q] EXCEPT !.at = s])
      BY <1>0, <2>2, <2>5, NextLayerKeeps
    <2> QED  BY <2>3, <2>4, <2>5
  <1> QED  BY <1>1, <1>2

LEMMA EmbedKeeps ==
  ASSUME Inv, NEW q \in Req, Embed(q)
  PROVE  Inv'
  <1> DEFINE p == req[q].prompt
  <1>0. req[q].at # "done" /\ UNCHANGED <<promise, init, log>>  BY DEF Embed, ClassifyFrame
  <1>1. \/ (\E t : Resolved(q, Semantic(t, p))) /\ UNCHANGED failed
        \/ Becomes(q, [req[q] EXCEPT !.at = "escalate", !.second = "missed"]) /\ UNCHANGED failed
        \/ Throws(q)
    BY DEF Embed
  <1>2. CASE (\E t : Resolved(q, Semantic(t, p))) /\ UNCHANGED failed
    <2>1. PICK t : Resolved(q, Semantic(t, p))  BY <1>2
    <2>2. WellTraced(Semantic(t, p))  BY AnswersAreTraced
    <2> QED  BY <1>0, <1>2, <2>1, <2>2, ResolvedKeeps
  <1>3. CASE Becomes(q, [req[q] EXCEPT !.at = "escalate", !.second = "missed"]) /\ UNCHANGED failed
    BY <1>0, <1>3, NextLayerKeeps
  <1>4. CASE Throws(q)  BY <1>0, <1>4, ThrowsKeeps
  <1> QED  BY <1>1, <1>2, <1>3, <1>4

LEMMA EscalateKeeps ==
  ASSUME Inv, NEW q \in Req, Escalate(q)
  PROVE  Inv'
  <1> DEFINE p == req[q].prompt
             s == req[q].second
  <1>0. req[q].at # "done" /\ UNCHANGED <<promise, init, log, failed>>
    BY DEF Escalate, ClassifyFrame
  <1>1. s \in {"skipped", "missed"}  BY DEF Inv, TraceInv
  <1>2. \E t, trust, extra : \/ Resolved(q, Escalated(t, trust, extra, s, p))
                             \/ Resolved(q, FellBack(t, s, p))
    BY DEF Escalate
  <1>3. PICK t, trust, extra : \/ Resolved(q, Escalated(t, trust, extra, s, p))
                               \/ Resolved(q, FellBack(t, s, p))
    BY <1>2
  <1>4. WellTraced(Escalated(t, trust, extra, s, p)) /\ WellTraced(FellBack(t, s, p))
    BY <1>1, AnswersAreTraced
  <1> HIDE DEF p, s
  <1> QED  BY <1>0, <1>3, <1>4, ResolvedKeeps

\* The one step that writes a row of a request answers it with the same.
LEMMA LogDecisionKeeps ==
  ASSUME Inv, NEW q \in Req, LogDecision(q)
  PROVE  Inv'
  <1> USE DEF Inv
  <1> DEFINE a == req[q].answer
             e == Done(q, a, "cascade")
             row == [req |-> q, rule |-> Nobody, tier |-> a.tier, layer |-> a.layer, trace |-> a.trace]
  <1>0. /\ req[q].at = "log" /\ req' = [req EXCEPT ![q] = e]
        /\ log' = log \cup {row} \/ log' = log
        /\ UNCHANGED <<promise, init, failed>>
    BY DEF LogDecision, ClassifyFrame, Becomes
  <1>1. /\ Fields \subseteq DOMAIN e /\ e.at = "done" /\ e.by = "cascade" /\ e.second = "skipped"
        /\ e.answer = a
    BY DEF Done, NoReq, Fields
  <1>2. row.req = q /\ row.tier = a.tier /\ row.layer = a.layer /\ row.trace = a.trace  OBVIOUS
  <1>3. WellTraced(a)  BY <1>0 DEF TraceInv
  <1> HIDE DEF a, e, row
  <1>4. /\ DOMAIN req' = Req /\ req'[q] = e
        /\ \A x \in Req : x # q => req'[x] = req[x]
    BY <1>0 DEF Shape
  <1>5. Shape'  BY <1>0, <1>1, <1>4 DEF Shape
  <1>6. RouterInv'  BY <1>0 DEF RouterInv
  <1>7. WaitInv'  BY <1>0, <1>1, <1>4 DEF WaitInv
  <1>8. ASSUME NEW z \in Req, NEW x \in log', x.req = z
        PROVE  /\ req'[z].at = "done" /\ req'[z].by = "cascade"
               /\ x.tier = req'[z].answer.tier /\ x.layer = req'[z].answer.layer
               /\ x.trace = req'[z].answer.trace
    <2>1. CASE x = row  BY <1>1, <1>2, <1>4, <1>8, <2>1
    <2>2. CASE x \in log
      <3>1. z # q  BY <1>0, <1>8, <2>2 DEF LogInv
      <3> QED  BY <1>4, <1>8, <2>2, <3>1 DEF LogInv
    <2> QED  BY <1>0, <2>1, <2>2
  <1>9. LogInv'  BY <1>8 DEF LogInv
  <1>10. TraceInv'  BY <1>1, <1>3, <1>4 DEF TraceInv
  <1> QED  BY <1>5, <1>6, <1>7, <1>9, <1>10

\* A new process knows of no router; what was answered stays answered.
LEMMA RestartKeeps ==
  ASSUME Inv, Restart
  PROVE  Inv'
  <1> USE DEF Inv
  <1>0. promise' = Nobody /\ UNCHANGED <<log, failed>>  BY DEF Restart
  <1>1. /\ DOMAIN init' = Req
        /\ \A r \in Req : init'[r].at = "none" /\ "at" \in DOMAIN init'[r]
    BY DEF Restart, NoInit
  <1>2. DOMAIN req' = Req  BY DEF Restart
  <1>3. \A q \in Req : /\ req[q].at \in {"new", "done"} => req'[q] = req[q]
                       /\ req[q].at \notin {"new", "done"} =>
                             /\ req'[q].at = "lost" /\ req'[q].second = "skipped"
                             /\ Fields \subseteq DOMAIN req'[q]
    BY DEF Restart, NoReq, Fields
  <1>4. Shape'  BY <1>1, <1>2, <1>3 DEF Shape
  <1>5. RouterInv'  BY <1>0, <1>1 DEF RouterInv, Busy
  <1>6. WaitInv'  BY <1>0, <1>1, <1>3 DEF WaitInv
  <1>7. LogInv'  BY <1>0, <1>3 DEF LogInv
  <1>8. TraceInv'  BY <1>3 DEF TraceInv
  <1> QED  BY <1>4, <1>5, <1>6, <1>7, <1>8

------------------------------------------------------------------------------
LEMMA NothingOfIt ==
  ASSUME Inv, UNCHANGED <<promise, init, req, log, failed>>
  PROVE  Inv'
  <1> USE DEF Inv
  <1>1. Shape'  BY DEF Shape
  <1>2. RouterInv'  BY DEF RouterInv
  <1>3. WaitInv'  BY DEF WaitInv
  <1>4. LogInv'  BY DEF LogInv
  <1>5. TraceInv'  BY DEF TraceInv
  <1> QED  BY <1>1, <1>2, <1>3, <1>4, <1>5

LEMMA NextKeeps ==
  ASSUME Inv, [Next]_vars
  PROVE  Inv'
  <1>1. ASSUME NEW q \in Req, Arrive(q) PROVE Inv'  BY <1>1, ArriveKeeps
  <1>2. ASSUME NEW q \in Req, ClassifyStep(q) PROVE Inv'
    BY <1>2, GetInstanceKeeps, RejectedKeeps, ClassifyKeeps, EmbedKeeps, EscalateKeeps, LogDecisionKeeps
       DEF ClassifyStep
  <1>3. ASSUME NEW r \in Req, InitStep(r) PROVE Inv'  BY <1>3, StartStepKeeps
  <1>4. CASE \/ \E x \in DOMAIN Rule : SwitchRule(x)
             \/ \E c \in Config : Configure(c)
             \/ SeedEmbeddings \/ Expire
    BY <1>4, NothingOfIt DEF SwitchRule, Configure, SeedEmbeddings, Change, Expire
  <1>5. CASE Restart  BY <1>5, RestartKeeps
  <1>6. CASE UNCHANGED vars  BY <1>6, NothingOfIt DEF vars
  <1> QED  BY <1>1, <1>2, <1>3, <1>4, <1>5, <1>6 DEF Next

THEOREM InvHolds == Spec => []Inv
  <1>1. Init => Inv  BY StartsEmpty
  <1>2. Inv /\ [Next]_vars => Inv'  BY NextKeeps
  <1> QED  BY <1>1, <1>2, PTL DEF Spec

\* However many requests meet an empty process, at most one router is made and used at a
\* time (initCascadeRouter's shared promise).
THEOREM OneRouterHolds == Spec => []OneRouter
  <1>1. Inv => OneRouter  BY DEF Inv, RouterInv, Busy, OneRouter
  <1> QED  BY <1>1, InvHolds, PTL

\* The stand-in answers only for requests that met a failure of their own (routeTask's catch
\* around classifyCascade).
THEOREM LegacyIsExcusedHolds == Spec => []LegacyIsExcused
  <1>1. Inv => LegacyIsExcused  BY DEF Inv, WaitInv, LegacyIsExcused, Answered
  <1> QED  BY <1>1, InvHolds, PTL

\* The rows of routing_log that name a task say what the task was answered (logDecision).
THEOREM LogAgreesHolds == Spec => []LogAgrees
  <1>1. Inv => LogAgrees  BY DEF Inv, LogInv, LogAgrees, Answered, Traces
  <1> QED  BY <1>1, InvHolds, PTL

\* Each answer carries the attempts of all four layers in order (the traces classify builds
\* and routeTask makes up for the stand-in).
THEOREM TraceIsCompleteHolds == Spec => []TraceIsComplete
  <1>1. Inv => TraceIsComplete  BY DEF Inv, TraceInv, TraceIsComplete, Answered
  <1> QED  BY <1>1, InvHolds, PTL
==============================================================================
