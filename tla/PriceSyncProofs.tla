-------------------------- MODULE PriceSyncProofs --------------------------
(* What PriceSync promises for every calendar, any products, sources and    *)
(* requests: a run accounts for each product it was asked for, no run loses *)
(* an accumulated value its source showed it, the changes stored with the   *)
(* values compound to the return between any two days, and a price that was *)
(* published late is stored, in the window that is fetched.                 *)
EXTENDS PriceSync, Sums

Fields == {"kind", "client", "from", "till", "asked", "todo", "at", "view", "seen", "got",
           "degraded", "ok", "bad", "missed", "status"}

\* The product a run works on.
Doing(x) == IF x.at = Nobody THEN {} ELSE {x.at}

\* A running run has put each product it was asked for in one place.
Accounted(x) ==
    /\ x.asked = UNION {x.todo, Doing(x), x.ok, x.bad, x.missed}
    /\ x.todo \cap UNION {Doing(x), x.ok, x.bad} = {}
    /\ Doing(x) \cap UNION {x.ok, x.bad} = {}
    /\ x.ok \cap x.bad = {}

RunOK(x) ==
    /\ DOMAIN x = Fields /\ x = [f \in Fields |-> x[f]]
    /\ UNION {x.asked, x.todo, x.ok, x.bad, x.missed} \subseteq Products
    /\ x.at \in Products \cup {Nobody} /\ x.degraded \in BOOLEAN
    /\ x.at = Nobody => x.got = "nothing"
    /\ x.got = "units" => x.client = "akshare"
    /\ x.degraded => x.got = "all" /\ x.client = "akshare"
    /\ x.status # "running" => x.at = Nobody /\ x.todo = {}
    /\ x.status = "running" => Accounted(x)

IInv ==
    /\ DOMAIN record = Products /\ exists \subseteq Products
    /\ run = [r \in Runs |-> run[r]]
    /\ \A r \in Runs : RunOK(run[r])

\* A step that rewrites one run keeps the others.
LEMMA OneRun ==
    ASSUME IInv, NEW r \in Runs, NEW x, RunOK(x), run' = [run EXCEPT ![r] = x],
           DOMAIN record' = DOMAIN record, exists' = exists
    PROVE  IInv' /\ run'[r] = x /\ \A q \in Runs \ {r} : run'[q] = run[q]
<1>1. DOMAIN run = Runs
  BY DEF IInv
<1>2. run' = [q \in Runs |-> IF q = r THEN x ELSE run[q]]
  BY <1>1, Zenon
<1>3. run'[r] = x /\ \A q \in Runs \ {r} : run'[q] = run[q]
  BY <1>2
<1>4. run' = [q \in Runs |-> run'[q]]
  BY <1>2
<1>5. \A q \in Runs : RunOK(run'[q])
  BY <1>3 DEF IInv
<1> QED BY <1>3, <1>4, <1>5 DEF IInv, RunOK, Accounted, Doing

\* A run of which nothing is left.
LEMMA IdleOK ==
    ASSUME NEW s, s # "running"
    PROVE  /\ RunOK([Idle EXCEPT !.status = s])
           /\ [Idle EXCEPT !.status = s].status = s
BY DEF RunOK, Fields, Idle

LEMMA IdleFetch == Idle.got = "nothing" /\ ~Idle.degraded /\ Idle.degraded \in BOOLEAN
BY DEF Idle

\* The product at hand is reported, as done or as missed.
LEMMA Reported ==
    ASSUME IInv, NEW r \in Runs, run[r].at # Nobody, DOMAIN record' = DOMAIN record, exists' = exists,
           Succeed(r) \/ Miss(r)
    PROVE  /\ IInv'
           /\ run'[r].status = "running" /\ \A q \in Runs \ {r} : run'[q] = run[q]
           /\ Succeed(r) => run[r].at \in run'[r].ok
<1> DEFINE done == [Closed(r) EXCEPT !.ok = @ \cup {run[r].at}]
           missed == [Closed(r) EXCEPT !.bad = @ \cup {run[r].at}]
<1>1. RunOK(run[r]) /\ run[r].status = "running" /\ Accounted(run[r])
  BY DEF IInv, RunOK
<1>0. Nobody # run[r].at /\ Doing(run[r]) = {run[r].at} /\ run[r].at \in Products
  BY <1>1 DEF Doing, RunOK
<1>2. RunOK(done) /\ done.status = "running"
  <2>1. /\ DOMAIN done = Fields /\ done = [f \in Fields |-> done[f]]
        /\ done.asked = run[r].asked /\ done.ok = run[r].ok \cup {run[r].at}
        /\ done.bad = run[r].bad /\ done.missed = run[r].missed /\ done.at = Nobody
        /\ done.todo = run[r].todo /\ done.status = run[r].status
        /\ done.got = Idle.got /\ done.degraded = Idle.degraded
    BY <1>1 DEF RunOK, Fields, Closed
  <2> HIDE DEF done
  <2>4. done.got = "nothing" /\ ~done.degraded /\ done.degraded \in BOOLEAN
    BY <2>1, IdleFetch
  <2>2. Doing(done) = {}
    BY <2>1 DEF Doing
  <2>3. Accounted(done)
    BY <1>0, <1>1, <2>1, <2>2 DEF Accounted
  <2> QED BY <1>0, <1>1, <2>1, <2>3, <2>4 DEF RunOK
<1>3. RunOK(missed) /\ missed.status = "running"
  <2>1. /\ DOMAIN missed = Fields /\ missed = [f \in Fields |-> missed[f]]
        /\ missed.asked = run[r].asked /\ missed.bad = run[r].bad \cup {run[r].at}
        /\ missed.ok = run[r].ok /\ missed.missed = run[r].missed /\ missed.at = Nobody
        /\ missed.todo = run[r].todo /\ missed.status = run[r].status
        /\ missed.got = Idle.got /\ missed.degraded = Idle.degraded
    BY <1>1 DEF RunOK, Fields, Closed
  <2> HIDE DEF missed
  <2>4. missed.got = "nothing" /\ ~missed.degraded /\ missed.degraded \in BOOLEAN
    BY <2>1, IdleFetch
  <2>2. Doing(missed) = {}
    BY <2>1 DEF Doing
  <2>3. Accounted(missed)
    BY <1>0, <1>1, <2>1, <2>2 DEF Accounted
  <2> QED BY <1>0, <1>1, <2>1, <2>3, <2>4 DEF RunOK
<1>4. ASSUME run' = [run EXCEPT ![r] = done]
      PROVE  /\ IInv' /\ run'[r].status = "running" /\ \A q \in Runs \ {r} : run'[q] = run[q]
             /\ run[r].at \in run'[r].ok
  <2>1. run[r].at \in done.ok
    BY <1>1 DEF RunOK, Fields, Closed
  <2> HIDE DEF done
  <2> QED BY <1>2, <1>4, <2>1, OneRun
<1>5. ASSUME run' = [run EXCEPT ![r] = missed]
      PROVE  IInv' /\ run'[r].status = "running" /\ \A q \in Runs \ {r} : run'[q] = run[q]
  BY <1>3, <1>5, OneRun
<1>6. CASE Succeed(r)
  BY <1>4, <1>6 DEF Succeed
<1>7. CASE ~Succeed(r)
  BY <1>5, <1>7 DEF Miss
<1> QED BY <1>6, <1>7

\* What a step may do to the values of the store.
KeepsAccum ==
    \A p \in Products, d \in Days :
        record[p][d].accum # NoNav /\ record'[p][d].accum = NoNav =>
            \/ p \notin exists'
            \/ \E r \in Runs : /\ run[r].at = p /\ p \in run'[r].ok
                               /\ ~run[r].degraded /\ run[r].seen[d].accum = NoNav

\* ... and to the runs.
TrueReport(r) ==
    run[r].status = "running" /\ run'[r].status # "running" =>
        LET ok == run[r].ok
            bad == run[r].bad
            verdict == run'[r].status
        IN  /\ ok \cap bad = {}
            /\ verdict \in {"success", "partial"} => UNION {ok, bad, run[r].missed} = run[r].asked
            /\ verdict = "success" => bad = {}
            /\ verdict = "failed" /\ run[r].asked \subseteq exists => ok = {}
Good == IInv' /\ KeepsAccum /\ \A r \in Runs : TrueReport(r)

LEMMA OpenKeeps ==
    ASSUME IInv, NEW r \in Runs, NEW p \in Products, Open(r, p)
    PROVE  Good
<1> DEFINE x == [run[r] EXCEPT !.at = p, !.todo = @ \ {p}, !.view = record[p],
                          !.client = client[p],
                          !.from = IF run[r].kind = "incremental"
                                      THEN WindowStart(record[p]) ELSE @]
<1>1. RunOK(run[r]) /\ run[r].status = "running" /\ Accounted(run[r])
  BY DEF IInv, RunOK, Open
<1>2. RunOK(x) /\ x.status = "running"
  <2>1. /\ DOMAIN x = Fields /\ x = [f \in Fields |-> x[f]]
        /\ x.asked = run[r].asked /\ x.ok = run[r].ok /\ x.bad = run[r].bad
        /\ x.missed = run[r].missed /\ x.at = p /\ x.todo = run[r].todo \ {p}
        /\ x.status = run[r].status /\ x.got = run[r].got /\ x.degraded = run[r].degraded
    BY <1>1 DEF RunOK, Fields
  <2>a. x.got = "nothing" /\ ~x.degraded /\ x.degraded \in BOOLEAN
    BY <1>1, <2>1 DEF RunOK, Open
  <2> HIDE DEF x
  <2>2. Doing(x) = {p} /\ Doing(run[r]) = {} /\ p \in run[r].todo
    BY <2>1, NobodyAssumption DEF Doing, Open
  <2>3. Accounted(x)
    BY <1>1, <2>1, <2>2 DEF Accounted
  <2> QED BY <1>1, <2>1, <2>a, <2>3, NobodyAssumption DEF RunOK
<1>3. run' = [run EXCEPT ![r] = x] /\ record' = record /\ exists' = exists
  BY DEF Open, IInv
<1> HIDE DEF x
<1>4. IInv' /\ run'[r] = x /\ \A q \in Runs \ {r} : run'[q] = run[q]
  BY <1>2, <1>3, OneRun
<1> QED BY <1>2, <1>3, <1>4 DEF Good, KeepsAccum, TrueReport

LEMMA OpenGoneKeeps ==
    ASSUME IInv, NEW r \in Runs, NEW p \in Products, OpenGone(r, p)
    PROVE  Good
<1> DEFINE x == [Idle EXCEPT !.status = "failed"]
<1>1. RunOK(run[r]) /\ run[r].status = "running" /\ Accounted(run[r])
  BY DEF IInv, RunOK, OpenGone
<1>2. RunOK(x) /\ x.status = "failed"
  BY IdleOK
<1>3. run' = [run EXCEPT ![r] = x] /\ record' = record /\ exists' = exists
  BY DEF OpenGone
<1> HIDE DEF x
<1>4. IInv' /\ run'[r] = x /\ \A q \in Runs \ {r} : run'[q] = run[q]
  BY <1>2, <1>3, OneRun
<1>5. ~ run[r].asked \subseteq exists /\ run[r].ok \cap run[r].bad = {}
  BY <1>1 DEF Accounted, OpenGone
<1> QED BY <1>2, <1>3, <1>4, <1>5 DEF Good, KeepsAccum, TrueReport

\* A product's step ends with a report; the store changes in Store only.
LEMMA ReportKeeps ==
    ASSUME IInv, NEW r \in Runs, run[r].at # Nobody, Succeed(r) \/ Miss(r), record' = record,
           exists' = exists
    PROVE  Good
BY Reported DEF Good, KeepsAccum, TrueReport

\* Asking the source changes what the run was shown, and nothing else.
Asked(r) ==
    /\ UNCHANGED <<today, source, exists, client, record, changes, jobs, faults, loose>>
    /\ IInv' /\ \A q \in Runs \ {r} : run'[q] = run[q]
    /\ \A f \in Fields \ {"seen", "got", "degraded"} : run'[r][f] = run[r][f]
    /\ run'[r].got \in {"units", "all"}
    /\ \/ run'[r].seen \in {source[run[r].at], UnitsOf(source[run[r].at])}
       \/ /\ run[r].got = "units"
          /\ run'[r].seen \in {run[r].seen, Completed(run[r].seen, source[run[r].at])}

LEMMA FetchMoves ==
    ASSUME IInv, NEW r \in Runs, Fetch(r) \/ FetchAccum(r)
    PROVE  Asked(r)
<1>1. UNCHANGED <<today, source, exists, client, record, changes, jobs, faults, loose>>
  BY DEF Fetch, FetchAccum
<1>2. RunOK(run[r]) /\ run[r].at # Nobody
  BY DEF IInv, Fetch, FetchAccum
<1>3. ASSUME NEW s, NEW g \in {"units", "all"}, NEW b \in BOOLEAN,
             g = "units" => run[r].client = "akshare",
             b => g = "all" /\ run[r].client = "akshare",
             run' = [run EXCEPT ![r] = [run[r] EXCEPT !.seen = s, !.got = g, !.degraded = b]]
      PROVE  /\ IInv' /\ \A q \in Runs \ {r} : run'[q] = run[q]
             /\ \A f \in Fields \ {"seen", "got", "degraded"} : run'[r][f] = run[r][f]
             /\ run'[r].seen = s /\ run'[r].got = g
  <2> DEFINE x == [run[r] EXCEPT !.seen = s, !.got = g, !.degraded = b]
  <2>1. /\ DOMAIN x = Fields /\ x = [f \in Fields |-> x[f]]
        /\ x.seen = s /\ x.got = g /\ x.degraded = b
        /\ \A f \in Fields \ {"seen", "got", "degraded"} : x[f] = run[r][f]
    BY <1>2 DEF RunOK, Fields
  <2>2. run' = [run EXCEPT ![r] = x]
    BY <1>3
  <2> HIDE DEF x
  <2>3. /\ x.asked = run[r].asked /\ x.todo = run[r].todo /\ x.ok = run[r].ok
        /\ x.bad = run[r].bad /\ x.missed = run[r].missed /\ x.at = run[r].at
        /\ x.status = run[r].status /\ x.client = run[r].client
    BY <2>1 DEF Fields
  <2>4. RunOK(x)
    BY <1>2, <1>3, <2>1, <2>3 DEF RunOK, Accounted, Doing
  <2> QED BY <1>1, <2>1, <2>2, <2>4, OneRun
<1>4. CASE Fetch(r)
  <2> DEFINE s == IF run[r].client = "akshare" THEN UnitsOf(source[run[r].at])
                  ELSE source[run[r].at]
             g == IF run[r].client = "akshare" THEN "units" ELSE "all"
  <2>1. run[r].degraded = FALSE
    BY <1>2, <1>4 DEF RunOK, Fetch
  <2>2. [run[r] EXCEPT !.seen = s, !.got = g] = [run[r] EXCEPT !.seen = s, !.got = g, !.degraded = FALSE]
    BY <1>2, <2>1 DEF RunOK, Fields
  <2>3. run' = [run EXCEPT ![r] = [run[r] EXCEPT !.seen = s, !.got = g]]
    BY <1>4 DEF Fetch, IInv
  <2>4. run' = [run EXCEPT ![r] = [run[r] EXCEPT !.seen = s, !.got = g, !.degraded = FALSE]]
    BY <2>2, <2>3
  <2>5. g \in {"units", "all"} /\ (g = "units" => run[r].client = "akshare")
    OBVIOUS
  <2>6. s \in {source[run[r].at], UnitsOf(source[run[r].at])}
    OBVIOUS
  <2> HIDE DEF s, g
  <2> QED BY <1>1, <1>3, <2>4, <2>5, <2>6 DEF Asked
<1>5. CASE FetchAccum(r)
  <2>1. PICK degraded \in BOOLEAN :
            run' = [run EXCEPT ![r].seen = IF degraded THEN @ ELSE Completed(@, source[run[r].at]),
                               ![r].got = "all", ![r].degraded = degraded]
    BY <1>5 DEF FetchAccum
  <2> DEFINE s == IF degraded THEN run[r].seen ELSE Completed(run[r].seen, source[run[r].at])
  <2>2. run' = [run EXCEPT ![r] = [run[r] EXCEPT !.seen = s, !.got = "all", !.degraded = degraded]]
    BY <2>1 DEF IInv
  <2>3. run[r].client = "akshare" /\ run[r].got = "units"
    BY <1>2, <1>5 DEF RunOK, FetchAccum
  <2>4. s \in {run[r].seen, Completed(run[r].seen, source[run[r].at])}
    OBVIOUS
  <2> HIDE DEF s
  <2> QED BY <1>1, <1>3, <2>2, <2>3, <2>4 DEF Asked
<1> QED BY <1>4, <1>5

LEMMA FetchKeeps ==
    ASSUME IInv, NEW r \in Runs, Fetch(r) \/ FetchAccum(r)
    PROVE  Good
<1>1. Asked(r)
  BY FetchMoves
<1>2. run'[r].status = run[r].status
  BY <1>1 DEF Asked, Fields
<1> QED BY <1>1, <1>2 DEF Asked, Good, KeepsAccum, TrueReport

\* A value is erased only by a batch that has the row and not the value.
LEMMA StoreKeeps ==
    ASSUME IInv, NEW r \in Runs, run[r].at # Nobody, Store(r)
    PROVE  Good
<1> DEFINE p == run[r].at
<1>1. p \in Products
  BY DEF IInv, RunOK
<1> DEFINE degraded == run[r].degraded
           batch == Fetched(run[r].seen, run[r].client, run[r].from, run[r].till)
<1>2. record' = [record EXCEPT ![p] = Upsert(p, run[r].client, run[r].view, batch, degraded)]
  BY DEF Store
<1>3. degraded \in BOOLEAN
  BY DEF IInv, RunOK
<1>4. DOMAIN record' = DOMAIN record /\ exists' = exists /\ \A q \in Products \ {p} : record'[q] = record[q]
  BY <1>2 DEF IInv, Store
<1>5. record'[p] = Upsert(p, run[r].client, run[r].view, batch, degraded)
  BY <1>1, <1>2 DEF IInv
<1>6. ASSUME NEW d \in Days, record[p][d].accum # NoNav, record'[p][d].accum = NoNav
      PROVE  ~run[r].degraded /\ run[r].seen[d].accum = NoNav
  <2>1. d \in DOMAIN batch /\ ~degraded /\ batch[d].accum = NoNav
    BY <1>3, <1>5, <1>6 DEF Upsert
  <2>2. batch[d].accum = run[r].seen[d].accum
    BY <2>1 DEF Fetched
  <2> QED BY <2>1, <2>2
<1>7. Succeed(r)
  BY DEF Store
<1>8. p \in run'[r].ok
  BY <1>4, <1>7, Reported
<1>9. KeepsAccum
  <2> HIDE DEF batch
  <2> QED BY <1>4, <1>6, <1>8 DEF KeepsAccum
<1> QED BY <1>4, <1>7, <1>9, Reported DEF Good, TrueReport

LEMMA EndKeeps ==
    ASSUME IInv, NEW r \in Runs, End(r)
    PROVE  Good
<1> DEFINE x == [Idle EXCEPT !.status = Verdict(r)]
<1>1. RunOK(run[r]) /\ run[r].status = "running" /\ Accounted(run[r])
  BY DEF IInv, RunOK, End
<1>2. RunOK(x) /\ x.status = Verdict(r)
  BY IdleOK DEF Verdict
<1>3. run' = [run EXCEPT ![r] = x] /\ record' = record /\ exists' = exists
  BY DEF End
<1> HIDE DEF x
<1>4. IInv' /\ run'[r] = x /\ \A q \in Runs \ {r} : run'[q] = run[q]
  BY <1>2, <1>3, OneRun
<1>5. /\ run[r].ok \cap run[r].bad = {}
      /\ UNION {run[r].ok, run[r].bad, run[r].missed} = run[r].asked
  BY <1>1 DEF Accounted, Doing, End
<1>6. /\ Verdict(r) = "success" => run[r].bad = {}
      /\ Verdict(r) = "failed" => run[r].ok = {}
  BY DEF Verdict
<1> QED BY <1>2, <1>3, <1>4, <1>5, <1>6 DEF Good, KeepsAccum, TrueReport

LEMMA BeginNavKeeps ==
    ASSUME IInv, BeginNav
    PROVE  Good
<1> DEFINE x == [Idle EXCEPT
                  !.kind = "incremental", !.till = today - 1, !.status = "running",
                  !.asked = Syncable, !.todo = Syncable]
<1>1. /\ DOMAIN x = Fields /\ x = [f \in Fields |-> x[f]]
      /\ x.asked = Syncable /\ x.todo = Syncable /\ x.ok = {} /\ x.bad = {}
      /\ x.missed = {} /\ x.at = Nobody /\ x.status = "running"
      /\ x.got = "nothing" /\ x.degraded = FALSE
  BY DEF Fields, Idle
<1>2. "nav" \in Runs /\ run["nav"].status # "running"
  BY DEF Runs, BeginNav
<1>3. run' = [run EXCEPT !["nav"] = x] /\ record' = record /\ exists' = exists
  BY DEF BeginNav
<1> HIDE DEF x
<1>4. Syncable \subseteq Products
  BY DEF IInv, Syncable
<1>5. Accounted(x)
  BY <1>1 DEF Accounted, Doing
<1>6. RunOK(x)
  BY <1>1, <1>4, <1>5 DEF RunOK
<1>7. IInv' /\ \A q \in Runs \ {"nav"} : run'[q] = run[q]
  BY <1>2, <1>3, <1>6, OneRun
<1> QED BY <1>2, <1>3, <1>7 DEF Good, KeepsAccum, TrueReport

LEMMA BeginJobKeeps ==
    ASSUME IInv, NEW job \in Requests, BeginJob(job)
    PROVE  Good
<1> DEFINE x == [Idle EXCEPT
                  !.kind = job.kind, !.from = job.from,
                  !.till = IF job.kind = "incremental" THEN today - 1 ELSE job.till,
                  !.asked = job.asked, !.todo = job.asked \cap exists,
                  !.missed = job.asked \ exists,
                  !.status = IF job.asked \cap exists = {} THEN "failed" ELSE "running"]
<1>1. /\ DOMAIN x = Fields /\ x = [f \in Fields |-> x[f]]
      /\ x.asked = job.asked /\ x.todo = job.asked \cap exists /\ x.ok = {} /\ x.bad = {}
      /\ x.missed = job.asked \ exists /\ x.at = Nobody
      /\ x.got = "nothing" /\ x.degraded = FALSE
      /\ x.status = IF job.asked \cap exists = {} THEN "failed" ELSE "running"
  <2> DEFINE status == IF job.asked \cap exists = {} THEN "failed" ELSE "running"
             till == IF job.kind = "incremental" THEN today - 1 ELSE job.till
             left == job.asked \cap exists
             gone == job.asked \ exists
  <2>1. x = [Idle EXCEPT !.kind = job.kind, !.from = job.from, !.till = till,
                  !.asked = job.asked, !.todo = left, !.missed = gone, !.status = status]
    OBVIOUS
  <2> HIDE DEF x, status, till, left, gone
  <2>2. /\ DOMAIN x = Fields /\ x = [f \in Fields |-> x[f]]
        /\ x.asked = job.asked /\ x.todo = left /\ x.ok = {} /\ x.bad = {}
        /\ x.missed = gone /\ x.at = Nobody
        /\ x.got = "nothing" /\ x.degraded = FALSE /\ x.status = status
    BY <2>1 DEF Fields, Idle
  <2> QED BY <2>2 DEF status, left, gone
<1>2. "job" \in Runs /\ run["job"].status # "running"
  BY DEF Runs, BeginJob
<1>3. run' = [run EXCEPT !["job"] = x] /\ record' = record /\ exists' = exists
  BY DEF BeginJob
<1> HIDE DEF x
<1>4. job.asked \subseteq Products
  BY RequestAssumption
<1>5. Accounted(x)
  BY <1>1 DEF Accounted, Doing
<1>6. RunOK(x)
  BY <1>1, <1>4, <1>5 DEF RunOK
<1>7. IInv' /\ \A q \in Runs \ {"job"} : run'[q] = run[q]
  BY <1>2, <1>3, <1>6, OneRun
<1> QED BY <1>2, <1>3, <1>7 DEF Good, KeepsAccum, TrueReport

\* A product that disappears takes its values with it and touches no run.
LEMMA VanishKeeps ==
    ASSUME IInv, NEW p \in Products, Vanish(p)
    PROVE  Good
<1>1. run' = run /\ exists' = exists \ {p} /\ p \notin exists'
  BY DEF Vanish
<1>2. DOMAIN record' = DOMAIN record /\ \A q \in Products \ {p} : record'[q] = record[q]
  BY DEF Vanish, IInv
<1>3. IInv'
  BY <1>1, <1>2 DEF IInv, RunOK, Accounted, Doing
<1> QED BY <1>1, <1>2, <1>3 DEF Good, KeepsAccum, TrueReport

\* Steps that touch neither runs nor the store.
LEMMA AsideKeeps ==
    ASSUME IInv, UNCHANGED <<run, record, exists>>
    PROVE  Good
BY DEF Good, IInv, RunOK, Accounted, Doing, KeepsAccum, TrueReport

LEMMA ProcessKeeps ==
    ASSUME IInv, NEW r \in Runs, Process(r)
    PROVE  Good
<1>1. CASE \E p \in Products : Open(r, p) \/ OpenGone(r, p)
  BY <1>1, OpenKeeps, OpenGoneKeeps
<1>2. Nobody \notin exists
  BY NobodyAssumption DEF IInv
<1>3. CASE Skip(r)
  BY <1>2, <1>3, ReportKeeps DEF Skip
<1>4. CASE Store(r)
  BY <1>2, <1>4, StoreKeeps DEF Store
<1>8. CASE Fetch(r) \/ FetchAccum(r)
  BY <1>8, FetchKeeps
<1>5. CASE FetchFails(r)
  BY <1>2, <1>5, ReportKeeps DEF FetchFails
<1>6. CASE WriteFails(r)
  BY <1>6, ReportKeeps DEF WriteFails
<1>7. CASE End(r)
  BY <1>7, EndKeeps
<1> QED BY <1>1, <1>3, <1>4, <1>5, <1>6, <1>7, <1>8 DEF Process

LEMMA InitHolds == Init => IInv
<1> SUFFICES ASSUME Init PROVE IInv
  OBVIOUS
<1>1. RunOK(Idle)
  BY DEF RunOK, Fields, Idle
<1>2. DOMAIN record = Products /\ exists = Products /\ run = [r \in Runs |-> Idle]
  BY DEF Init
<1> QED BY <1>1, <1>2 DEF IInv

LEMMA NextKeeps == IInv /\ [Next]_vars => Good
<1> SUFFICES ASSUME IInv, [Next]_vars PROVE Good
  OBVIOUS
<1>1. CASE \E r \in Runs : Process(r)
  BY <1>1, ProcessKeeps
<1>2. CASE BeginNav
  BY <1>2, BeginNavKeeps
<1>3. CASE NewJob
  BY <1>3, BeginJobKeeps DEF NewJob
<1>4. CASE NewDay
  BY <1>4, AsideKeeps DEF NewDay
<1>5. CASE Upstream
  BY <1>5, AsideKeeps DEF Upstream, Publish
<1>6. CASE \E p \in Products : Vanish(p)
  BY <1>6, VanishKeeps
<1>7. CASE \E p \in Products : \E c \in Clients : SwitchSource(p, c)
  BY <1>7, AsideKeeps DEF SwitchSource
<1>8. CASE UNCHANGED vars
  BY <1>8, AsideKeeps DEF vars
<1> QED BY <1>1, <1>2, <1>3, <1>4, <1>5, <1>6, <1>7, <1>8 DEF Next

-----------------------------------------------------------------------------
(* Types                                                                   *)

\* A nonempty finite set of numbers has a first and a last element.
LEMMA Extremes ==
    ASSUME NEW S, IsFiniteSet(S), \A x \in S : x \in Int, S # {}
    PROVE  /\ Max(S) \in S /\ \A x \in S : x <= Max(S)
           /\ Min(S) \in S /\ \A x \in S : Min(S) <= x
<1> DEFINE P == {T \in SUBSET S : T # {} => /\ \E m \in T : \A x \in T : x <= m
                                            /\ \E m \in T : \A x \in T : m <= x}
<1>1. {} \in P
  OBVIOUS
<1>2. ASSUME NEW T \in SUBSET S, NEW y \in S, y \notin T, T \in P
      PROVE  T \cup {y} \in P
  <2>1. CASE T = {}
    <3>1. T \cup {y} = {y} /\ y <= y
      BY <2>1
    <3> QED
      BY <3>1
  <2>2. CASE T # {}
    <3>1. PICK m \in T : \A x \in T : x <= m
      BY <1>2, <2>2
    <3>2. PICK n \in T : \A x \in T : n <= x
      BY <1>2, <2>2
    <3> DEFINE top == IF m <= y THEN y ELSE m
               low == IF y <= n THEN y ELSE n
    <3>3. top \in T \cup {y} /\ \A x \in T \cup {y} : x <= top
      BY <3>1
    <3>4. low \in T \cup {y} /\ \A x \in T \cup {y} : low <= x
      BY <3>2
    <3> HIDE DEF top, low
    <3> QED
      BY <3>3, <3>4
  <2> QED
    BY <2>1, <2>2
<1>3. S \in P
  <2> HIDE DEF P
  <2> QED BY <1>1, <1>2, SetInduct
<1>4. Max(S) \in S /\ \A x \in S : Max(S) >= x
  <2>1. \E m \in S : \A x \in S : m >= x
    BY <1>3
  <2> QED
    BY <2>1 DEF Max
<1>5. Min(S) \in S /\ \A x \in S : Min(S) <= x
  BY <1>3 DEF Min
<1> QED
  BY <1>4, <1>5

LEMMA DaysFinite ==
    ASSUME NEW S \in SUBSET Days
    PROVE  IsFiniteSet(S) /\ \A x \in S : x \in Int /\ x \in Nat
<1>1. IsFiniteSet(Days) /\ Days \subseteq Nat
  BY DayAssumption, FS_Interval DEF Days
<1>2. IsFiniteSet(S)
  BY <1>1, FS_Subset
<1>3. \A x \in Days : x \in Int /\ x \in Nat
  BY <1>1
<1> QED
  BY <1>2, <1>3

LEMMA DaysExtremes ==
    ASSUME NEW S \in SUBSET Days, S # {}
    PROVE  /\ Max(S) \in S /\ \A x \in S : x <= Max(S)
           /\ Min(S) \in S /\ \A x \in S : Min(S) <= x
BY DaysFinite, Extremes

\* The window of an incremental run starts in the calendar, or on the day after it.
LEMMA WindowInCalendar ==
    ASSUME NEW rows
    PROVE  WindowStart(rows) \in 1..LastDay + 1
<1> DEFINE before == {d \in OpenDays : d < Latest(rows)}
           reached == {d \in before : Cardinality({e \in before : e >= d}) <= Lookback}
<1>0. LastDay \in Nat /\ LastDay > 0 /\ Days = 1..LastDay /\ OpenDays \subseteq Days
  BY DayAssumption DEF Days
<1>1. CASE StoredDays(rows) = {}
  BY <1>0, <1>1 DEF WindowStart
<1>2. CASE StoredDays(rows) # {} /\ before = {}
  <2>1. Latest(rows) \in Days
    <3>1. StoredDays(rows) \in SUBSET Days
      BY DEF StoredDays
    <3> QED
      BY <1>2, <3>1, DaysExtremes DEF Latest
  <2> QED
    BY <1>0, <1>2, <2>1 DEF WindowStart
<1>3. CASE StoredDays(rows) # {} /\ before # {}
  <2>1. before \in SUBSET Days
    BY <1>0
  <2>2. PICK m \in before : \A x \in before : x <= m
    <3> HIDE DEF before
    <3> QED
      BY <1>3, <2>1, DaysExtremes
  <2>3. m \in Nat /\ \A x \in before : x \in Nat
    BY <2>1, DaysFinite
  <2>4. {e \in before : e >= m} = {m}
    <3> HIDE DEF before
    <3>1. \A x \in before : x >= m => x = m
      BY <2>2, <2>3
    <3>2. m >= m
      BY <2>3
    <3> QED
      BY <2>2, <3>1, <3>2
  <2>5. m \in reached
    <3>1. Cardinality({m}) = 1
      BY FS_Singleton
    <3> HIDE DEF before
    <3> QED
      BY <2>4, <3>1, BoundAssumption
  <2>6. reached \in SUBSET Days /\ reached # {}
    BY <2>1, <2>5
  <2>7. Min(reached) \in Days
    <3> HIDE DEF reached
    <3> QED
      BY <2>6, DaysExtremes
  <2>8. WindowStart(rows) = Min(reached)
    BY <1>3 DEF WindowStart
  <2> HIDE DEF reached, before
  <2> QED
    BY <1>0, <2>7, <2>8
<1> QED
  BY <1>1, <1>2, <1>3

\* What is left to say of a run once IInv says the rest.
RunTyped(x) ==
    /\ x.kind \in {"none", "incremental", "history"} /\ x.client \in Clients
    /\ x.from \in 1..LastDay + 1 /\ x.till \in Days
    /\ x.view \in [Days -> Row] /\ x.seen \in [Days -> SourceRow]
    /\ x.got \in {"nothing", "units", "all"}
    /\ x.status \in {"idle", "running", "success", "partial", "failed"}
TablesTyped ==
    /\ today \in Days /\ source \in [Products -> [Days -> SourceRow]]
    /\ client \in [Products -> Clients] /\ record \in [Products -> [Days -> Row]]
    /\ changes \in 0..MaxChanges /\ jobs \in 0..MaxJobs /\ faults \in 0..MaxFaults
    /\ loose \in [Products -> BOOLEAN]
Typed == IInv /\ TablesTyped /\ \A r \in Runs : RunTyped(run[r])

LEMMA TypedIsTypeOK == Typed => TypeOK
BY DEF Typed, IInv, RunOK, TablesTyped, RunTyped, TypeOK

LEMMA NoRows ==
    /\ NoRow \in Row /\ [d \in Days |-> NoRow] \in [Days -> Row]
    /\ NoRow.accum = NoNav /\ NoRow.stored = FALSE
    /\ [d \in Days |-> Unpublished] \in [Days -> SourceRow]
BY DEF Row, NoRow, SourceRow

\* A step that rewrites one run with a run of its type.
LEMMA OneRunTyped ==
    ASSUME Typed, NEW r \in Runs, NEW x, RunTyped(x), run' = [run EXCEPT ![r] = x]
    PROVE  \A q \in Runs : RunTyped(run'[q])
<1>1. run'[r] = x /\ \A q \in Runs \ {r} : run'[q] = run[q]
  <2>1. DOMAIN run = Runs
    BY DEF Typed, IInv
  <2> QED
    BY <2>1
<1> QED
  BY <1>1 DEF Typed

LEMMA IdleTyped ==
    ASSUME NEW s, s \in {"idle", "success", "partial", "failed"}
    PROVE  RunTyped([Idle EXCEPT !.status = s])
<1>1. 1 \in Days /\ 1 \in 1..LastDay + 1
  BY DayAssumption DEF Days
<1> QED
  BY <1>1, NoRows DEF RunTyped, Idle, Clients

LEMMA ReportTyped ==
    ASSUME Typed, NEW r \in Runs, Succeed(r) \/ Miss(r)
    PROVE  \A q \in Runs : RunTyped(run'[q])
<1> DEFINE done == [Closed(r) EXCEPT !.ok = @ \cup {run[r].at}]
           missed == [Closed(r) EXCEPT !.bad = @ \cup {run[r].at}]
<1>1. RunTyped(run[r]) /\ RunOK(run[r])
  BY DEF Typed, IInv
<1>2. /\ Idle.view = [d \in Days |-> NoRow] /\ Idle.seen = [d \in Days |-> Unpublished]
      /\ Idle.got = "nothing"
  BY DEF Idle
<1>3. /\ done.kind = run[r].kind /\ done.client = "none" /\ done.from = run[r].from
      /\ done.till = run[r].till /\ done.view = Idle.view /\ done.status = run[r].status
      /\ done.seen = Idle.seen /\ done.got = Idle.got
  BY <1>1 DEF RunOK, Fields, Closed
<1>4. /\ missed.kind = run[r].kind /\ missed.client = "none" /\ missed.from = run[r].from
      /\ missed.till = run[r].till /\ missed.view = Idle.view /\ missed.status = run[r].status
      /\ missed.seen = Idle.seen /\ missed.got = Idle.got
  BY <1>1 DEF RunOK, Fields, Closed
<1> HIDE DEF done, missed
<1>5. RunTyped(done) /\ RunTyped(missed)
  BY <1>1, <1>2, <1>3, <1>4, NoRows DEF RunTyped, Clients
<1>6. run' = [run EXCEPT ![r] = done] \/ run' = [run EXCEPT ![r] = missed]
  BY DEF Succeed, Miss, done, missed
<1> QED
  BY <1>5, <1>6, OneRunTyped

LEMMA OpenTyped ==
    ASSUME Typed, NEW r \in Runs, NEW p \in Products, Open(r, p)
    PROVE  \A q \in Runs : RunTyped(run'[q])
<1> DEFINE from == IF run[r].kind = "incremental" THEN WindowStart(record[p]) ELSE run[r].from
           x == [run[r] EXCEPT !.at = p, !.todo = @ \ {p}, !.view = record[p],
                               !.client = client[p],
                               !.from = IF run[r].kind = "incremental"
                                        THEN WindowStart(record[p]) ELSE @]
<1>1. RunTyped(run[r]) /\ RunOK(run[r])
  BY DEF Typed, IInv
<1>2. from \in 1..LastDay + 1
  BY <1>1, WindowInCalendar DEF RunTyped
<1>3. /\ x.kind = run[r].kind /\ x.client = client[p] /\ x.from = from
      /\ x.till = run[r].till /\ x.view = record[p] /\ x.status = run[r].status
      /\ x.seen = run[r].seen /\ x.got = run[r].got
  BY <1>1 DEF RunOK, Fields
<1> HIDE DEF from, x
<1>4. client[p] \in Clients /\ record[p] \in [Days -> Row]
  BY DEF Typed, TablesTyped
<1>5. RunTyped(x)
  BY <1>1, <1>2, <1>3, <1>4 DEF RunTyped
<1>6. run' = [run EXCEPT ![r] = x]
  BY DEF Open, x
<1> QED
  BY <1>5, <1>6, OneRunTyped

-----------------------------------------------------------------------------

LEMMA RowAccum ==
    /\ \A row \in Row : row.accum \in Navs \cup {NoNav}
    /\ \A row \in SourceRow : row.accum \in Navs \cup {NoNav}
<1> DEFINE A == Navs \cup {NoNav}
<1>1. NoNav \in A
  OBVIOUS
<1>2. ASSUME NEW row \in Row
      PROVE  row.accum \in A
  <2>1. CASE row = NoRow
    BY <1>1, <2>1 DEF NoRow
  <2>2. CASE row \in [stored : {TRUE}, accum : A, pct : {NoPct} \cup (Navs \X Navs)]
    <3> HIDE DEF A
    <3> QED
      BY <2>2
  <2> QED
    BY <2>1, <2>2 DEF Row
<1>3. ASSUME NEW row \in SourceRow
      PROVE  row.accum \in A
  <2>1. CASE row = Unpublished
    BY <1>1, <2>1 DEF Unpublished
  <2>2. CASE row \in [shown : {TRUE}, priced : BOOLEAN, accum : A]
    <3> HIDE DEF A
    <3> QED
      BY <2>2
  <2> QED
    BY <2>1, <2>2 DEF SourceRow
<1> QED
  BY <1>2, <1>3

\* What a request brings, or the second one adds, is a row of the source that is
\* shown if it was.
LEMMA AnswerTyped ==
    ASSUME NEW units \in [Days -> SourceRow], NEW shows \in [Days -> SourceRow]
    PROVE  /\ UnitsOf(shows) \in [Days -> SourceRow]
           /\ \A d \in Days : UnitsOf(shows)[d].shown = shows[d].shown
           /\ Completed(units, shows) \in [Days -> SourceRow]
           /\ \A d \in Days : Completed(units, shows)[d].shown = units[d].shown
<1> DEFINE A == Navs \cup {NoNav}
<1>1. ASSUME NEW row \in SourceRow, NEW a \in A, ~row.shown => a = NoNav
      PROVE  [row EXCEPT !.accum = a] \in SourceRow /\ [row EXCEPT !.accum = a].shown = row.shown
  <2>1. CASE row = Unpublished
    <3>1. row.shown = FALSE /\ row = [shown |-> FALSE, priced |-> FALSE, accum |-> NoNav]
      BY <2>1 DEF Unpublished
    <3>2. a = NoNav
      BY <1>1, <3>1
    <3> DEFINE none == [shown |-> FALSE, priced |-> FALSE, accum |-> NoNav]
    <3>3. [none EXCEPT !.accum = NoNav] = none
      <4> DEFINE same == [none EXCEPT !.accum = NoNav]
                 F == {"shown", "priced", "accum"}
      <4>1. none = [f \in F |-> none[f]] /\ same = [f \in F |-> same[f]]
        OBVIOUS
      <4>2. same.shown = none.shown /\ same.priced = none.priced /\ same.accum = none.accum
        OBVIOUS
      <4>3. \A f \in F : same[f] = none[f]
        BY <4>2
      <4> HIDE DEF same, none, F
      <4>4. same = none
        BY <4>1, <4>3
      <4> QED
        BY <4>4 DEF same
    <3>4. row = none
      BY <3>1
    <3> HIDE DEF none
    <3>5. [row EXCEPT !.accum = a] = row
      BY <3>2, <3>3, <3>4
    <3> QED
      BY <3>5
  <2>2. CASE row \in [shown : {TRUE}, priced : BOOLEAN, accum : A]
    <3> HIDE DEF A
    <3>1. [row EXCEPT !.accum = a] \in [shown : {TRUE}, priced : BOOLEAN, accum : A]
      BY <1>1, <2>2
    <3>2. [row EXCEPT !.accum = a].shown = row.shown
      BY <2>2
    <3> QED
      BY <3>1, <3>2 DEF SourceRow, A
  <2> QED
    BY <2>1, <2>2 DEF SourceRow
<1>2. ASSUME NEW d \in Days
      PROVE  /\ UnitsOf(shows)[d] \in SourceRow /\ UnitsOf(shows)[d].shown = shows[d].shown
             /\ Completed(units, shows)[d] \in SourceRow
             /\ Completed(units, shows)[d].shown = units[d].shown
  <2>1. shows[d].accum \in A /\ NoNav \in A
    BY RowAccum
  <2> DEFINE a == IF units[d].shown THEN shows[d].accum ELSE NoNav
  <2>2. UnitsOf(shows)[d] = [shows[d] EXCEPT !.accum = NoNav]
    BY DEF UnitsOf
  <2>3. Completed(units, shows)[d] = [units[d] EXCEPT !.accum = a]
    BY DEF Completed
  <2>4. a \in A /\ (~units[d].shown => a = NoNav)
    BY <2>1
  <2> HIDE DEF A, a
  <2> QED
    BY <1>1, <2>1, <2>2, <2>3, <2>4
<1>3. /\ UnitsOf(shows) = [d \in Days |-> UnitsOf(shows)[d]]
      /\ Completed(units, shows) = [d \in Days |-> Completed(units, shows)[d]]
  BY DEF UnitsOf, Completed
<1> QED
  BY <1>2, <1>3

LEMMA FetchTyped ==
    ASSUME Typed, NEW r \in Runs, Fetch(r) \/ FetchAccum(r)
    PROVE  TablesTyped' /\ \A q \in Runs : RunTyped(run'[q])
<1>1. Asked(r) /\ RunTyped(run[r]) /\ run[r].at \in Products
  BY FetchMoves, NobodyAssumption DEF Typed, IInv, RunOK, Fetch, FetchAccum
<1>2. run'[r].seen \in [Days -> SourceRow]
  <2> DEFINE shows == source[run[r].at]
             units == run[r].seen
  <2>1. shows \in [Days -> SourceRow] /\ units \in [Days -> SourceRow]
    BY <1>1 DEF RunTyped, Typed, TablesTyped
  <2>2. run'[r].seen \in {shows, units, UnitsOf(shows), Completed(units, shows)}
    BY <1>1 DEF Asked
  <2> HIDE DEF shows, units
  <2>3. UnitsOf(shows) \in [Days -> SourceRow] /\ Completed(units, shows) \in [Days -> SourceRow]
    BY <2>1, AnswerTyped
  <2> QED
    BY <2>1, <2>2, <2>3
<1>3. RunTyped(run'[r])
  BY <1>1, <1>2 DEF Asked, RunTyped, Fields
<1> QED
  BY <1>1, <1>3 DEF Asked, Typed, TablesTyped

\* What a client returns.
LEMMA BatchTyped ==
    ASSUME NEW seen \in [Days -> SourceRow], NEW c, NEW from \in 1..LastDay + 1, NEW till \in Days
    PROVE  LET batch == Fetched(seen, c, from, till)
           IN  /\ DOMAIN batch \in SUBSET Days
               /\ \A d \in DOMAIN batch : /\ batch[d].priced = seen[d].priced
                                          /\ batch[d].accum \in Navs \cup {NoNav}
<1> DEFINE batch == Fetched(seen, c, from, till)
<1>1. from..till \subseteq Days
  <2>1. LastDay \in Nat /\ Days = 1..LastDay /\ from \in Nat /\ from >= 1 /\ till \in 1..LastDay
    BY DayAssumption DEF Days
  <2> QED
    BY <2>1
<1>2. DOMAIN batch = FetchedDays(seen, c, from, till) /\ FetchedDays(seen, c, from, till) \in SUBSET Days
  BY <1>1 DEF Fetched, FetchedDays
<1>3. ASSUME NEW d \in DOMAIN batch
      PROVE  batch[d].priced = seen[d].priced /\ batch[d].accum \in Navs \cup {NoNav}
  <2>1. d \in Days /\ seen[d] \in SourceRow
    BY <1>2, <1>3
  <2>2. seen[d].accum \in Navs \cup {NoNav}
    BY <2>1, RowAccum
  <2>3. batch[d].priced = seen[d].priced /\ batch[d].accum = seen[d].accum
    BY <1>2, <1>3 DEF Fetched
  <2> QED
    BY <2>2, <2>3
<1> QED
  BY <1>2, <1>3

\* The change of a day divides one usable value by another.
LEMMA ChangeTyped ==
    ASSUME NEW view \in [Days -> Row], NEW batch, DOMAIN batch \in SUBSET Days,
           \A d \in DOMAIN batch : batch[d].accum \in Navs \cup {NoNav}, NEW d \in DOMAIN batch
    PROVE  Change(view, batch, d) \in {NoPct} \cup (Navs \X Navs)
<1> DEFINE usable == {e \in DOMAIN batch : batch[e].accum # NoNav}
           before == {e \in usable : e < d}
           stored == {e \in WithAccum(view) : e < Min(DOMAIN batch)}
<1>1. CASE d \notin usable
  BY <1>1 DEF Change
<1>2. CASE d \in usable /\ before # {}
  <2>1. before \in SUBSET Days
    OBVIOUS
  <2>2. Max(before) \in before
    <3> HIDE DEF before
    <3> QED
      BY <1>2, <2>1, DaysExtremes
  <2> DEFINE m == Max(before)
  <2>3. batch[d].accum \in Navs /\ batch[m].accum \in Navs
    BY <1>2, <2>2
  <2>4. Change(view, batch, d) = <<batch[d].accum, batch[m].accum>>
    BY <1>2 DEF Change
  <2> HIDE DEF m
  <2> QED
    BY <2>3, <2>4
<1>3. CASE d \in usable /\ before = {} /\ stored # {}
  <2>1. stored \in SUBSET Days
    BY DEF WithAccum
  <2>2. Max(stored) \in stored
    <3> HIDE DEF stored
    <3> QED
      BY <1>3, <2>1, DaysExtremes
  <2>3. Max(stored) \in Days /\ view[Max(stored)].accum # NoNav /\ view[Max(stored)] \in Row
    BY <2>2 DEF WithAccum
  <2> DEFINE m == Max(stored)
  <2>4. view[m].accum \in Navs
    <3>1. view[m] \in Row /\ view[m].accum # NoNav
      BY <2>3
    <3> HIDE DEF m
    <3> QED
      BY <3>1, RowAccum
  <2>5. batch[d].accum \in Navs
    BY <1>3
  <2>6. Change(view, batch, d) = <<batch[d].accum, view[m].accum>>
    BY <1>3 DEF Change
  <2> HIDE DEF m
  <2> QED
    BY <2>4, <2>5, <2>6
<1>4. CASE d \in usable /\ before = {} /\ stored = {}
  BY <1>4 DEF Change
<1> QED
  BY <1>1, <1>2, <1>3, <1>4

LEMMA UpsertTyped ==
    ASSUME NEW p \in Products, NEW c, NEW view \in [Days -> Row], NEW batch, NEW degraded \in BOOLEAN,
           record \in [Products -> [Days -> Row]], DOMAIN batch \in SUBSET Days,
           \A d \in DOMAIN batch : batch[d].accum \in Navs \cup {NoNav}
    PROVE  Upsert(p, c, view, batch, degraded) \in [Days -> Row]
<1> DEFINE new == Upsert(p, c, view, batch, degraded)
<1>1. ASSUME NEW d \in Days
      PROVE  new[d] \in Row
  <2>1. record[p][d] \in Row
    OBVIOUS
  <2>2. CASE d \in DOMAIN batch /\ batch[d].priced
    <3> DEFINE a == IF degraded THEN record[p][d].accum ELSE batch[d].accum
               q == IF c = "tushare" THEN Change(view, batch, d) ELSE NoPct
    <3>1. a \in Navs \cup {NoNav}
      <4>1. record[p][d].accum \in Navs \cup {NoNav}
        BY <2>1, RowAccum
      <4> QED
        BY <2>2, <4>1
    <3>2. q \in {NoPct} \cup (Navs \X Navs)
      BY <2>2, ChangeTyped
    <3>3. new[d] = [stored |-> TRUE, accum |-> a, pct |-> q]
      BY <2>2 DEF Upsert
    <3> HIDE DEF a, q, new
    <3> QED
      BY <3>1, <3>2, <3>3 DEF Row
  <2>3. CASE ~(d \in DOMAIN batch /\ batch[d].priced)
    BY <2>1, <2>3 DEF Upsert
  <2> QED
    BY <2>2, <2>3
<1>2. new = [d \in Days |-> new[d]]
  BY DEF Upsert
<1> QED
  BY <1>1, <1>2

LEMMA StoreTyped ==
    ASSUME Typed, NEW r \in Runs, run[r].at # Nobody, Store(r)
    PROVE  TablesTyped' /\ \A q \in Runs : RunTyped(run'[q])
<1> DEFINE p == run[r].at
           c == run[r].client
           from == run[r].from
           till == run[r].till
<1>1. RunTyped(run[r]) /\ RunOK(run[r]) /\ p \in Products
  BY DEF Typed, IInv, RunOK
<1> DEFINE degraded == run[r].degraded
           batch == Fetched(run[r].seen, c, from, till)
           new == Upsert(p, c, run[r].view, batch, degraded)
<1>2. /\ record' = [record EXCEPT ![p] = new]
      /\ loose' = [loose EXCEPT ![p] = @ \/ Loosens(p, run[r].view, batch, till)]
  BY DEF Store
<1>3. degraded \in BOOLEAN
  BY <1>1 DEF RunOK
<1>4. DOMAIN batch \in SUBSET Days /\ \A d \in DOMAIN batch : batch[d].accum \in Navs \cup {NoNav}
  BY <1>1, BatchTyped DEF RunTyped
<1>5. run[r].view \in [Days -> Row]
  BY <1>1 DEF RunTyped
<1>6. new \in [Days -> Row]
  <2>1. record \in [Products -> [Days -> Row]]
    BY DEF Typed, TablesTyped
  <2> HIDE DEF batch
  <2> QED
    BY <1>1, <1>3, <1>4, <1>5, <2>1, UpsertTyped
<1>7. record' = [record EXCEPT ![p] = new]
  BY <1>2
<1>8. record' \in [Products -> [Days -> Row]]
  <2> HIDE DEF new, p
  <2> QED
    BY <1>6, <1>7 DEF Typed, TablesTyped
<1>9. loose' \in [Products -> BOOLEAN]
  <2> DEFINE l == Loosens(p, run[r].view, batch, till)
  <2>1. l \in BOOLEAN
    BY DEF Loosens
  <2>2. loose' = [loose EXCEPT ![p] = @ \/ l]
    BY <1>2
  <2> HIDE DEF l, p
  <2> QED
    BY <2>2 DEF Typed, TablesTyped
<1>10. Succeed(r)
  BY DEF Store
<1>11. UNCHANGED <<today, source, client, changes, jobs, faults>>
  BY DEF Store
<1> QED
  BY <1>8, <1>9, <1>10, <1>11, ReportTyped DEF TablesTyped, Typed

-----------------------------------------------------------------------------

\* Steps of a run that store nothing.
LEMMA QuietTyped ==
    ASSUME Typed, UNCHANGED <<today, source, client, record, loose>>,
           changes' \in 0..MaxChanges, jobs' \in 0..MaxJobs, faults' \in 0..MaxFaults
    PROVE  TablesTyped'
BY DEF Typed, TablesTyped

LEMMA FaultsCount ==
    ASSUME Typed, faults' = faults \/ (faults < MaxFaults /\ faults' = faults + 1)
    PROVE  faults' \in 0..MaxFaults
BY BoundAssumption DEF Typed, TablesTyped

LEMMA ProcessTyped ==
    ASSUME Typed, NEW r \in Runs, Process(r)
    PROVE  TablesTyped' /\ \A q \in Runs : RunTyped(run'[q])
<1>1. changes \in 0..MaxChanges /\ jobs \in 0..MaxJobs /\ faults \in 0..MaxFaults
  BY DEF Typed, TablesTyped
<1>2. Nobody \notin exists
  BY NobodyAssumption DEF Typed, IInv
<1>3. ASSUME NEW p \in Products, Open(r, p)
      PROVE  TablesTyped' /\ \A q \in Runs : RunTyped(run'[q])
  BY <1>1, <1>3, OpenTyped, QuietTyped DEF Open
<1>4. ASSUME NEW p \in Products, OpenGone(r, p)
      PROVE  TablesTyped' /\ \A q \in Runs : RunTyped(run'[q])
  <2>1. RunTyped([Idle EXCEPT !.status = "failed"])
    BY IdleTyped
  <2>2. run' = [run EXCEPT ![r] = [Idle EXCEPT !.status = "failed"]]
    BY <1>4 DEF OpenGone
  <2>3. \A q \in Runs : RunTyped(run'[q])
    BY <2>1, <2>2, OneRunTyped
  <2> QED
    BY <1>1, <1>4, <2>3, QuietTyped DEF OpenGone
<1>5. CASE Skip(r)
  BY <1>1, <1>5, ReportTyped, QuietTyped DEF Skip
<1>6. CASE Store(r)
  BY <1>2, <1>6, StoreTyped DEF Store
<1>7. CASE FetchFails(r)
  <2>1. faults' = faults \/ (faults < MaxFaults /\ faults' = faults + 1)
    BY <1>7 DEF FetchFails
  <2> QED
    BY <1>1, <1>7, <2>1, FaultsCount, ReportTyped, QuietTyped DEF FetchFails
<1>8. CASE WriteFails(r)
  <2>1. faults' = faults \/ (faults < MaxFaults /\ faults' = faults + 1)
    BY <1>8 DEF WriteFails
  <2> QED
    BY <1>1, <1>8, <2>1, FaultsCount, ReportTyped, QuietTyped DEF WriteFails
<1>10. CASE Fetch(r) \/ FetchAccum(r)
  BY <1>10, FetchTyped
<1>9. CASE End(r)
  <2>1. RunTyped([Idle EXCEPT !.status = Verdict(r)])
    BY IdleTyped DEF Verdict
  <2>2. run' = [run EXCEPT ![r] = [Idle EXCEPT !.status = Verdict(r)]]
    BY <1>9 DEF End
  <2>3. \A q \in Runs : RunTyped(run'[q])
    <3> DEFINE x == [Idle EXCEPT !.status = Verdict(r)]
    <3>1. RunTyped(x) /\ run' = [run EXCEPT ![r] = x]
      BY <2>1, <2>2
    <3> HIDE DEF x
    <3> QED
      BY <3>1, OneRunTyped
  <2> QED
    BY <1>1, <1>9, <2>3, QuietTyped DEF End
<1> QED
  BY <1>3, <1>4, <1>5, <1>6, <1>7, <1>8, <1>9, <1>10 DEF Process

LEMMA YesterdayTyped ==
    ASSUME Typed, today > 1
    PROVE  today - 1 \in Days
BY DayAssumption DEF Typed, TablesTyped, Days

LEMMA BeginNavTyped ==
    ASSUME Typed, BeginNav
    PROVE  TablesTyped' /\ \A q \in Runs : RunTyped(run'[q])
<1> DEFINE x == [Idle EXCEPT
                  !.kind = "incremental", !.till = today - 1, !.status = "running",
                  !.asked = Syncable, !.todo = Syncable]
<1>1. /\ x.kind = "incremental" /\ x.client = "none" /\ x.from = 1 /\ x.till = today - 1
      /\ x.status = "running" /\ x.view = [d \in Days |-> NoRow]
      /\ x.seen = [d \in Days |-> Unpublished] /\ x.got = "nothing"
  BY DEF Idle
<1>2. "nav" \in Runs /\ run' = [run EXCEPT !["nav"] = x]
  BY DEF Runs, BeginNav
<1> HIDE DEF x
<1>3. today - 1 \in Days /\ 1 \in 1..LastDay + 1
  BY YesterdayTyped, DayAssumption DEF BeginNav
<1>4. RunTyped(x)
  BY <1>1, <1>3, NoRows DEF RunTyped, Clients
<1>5. \A q \in Runs : RunTyped(run'[q])
  BY <1>2, <1>4, OneRunTyped
<1> QED
  BY <1>5 DEF BeginNav, Typed, TablesTyped

LEMMA BeginJobTyped ==
    ASSUME Typed, NEW job \in Requests, BeginJob(job)
    PROVE  TablesTyped' /\ \A q \in Runs : RunTyped(run'[q])
<1> DEFINE x == [Idle EXCEPT
                  !.kind = job.kind, !.from = job.from,
                  !.till = IF job.kind = "incremental" THEN today - 1 ELSE job.till,
                  !.asked = job.asked, !.todo = job.asked \cap exists,
                  !.missed = job.asked \ exists,
                  !.status = IF job.asked \cap exists = {} THEN "failed" ELSE "running"]
<1>1. /\ x.kind = job.kind /\ x.client = "none" /\ x.from = job.from
      /\ x.till = IF job.kind = "incremental" THEN today - 1 ELSE job.till
      /\ x.status \in {"failed", "running"} /\ x.view = [d \in Days |-> NoRow]
      /\ x.seen = [d \in Days |-> Unpublished] /\ x.got = "nothing"
  BY DEF Idle
<1>2. "job" \in Runs /\ run' = [run EXCEPT !["job"] = x]
  BY DEF Runs, BeginJob
<1> HIDE DEF x
<1>3. job.kind \in {"incremental", "history"} /\ job.from \in Days /\ job.till \in Days
  BY RequestAssumption
<1>4. job.kind = "incremental" => today - 1 \in Days
  BY YesterdayTyped DEF BeginJob
<1>5. job.from \in 1..LastDay + 1
  BY <1>3, DayAssumption DEF Days
<1>6. RunTyped(x)
  BY <1>1, <1>3, <1>4, <1>5, NoRows DEF RunTyped, Clients
<1>7. \A q \in Runs : RunTyped(run'[q])
  BY <1>2, <1>6, OneRunTyped
<1>8. jobs' \in 0..MaxJobs
  BY BoundAssumption DEF BeginJob, Typed, TablesTyped
<1> QED
  BY <1>7, <1>8, QuietTyped DEF BeginJob, Typed, TablesTyped

LEMMA AroundTyped ==
    ASSUME Typed, NewDay \/ Upstream \/ \E p \in Products : Vanish(p) \/ \E c \in Clients : SwitchSource(p, c)
    PROVE  TablesTyped' /\ \A q \in Runs : RunTyped(run'[q])
<1>0. run' = run /\ \A q \in Runs : RunTyped(run'[q])
  BY DEF NewDay, Upstream, Publish, Vanish, SwitchSource, Typed
<1>1. CASE NewDay
  <2>1. today' \in Days
    BY <1>1, DayAssumption DEF NewDay, Typed, TablesTyped, Days
  <2> QED
    BY <1>0, <1>1, <2>1 DEF NewDay, Typed, TablesTyped
<1>2. ASSUME changes < MaxChanges, changes' = changes + 1
      PROVE  changes' \in 0..MaxChanges
  BY <1>2, BoundAssumption DEF Typed, TablesTyped
<1>3. CASE Upstream
  <2>1. PICK p \in Products, d \in OpenDays, row \in SourceRow \ {Unpublished} : Publish(p, d, row)
    BY <1>3 DEF Upstream
  <2>2. source' \in [Products -> [Days -> SourceRow]]
    <3>1. d \in Days /\ source' = [source EXCEPT ![p][d] = row]
      BY <2>1, DayAssumption DEF Publish
    <3> QED
      BY <3>1 DEF Typed, TablesTyped
  <2>3. changes' \in 0..MaxChanges
    BY <1>2, <2>1 DEF Publish
  <2> QED
    BY <1>0, <2>1, <2>2, <2>3 DEF Publish, Typed, TablesTyped
<1>4. ASSUME NEW p \in Products, Vanish(p)
      PROVE  TablesTyped'
  <2>1. record' \in [Products -> [Days -> Row]] /\ loose' \in [Products -> BOOLEAN]
    BY <1>4, NoRows DEF Vanish, Typed, TablesTyped
  <2>2. changes' \in 0..MaxChanges
    BY <1>2, <1>4 DEF Vanish
  <2> QED
    BY <1>4, <2>1, <2>2 DEF Vanish, Typed, TablesTyped
<1>5. ASSUME NEW p \in Products, NEW c \in Clients, SwitchSource(p, c)
      PROVE  TablesTyped'
  <2>1. client' \in [Products -> Clients] /\ loose' \in [Products -> BOOLEAN]
    BY <1>5 DEF SwitchSource, Typed, TablesTyped
  <2>2. changes' \in 0..MaxChanges
    BY <1>2, <1>5 DEF SwitchSource
  <2> QED
    BY <1>5, <2>1, <2>2 DEF SwitchSource, Typed, TablesTyped
<1> QED
  BY <1>0, <1>1, <1>3, <1>4, <1>5

LEMMA InitTyped == Init => Typed
<1> SUFFICES ASSUME Init PROVE Typed
  OBVIOUS
<1>1. LastDay \in Nat /\ LastDay >= 2 /\ Days = 1..LastDay /\ 1 \in Days /\ 2 \in Days
  BY DayAssumption DEF Days
<1>2. PICK first \in Navs :
        /\ source = [p \in Products |-> [d \in Days |->
                IF d = 1 THEN [shown |-> TRUE, priced |-> TRUE, accum |-> first]
                ELSE Unpublished]]
        /\ record = [p \in Products |-> [d \in Days |->
                IF d = 1 THEN [stored |-> TRUE, accum |-> first, pct |-> NoPct] ELSE NoRow]]
  <2> DEFINE f == CHOOSE n \in Navs : TRUE
  <2>1. f \in Navs
    BY BoundAssumption
  <2>2. /\ source = [p \in Products |-> [d \in Days |->
                IF d = 1 THEN [shown |-> TRUE, priced |-> TRUE, accum |-> f] ELSE Unpublished]]
        /\ record = [p \in Products |-> [d \in Days |->
                IF d = 1 THEN [stored |-> TRUE, accum |-> f, pct |-> NoPct] ELSE NoRow]]
    BY DEF Init
  <2> HIDE DEF f
  <2> QED
    BY <2>1, <2>2
<1>3. [shown |-> TRUE, priced |-> TRUE, accum |-> first] \in SourceRow /\ Unpublished \in SourceRow
  BY DEF SourceRow
<1>4. source \in [Products -> [Days -> SourceRow]]
  BY <1>2, <1>3
<1>5. [stored |-> TRUE, accum |-> first, pct |-> NoPct] \in Row /\ NoRow \in Row
  BY DEF Row
<1>6. record \in [Products -> [Days -> Row]]
  BY <1>2, <1>5
<1>7. RunTyped(Idle)
  BY <1>1, NoRows DEF RunTyped, Idle, Clients
<1>8. \A r \in Runs : RunTyped(run[r])
  BY <1>7 DEF Init
<1>9. TablesTyped
  <2>1. changes \in 0..MaxChanges /\ jobs \in 0..MaxJobs /\ faults \in 0..MaxFaults
    BY BoundAssumption DEF Init
  <2>2. today \in Days /\ client \in [Products -> Clients] /\ loose \in [Products -> BOOLEAN]
    BY <1>1 DEF Init
  <2> QED
    BY <1>4, <1>6, <2>1, <2>2 DEF TablesTyped
<1> QED
  BY <1>8, <1>9, InitHolds DEF Typed

LEMMA NextTyped == Typed /\ [Next]_vars => Typed'
<1> SUFFICES ASSUME Typed, [Next]_vars PROVE Typed'
  OBVIOUS
<1>1. IInv'
  BY NextKeeps DEF Typed, Good
<1>2. TablesTyped' /\ \A q \in Runs : RunTyped(run'[q])
  <2>1. CASE UNCHANGED vars
    BY <2>1 DEF vars, Typed, TablesTyped
  <2>2. CASE \E r \in Runs : Process(r)
    BY <2>2, ProcessTyped
  <2>3. CASE BeginNav
    BY <2>3, BeginNavTyped
  <2>4. CASE NewJob
    BY <2>4, BeginJobTyped DEF NewJob
  <2>5. CASE NewDay \/ Upstream \/ \E p \in Products : Vanish(p) \/ \E c \in Clients : SwitchSource(p, c)
    BY <2>5, AroundTyped
  <2> QED
    BY <2>1, <2>2, <2>3, <2>4, <2>5 DEF Next
<1>3. \A q \in Runs : RunTyped(run[q])'
  BY <1>2 DEF RunTyped
<1> QED
  BY <1>1, <1>2, <1>3 DEF Typed

-----------------------------------------------------------------------------
(* Changes and values                                                      *)

\* Each change divides a value by the one before it.
Linked(rows) ==
    \A d, e \in WithAccum(rows) :
        e < d /\ (\A f \in WithAccum(rows) : ~(e < f /\ f < d))
            => rows[d].pct = <<rows[d].accum, rows[e].accum>>

\* Sources never take back a day: what is stored is still shown, perhaps changed.
StillShown == \A p \in Products, d \in Days : record[p][d].stored => source[p][d].shown
\* A run that has read a product knows its data source, as long as nothing loosened.
KnowsClient == \A r \in Runs :
    run[r].at \in exists /\ ~loose[run[r].at] => run[r].client = client[run[r].at]
ChangesLinked == \A p \in Products : ~loose[p] /\ client[p] = "tushare" => Linked(record[p])
\* What a run read is shown by the answer it has, and the answer is shown still.
Shown(x, shows) ==
    /\ \A d \in Days : x.view[d].stored => shows[d].shown
    /\ x.got # "nothing" =>
          \A d \in Days : (x.view[d].stored => x.seen[d].shown) /\ (x.seen[d].shown => shows[d].shown)
ShownToRuns == \A r \in Runs : run[r].at \in exists => Shown(run[r], source[run[r].at])
LinkInv == StillShown /\ KnowsClient /\ ChangesLinked /\ ShownToRuns

LEMMA AccumIsStored ==
    ASSUME NEW rows \in [Days -> Row]
    PROVE  /\ WithAccum(rows) \subseteq StoredDays(rows) /\ StoredDays(rows) \in SUBSET Days
           /\ \A d \in WithAccum(rows) : rows[d].accum \in Navs /\ rows[d].accum \in Nat \ {0}
<1>1. ASSUME NEW d \in WithAccum(rows)
      PROVE  rows[d].stored /\ rows[d].accum \in Navs
  <2>1. d \in Days /\ rows[d] \in Row /\ rows[d].accum # NoNav
    BY DEF WithAccum
  <2>2. rows[d] # NoRow
    BY <2>1 DEF NoRow
  <2>3. rows[d].accum \in Navs
    BY <2>1, RowAccum
  <2> QED
    BY <2>1, <2>2, <2>3 DEF Row
<1> QED
  BY <1>1, BoundAssumption DEF StoredDays, WithAccum

\* What a batch leaves behind when nothing loosens.
Fits(new, old, batch, from) ==
    /\ \A d \in Days : d \in DOMAIN batch =>
          new[d].accum = batch[d].accum /\ new[d].pct = Change(old, batch, d)
    /\ \A d \in Days : d \notin DOMAIN batch => new[d] = old[d]
    /\ \A d \in DOMAIN batch : d >= from
    /\ \A d \in WithAccum(old) : d >= from => d \in DOMAIN batch

LEMMA FitsLinks ==
    ASSUME NEW old, NEW new, NEW batch, NEW from \in Nat, DOMAIN batch \in SUBSET Days,
           Fits(new, old, batch, from), Linked(old)
    PROVE  Linked(new)
<1> SUFFICES ASSUME NEW d \in WithAccum(new), NEW e \in WithAccum(new), e < d,
                    \A f \in WithAccum(new) : ~(e < f /\ f < d)
             PROVE  new[d].pct = <<new[d].accum, new[e].accum>>
  BY DEF Linked
<1> DEFINE usable == {x \in DOMAIN batch : batch[x].accum # NoNav}
           before == {x \in usable : x < d}
           stored == {x \in WithAccum(old) : x < Min(DOMAIN batch)}
<1>0. Days \subseteq Nat /\ d \in Days /\ e \in Days /\ d \in Nat /\ e \in Nat
  BY DaysFinite DEF WithAccum, Days
<1>1. \A x \in Days : x \in WithAccum(new) =>
         IF x \in DOMAIN batch THEN x \in usable ELSE x \in WithAccum(old) /\ x < from
  <2> SUFFICES ASSUME NEW x \in Days, x \in WithAccum(new)
               PROVE  IF x \in DOMAIN batch THEN x \in usable ELSE x \in WithAccum(old) /\ x < from
    OBVIOUS
  <2>1. CASE x \in DOMAIN batch
    BY <2>1 DEF Fits, WithAccum
  <2>2. CASE x \notin DOMAIN batch
    <3>1. new[x] = old[x] /\ x \in WithAccum(old)
      BY <2>2 DEF Fits, WithAccum
    <3>2. ~(x >= from)
      BY <2>2, <3>1 DEF Fits
    <3> QED
      BY <1>0, <2>2, <3>1, <3>2
  <2> QED
    BY <2>1, <2>2
<1>2. \A x \in usable : x \in WithAccum(new) /\ x >= from /\ x \in Days
  BY DEF Fits, WithAccum
<1>3. \A x \in WithAccum(old) : x \notin DOMAIN batch => x \in WithAccum(new) /\ new[x] = old[x]
  BY DEF Fits, WithAccum
<1>4. CASE d \notin DOMAIN batch
  <2>1. d \in WithAccum(old) /\ d < from /\ new[d] = old[d]
    BY <1>0, <1>1, <1>4 DEF Fits
  <2>2. e \notin DOMAIN batch
    BY <1>0, <2>1 DEF Fits
  <2>3. e \in WithAccum(old) /\ new[e] = old[e]
    BY <1>0, <1>1, <2>2 DEF Fits
  <2>4. ASSUME NEW f \in WithAccum(old), e < f, f < d
        PROVE  FALSE
    <3>1. f \in Nat
      BY <1>0 DEF WithAccum
    <3>2. f \notin DOMAIN batch
      BY <1>0, <2>1, <2>4, <3>1 DEF Fits
    <3> QED
      BY <1>3, <2>4, <3>2
  <2>5. old[d].pct = <<old[d].accum, old[e].accum>>
    BY <2>1, <2>3, <2>4 DEF Linked
  <2> QED
    BY <2>1, <2>3, <2>5
<1>5. CASE d \in DOMAIN batch /\ before # {}
  <2> DEFINE m == Max(before)
  <2>1. before \in SUBSET Days
    OBVIOUS
  <2>2. m \in before /\ \A x \in before : x <= m
    <3> HIDE DEF before
    <3> QED
      BY <1>5, <2>1, DaysExtremes
  <2>3. m \in Nat /\ m < d /\ m \in usable /\ m >= from
    BY <1>0, <1>2, <2>2
  <2>4. d \in usable
    BY <1>0, <1>1, <1>5
  <2>5. Change(old, batch, d) = <<batch[d].accum, batch[m].accum>>
    BY <1>5, <2>4 DEF Change
  <2> HIDE DEF m
  <2>6. m <= e
    BY <1>0, <1>2, <2>3
  <2>7. e \in usable
    BY <1>0, <1>1, <2>3, <2>6
  <2>8. e = m
    BY <1>0, <2>2, <2>3, <2>6, <2>7
  <2>9. new[d].accum = batch[d].accum /\ new[d].pct = Change(old, batch, d) /\ new[e].accum = batch[e].accum
    BY <1>0, <1>5, <2>7 DEF Fits
  <2> QED
    BY <2>5, <2>8, <2>9
<1>6. CASE d \in DOMAIN batch /\ before = {}
  <2> DEFINE m == Max(stored)
             low == Min(DOMAIN batch)
  <2>1. d \in usable
    BY <1>0, <1>1, <1>6
  <2>2. e \notin DOMAIN batch
    BY <1>0, <1>1, <1>6
  <2>3. e \in WithAccum(old) /\ e < from /\ new[e] = old[e]
    BY <1>0, <1>1, <2>2 DEF Fits
  <2>4. low \in DOMAIN batch /\ \A x \in DOMAIN batch : low <= x
    <3> HIDE DEF low
    <3> QED
      BY <1>6, DaysExtremes DEF low
  <2>5. low \in Nat /\ low >= from /\ low <= d
    BY <1>0, <1>6, <2>4 DEF Fits
  <2>6. e \in stored
    <3> HIDE DEF low
    <3>1. e < low
      BY <1>0, <2>3, <2>5
    <3> QED
      BY <2>3, <3>1 DEF low
  <2>7. stored \in SUBSET Days
    BY DEF WithAccum
  <2>8. m \in stored /\ \A x \in stored : x <= m
    <3> HIDE DEF stored
    <3> QED
      BY <2>6, <2>7, DaysExtremes
  <2>9. m \in WithAccum(old) /\ m < low /\ m \in Nat
    BY <1>0, <2>7, <2>8
  <2>10. Change(old, batch, d) = <<batch[d].accum, old[m].accum>>
    BY <1>6, <2>1, <2>6 DEF Change
  <2> HIDE DEF m, low, stored
  <2>11. m \notin DOMAIN batch
    BY <2>4, <2>5, <2>9
  <2>12. m \in WithAccum(new) /\ m < d
    BY <1>0, <1>3, <2>5, <2>9, <2>11
  <2>13. e = m
    BY <1>0, <2>6, <2>8, <2>9, <2>12
  <2>14. new[d].accum = batch[d].accum /\ new[d].pct = Change(old, batch, d)
    BY <1>0, <1>6 DEF Fits
  <2> QED
    BY <2>3, <2>10, <2>13, <2>14
<1> QED
  BY <1>4, <1>5, <1>6

-----------------------------------------------------------------------------

LEMMA StoreShown ==
    ASSUME Typed, StillShown, ShownToRuns, NEW r \in Runs, run[r].at # Nobody, Store(r)
    PROVE  StillShown'
<1> DEFINE p == run[r].at
           c == run[r].client
<1>1. RunTyped(run[r]) /\ RunOK(run[r]) /\ p \in Products /\ p \in DOMAIN record
  BY DEF Typed, IInv, RunOK, TablesTyped
<1> DEFINE batch == Fetched(run[r].seen, c, run[r].from, run[r].till)
           new == Upsert(p, c, run[r].view, batch, run[r].degraded)
<1>2. record' = [record EXCEPT ![p] = new]
  BY DEF Store
<1>3. source' = source
  BY DEF Store
<1>4. \A d \in DOMAIN batch : source[p][d].shown
  <2>1. DOMAIN batch = FetchedDays(run[r].seen, c, run[r].from, run[r].till) /\ DOMAIN batch \in SUBSET Days
    BY <1>1, BatchTyped DEF RunTyped, Fetched
  <2>2. \A d \in DOMAIN batch : d \in Days /\ run[r].seen[d].shown
    <3> HIDE DEF batch
    <3> QED BY <2>1 DEF FetchedDays
  <2>3. \A d \in Days : run[r].seen[d].shown => source[p][d].shown
    BY DEF ShownToRuns, Shown, Store
  <2> HIDE DEF batch, p
  <2> QED
    BY <2>2, <2>3
<1>5. ASSUME NEW d \in Days, new[d].stored
      PROVE  source[p][d].shown
  <2>1. CASE d \in DOMAIN batch
    BY <1>4, <2>1
  <2>2. CASE d \notin DOMAIN batch
    <3>1. new[d] = record[p][d]
      BY <2>2 DEF Upsert
    <3> HIDE DEF new, p
    <3> QED
      BY <1>1, <1>5, <3>1 DEF StillShown
  <2> QED
    BY <2>1, <2>2
<1>6. record' = [record EXCEPT ![p] = new]
  BY <1>2
<1>7. record'[p] = new /\ \A q \in Products \ {p} : record'[q] = record[q]
  <2> HIDE DEF new, p
  <2> QED
    BY <1>1, <1>6 DEF Typed, TablesTyped
<1> HIDE DEF new, p
<1> QED
  BY <1>3, <1>5, <1>7 DEF StillShown

\* A store that loosens nothing leaves changes that fit.
LEMMA StoreLinks ==
    ASSUME Typed, LinkInv, NEW r \in Runs, run[r].at \in exists, Store(r),
           ~loose'[run[r].at], client[run[r].at] = "tushare"
    PROVE  Linked(record'[run[r].at])
<1> DEFINE p == run[r].at
           c == run[r].client
           from == run[r].from
           till == run[r].till
           view == run[r].view
           old == record[p]
<1>1. /\ RunTyped(run[r]) /\ p \in Products /\ p \in DOMAIN record /\ p \in DOMAIN loose
      /\ old \in [Days -> Row]
  BY DEF Typed, IInv, TablesTyped
<1> DEFINE degraded == run[r].degraded
           seen == run[r].seen
           batch == Fetched(seen, c, from, till)
           new == Upsert(p, c, view, batch, degraded)
<1>2. /\ record' = [record EXCEPT ![p] = new]
      /\ loose' = [loose EXCEPT ![p] = @ \/ Loosens(p, view, batch, till)]
  BY DEF Store
<1>3. ~loose[p] /\ ~Loosens(p, view, batch, till)
  <2> DEFINE l == Loosens(p, view, batch, till)
  <2>1. loose' = [loose EXCEPT ![p] = @ \/ l]
    BY <1>2
  <2> HIDE DEF l
  <2>2. loose'[p] = (loose[p] \/ l)
    BY <1>1, <2>1
  <2>3. ~loose[p] /\ ~l
    BY <2>2
  <2> QED
    BY <2>3 DEF l
<1>4. record'[p] = new
  <2>1. record' = [record EXCEPT ![p] = new]
    BY <1>2
  <2> HIDE DEF new, p
  <2> QED
    BY <1>1, <2>1
<1>5. c = "tushare" /\ degraded = FALSE
  <2>1. c = client[p]
    BY <1>3 DEF LinkInv, KnowsClient
  <2>2. c = "tushare"
    BY <2>1
  <2>3. degraded \in BOOLEAN /\ (degraded => c = "akshare")
    BY DEF Typed, IInv, RunOK
  <2> HIDE DEF c, degraded
  <2> QED
    BY <2>2, <2>3
<1>6. Linked(old)
  BY <1>1, <1>3 DEF LinkInv, ChangesLinked
<1>7. DOMAIN batch = FetchedDays(seen, c, from, till) /\ DOMAIN batch \in SUBSET Days
  <2>1. DOMAIN batch \in SUBSET Days
    BY <1>1, BatchTyped DEF RunTyped
  <2> QED
    BY <2>1 DEF Fetched
<1>8. view = old /\ \A d \in DOMAIN batch : batch[d].priced
  <2> HIDE DEF batch
  <2> QED
    BY <1>3 DEF Loosens
<1>9. Fits(new, old, batch, from)
  <2>1. ASSUME NEW d \in Days, d \in DOMAIN batch
        PROVE  new[d].accum = batch[d].accum /\ new[d].pct = Change(old, batch, d)
    <3>1. new[d] = [stored |-> TRUE, accum |-> IF degraded THEN record[p][d].accum ELSE batch[d].accum,
                    pct |-> IF c = "tushare" THEN Change(view, batch, d) ELSE NoPct]
      BY <1>8, <2>1 DEF Upsert
    <3> HIDE DEF batch, new, c, view
    <3> QED
      BY <1>5, <1>8, <3>1
  <2>2. ASSUME NEW d \in Days, d \notin DOMAIN batch
        PROVE  new[d] = old[d]
    BY <2>2 DEF Upsert
  <2>3. \A d \in DOMAIN batch : d >= from
    <3>1. from \in Int /\ till \in Int
      BY <1>1, DayAssumption DEF RunTyped, Days
    <3>2. \A d \in from..till : d >= from
      BY <3>1
    <3> HIDE DEF from, till, batch
    <3> QED
      BY <1>7, <3>2 DEF FetchedDays
  <2>4. ASSUME NEW d \in WithAccum(old), d >= from
        PROVE  d \in DOMAIN batch
    <3>1. d \in StoredDays(old) /\ d \in Days /\ StoredDays(old) \in SUBSET Days /\ StoredDays(old) # {}
      BY <1>1, <2>4, AccumIsStored
    <3>2. till >= Latest(old) /\ Latest(old) >= d /\ d \in Nat /\ till \in Nat
      <4>1. ~(till < Latest(old))
        BY <1>3, <3>1 DEF Loosens
      <4>2. Latest(old) \in StoredDays(old) /\ d <= Latest(old)
        <5> HIDE DEF old
        <5> QED
          BY <3>1, DaysExtremes DEF Latest
      <4>3. Latest(old) \in Nat /\ till \in Nat /\ d \in Nat
        BY <1>1, <3>1, <4>2, DaysFinite DEF RunTyped
      <4> HIDE DEF till, old
      <4> QED
        BY <4>1, <4>2, <4>3
    <3>3. seen[d].shown
      <4>1. view[d].stored
        BY <1>8, <3>1 DEF StoredDays
      <4> QED
        BY <3>1, <4>1 DEF LinkInv, ShownToRuns, Shown, Store
    <3>4. d \in from..till
      <4>1. from \in Int
        BY <1>1 DEF RunTyped
      <4>2. Latest(old) \in Int
        <5>1. Latest(old) \in StoredDays(old)
          <6> HIDE DEF old
          <6> QED
            BY <3>1, DaysExtremes DEF Latest
        <5> QED
          BY <3>1, <5>1, DaysFinite
      <4> HIDE DEF from, till, old
      <4> QED
        BY <2>4, <3>2, <4>1, <4>2
    <3>5. d \in FetchedDays(seen, c, from, till)
      <4> HIDE DEF seen, c, from, till
      <4> QED
        BY <1>5, <3>3, <3>4 DEF FetchedDays
    <3> QED
      BY <1>7, <3>5
  <2> HIDE DEF new, old, batch, from
  <2> QED
    BY <2>1, <2>2, <2>3, <2>4 DEF Fits
<1>10. from \in Nat
  BY <1>1, DayAssumption DEF RunTyped
<1>11. Linked(new)
  <2> HIDE DEF new, old, batch, from
  <2> QED
    BY <1>6, <1>7, <1>9, <1>10, FitsLinks
<1> QED
  BY <1>4, <1>11

LEMMA NothingLinked == Linked([d \in Days |-> NoRow])
BY DEF Linked, WithAccum, NoRow

\* A step of a run: what it says of the product it works on.
LEMMA ProcessLinks ==
    ASSUME Typed, LinkInv, NEW r \in Runs, Process(r)
    PROVE  LinkInv'
<1>1. exists' = exists /\ client' = client /\ source' = source
  BY DEF Process, Open, OpenGone, Skip, Fetch, FetchAccum, Store, FetchFails, WriteFails, End
<1>2. Nobody \notin exists /\ DOMAIN run = Runs
  BY NobodyAssumption DEF Typed, IInv
<1>3. ASSUME run'[r].at \in exists => run'[r].client = client[run'[r].at],
             \A q \in Runs \ {r} : run'[q] = run[q], \A p \in Products : loose[p] => loose'[p]
      PROVE  KnowsClient'
  <2> SUFFICES ASSUME NEW q \in Runs, run'[q].at \in exists, ~loose'[run'[q].at]
               PROVE  run'[q].client = client[run'[q].at]
    BY <1>1 DEF KnowsClient
  <2>1. CASE q = r
    BY <1>3, <2>1
  <2>2. CASE q # r
    <3>1. run'[q] = run[q]
      BY <1>3, <2>2
    <3>2. ~loose[run[q].at]
      BY <1>3, <3>1 DEF Typed, IInv
    <3> QED
      BY <3>1, <3>2 DEF LinkInv, KnowsClient
  <2> QED
    BY <2>1, <2>2
<1>12. ASSUME run'[r].at \in exists => Shown(run'[r], source[run'[r].at]),
              \A q \in Runs \ {r} : run'[q] = run[q]
       PROVE  ShownToRuns'
  <2> SUFFICES ASSUME NEW q \in Runs, run'[q].at \in exists
               PROVE  Shown(run'[q], source[run'[q].at])
    BY <1>1 DEF ShownToRuns, Shown
  <2>1. CASE q = r
    BY <1>12, <2>1
  <2>2. CASE q # r
    <3>1. run'[q] = run[q]
      BY <1>12, <2>2
    <3> QED
      BY <3>1 DEF LinkInv, ShownToRuns
  <2> QED
    BY <2>1, <2>2
<1>4. ASSUME run'[r].at \in exists => run'[r].client = client[run'[r].at],
             run'[r].at \in exists => Shown(run'[r], source[run'[r].at]),
             \A q \in Runs \ {r} : run'[q] = run[q], record' = record, loose' = loose
      PROVE  LinkInv'
  <2>1. KnowsClient' /\ ShownToRuns'
    BY <1>3, <1>4, <1>12
  <2> QED
    BY <1>1, <1>4, <2>1 DEF LinkInv, StillShown, ChangesLinked
<1>5. ASSUME Succeed(r) \/ Miss(r)
      PROVE  /\ run'[r].at \notin exists
             /\ \A q \in Runs \ {r} : run'[q] = run[q]
  <2>1. RunOK(run[r])
    BY DEF Typed, IInv
  <2>2. [Closed(r) EXCEPT !.ok = @ \cup {run[r].at}].at = Nobody
    BY <2>1 DEF RunOK, Fields, Closed
  <2>3. [Closed(r) EXCEPT !.bad = @ \cup {run[r].at}].at = Nobody
    BY <2>1 DEF RunOK, Fields, Closed
  <2>4. run'[r].at = Nobody /\ \A q \in Runs \ {r} : run'[q] = run[q]
    BY <1>2, <1>5, <2>2, <2>3 DEF Succeed, Miss
  <2> QED
    BY <1>2, <2>4
<1>6. ASSUME NEW p \in Products, Open(r, p)
      PROVE  LinkInv'
  <2> DEFINE x == [run[r] EXCEPT !.at = p, !.todo = @ \ {p}, !.view = record[p],
                          !.client = client[p],
                          !.from = IF run[r].kind = "incremental"
                                      THEN WindowStart(record[p]) ELSE @]
  <2>1. RunOK(run[r])
    BY DEF Typed, IInv
  <2>2. x.at = p /\ x.client = client[p] /\ x.view = record[p] /\ x.got = run[r].got
    BY <2>1 DEF RunOK, Fields
  <2>6. x.got = "nothing"
    BY <1>6, <2>1, <2>2 DEF RunOK, Open
  <2>3. run' = [run EXCEPT ![r] = x]
    BY <1>6 DEF Open
  <2> HIDE DEF x
  <2>4. run'[r] = x /\ \A q \in Runs \ {r} : run'[q] = run[q]
    BY <1>2, <2>3
  <2>5. record' = record /\ loose' = loose
    BY <1>6 DEF Open
  <2>7. Shown(x, source[p])
    BY <2>2, <2>6 DEF Shown, LinkInv, StillShown
  <2> QED
    BY <1>4, <2>2, <2>4, <2>5, <2>7
<1>7. ASSUME NEW s, run' = [run EXCEPT ![r] = [Idle EXCEPT !.status = s]], record' = record, loose' = loose
      PROVE  LinkInv'
  <2>1. [Idle EXCEPT !.status = s].at = Nobody
    BY DEF Idle
  <2>2. run'[r].at = Nobody /\ \A q \in Runs \ {r} : run'[q] = run[q]
    BY <1>2, <1>7, <2>1
  <2> QED
    BY <1>2, <1>4, <1>7, <2>2
<1>8. ASSUME NEW p \in Products, OpenGone(r, p)
      PROVE  LinkInv'
  BY <1>7, <1>8 DEF OpenGone
<1>9. CASE End(r)
  BY <1>7, <1>9 DEF End
<1>10. CASE Skip(r) \/ FetchFails(r) \/ WriteFails(r)
  <2>1. (Succeed(r) \/ Miss(r)) /\ record' = record /\ loose' = loose
    BY <1>10 DEF Skip, FetchFails, WriteFails
  <2> QED
    BY <1>4, <1>5, <2>1
<1>13. CASE Fetch(r) \/ FetchAccum(r)
  <2> DEFINE p == run[r].at
             shows == source[p]
  <2>1. /\ Asked(r) /\ RunTyped(run[r]) /\ RunTyped(run'[r]) /\ p \in Products
        /\ shows \in [Days -> SourceRow]
    BY <1>13, FetchMoves, FetchTyped, NobodyAssumption
       DEF Typed, IInv, RunOK, Fetch, FetchAccum, TablesTyped
  <2>2. run'[r].at = p /\ run'[r].client = run[r].client /\ run'[r].view = run[r].view
    BY <2>1 DEF Asked, Fields
  <2>3. ASSUME p \in exists
        PROVE  Shown(run'[r], shows)
    <3>1. Shown(run[r], shows)
      BY <2>3 DEF LinkInv, ShownToRuns
    <3>2. CASE run'[r].seen \in {shows, UnitsOf(shows)}
      <4>1. \A d \in Days : run'[r].seen[d].shown = shows[d].shown
        BY <2>1, <3>2, AnswerTyped
      <4> QED
        BY <2>2, <3>1, <4>1 DEF Shown
    <3>3. CASE run[r].got = "units" /\ run'[r].seen \in {run[r].seen, Completed(run[r].seen, shows)}
      <4> DEFINE units == run[r].seen
      <4>2. units \in [Days -> SourceRow]
        BY <2>1 DEF RunTyped
      <4>3. \A d \in Days : Completed(units, shows)[d].shown = units[d].shown
        <5> HIDE DEF units, shows
        <5> QED
          BY <2>1, <4>2, AnswerTyped
      <4>1. \A d \in Days : run'[r].seen[d].shown = run[r].seen[d].shown
        BY <3>3, <4>3
      <4> QED
        BY <2>2, <3>1, <3>3, <4>1 DEF Shown
    <3> QED
      BY <2>1, <3>2, <3>3 DEF Asked
  <2>4. UNCHANGED <<record, loose>> /\ \A q \in Runs \ {r} : run'[q] = run[q]
    BY <2>1 DEF Asked
  <2>5. KnowsClient'
    <3> SUFFICES ASSUME NEW q \in Runs, run'[q].at \in exists, ~loose[run'[q].at]
                 PROVE  run'[q].client = client[run'[q].at]
      BY <1>1, <2>4 DEF KnowsClient
    <3>1. run'[q].at = run[q].at /\ run'[q].client = run[q].client
      BY <2>2, <2>4
    <3> QED
      BY <3>1 DEF LinkInv, KnowsClient
  <2>6. ShownToRuns'
    BY <1>12, <2>2, <2>3, <2>4
  <2> QED
    BY <1>1, <2>4, <2>5, <2>6 DEF LinkInv, StillShown, ChangesLinked
<1>11. CASE Store(r)
  <2> DEFINE p == run[r].at
  <2>1. p \in exists /\ Succeed(r) /\ p # Nobody /\ p \in Products
    BY <1>2, <1>11 DEF Store, Typed, IInv
  <2>2. StillShown'
    BY <1>11, <2>1, StoreShown DEF LinkInv
  <2>3. /\ \A q \in Products \ {p} : record'[q] = record[q] /\ loose'[q] = loose[q]
        /\ loose[p] => loose'[p]
    BY <1>11 DEF Store, Typed, TablesTyped
  <2>4. KnowsClient'
    <3>1. \A q \in Products : loose[q] => loose'[q]
      BY <2>3
    <3> QED
      BY <1>3, <1>5, <2>1, <3>1
  <2>6. ShownToRuns'
    BY <1>5, <1>12, <2>1
  <2>5. ChangesLinked'
    <3> SUFFICES ASSUME NEW q \in Products, ~loose'[q], client[q] = "tushare"
                 PROVE  Linked(record'[q])
      BY <1>1 DEF ChangesLinked, Linked, WithAccum
    <3>1. CASE q = p
      BY <1>11, <2>1, <3>1, StoreLinks
    <3>2. CASE q # p
      <4>1. record'[q] = record[q] /\ ~loose[q]
        BY <2>3, <3>2
      <4> QED
        BY <4>1 DEF LinkInv, ChangesLinked
    <3> QED
      BY <3>1, <3>2
  <2> QED
    BY <2>2, <2>4, <2>5, <2>6 DEF LinkInv
<1> QED
  BY <1>6, <1>8, <1>9, <1>10, <1>11, <1>13 DEF Process

LEMMA BeginLinks ==
    ASSUME Typed, LinkInv, BeginNav \/ NewJob
    PROVE  LinkInv'
<1>1. UNCHANGED <<source, exists, client, record, loose>>
  BY DEF BeginNav, NewJob, BeginJob
<1>2. PICK r \in Runs : run'[r].at = Nobody /\ \A q \in Runs \ {r} : run'[q] = run[q]
  <2>1. DOMAIN run = Runs /\ "nav" \in Runs /\ "job" \in Runs
    BY DEF Typed, IInv, Runs
  <2>2. CASE BeginNav
    <3>1. run'["nav"].at = Nobody /\ \A q \in Runs \ {"nav"} : run'[q] = run[q]
      BY <2>1, <2>2 DEF BeginNav, Idle
    <3> QED
      BY <2>1, <3>1
  <2>3. ASSUME NEW job \in Requests, BeginJob(job)
        PROVE  run'["job"].at = Nobody /\ \A q \in Runs \ {"job"} : run'[q] = run[q]
    <3> DEFINE x == [Idle EXCEPT
                  !.kind = job.kind, !.from = job.from,
                  !.till = IF job.kind = "incremental" THEN today - 1 ELSE job.till,
                  !.asked = job.asked, !.todo = job.asked \cap exists,
                  !.missed = job.asked \ exists,
                  !.status = IF job.asked \cap exists = {} THEN "failed" ELSE "running"]
    <3>1. x.at = Nobody
      BY DEF Idle
    <3>2. run' = [run EXCEPT !["job"] = x]
      BY <2>3 DEF BeginJob
    <3> HIDE DEF x
    <3> QED
      BY <2>1, <3>1, <3>2
  <2> QED
    BY <2>1, <2>2, <2>3 DEF NewJob
<1>3. KnowsClient'
  BY <1>1, <1>2, NobodyAssumption DEF Typed, IInv, LinkInv, KnowsClient
<1>4. ShownToRuns'
  BY <1>1, <1>2, NobodyAssumption DEF Typed, IInv, LinkInv, ShownToRuns, Shown
<1> QED
  BY <1>1, <1>3, <1>4 DEF LinkInv, StillShown, ChangesLinked

LEMMA AroundLinks ==
    ASSUME Typed, LinkInv,
           NewDay \/ Upstream \/ \E p \in Products : Vanish(p) \/ \E c \in Clients : SwitchSource(p, c)
    PROVE  LinkInv'
<1>1. run' = run
  BY DEF NewDay, Upstream, Publish, Vanish, SwitchSource
<1>6. ASSUME exists' \subseteq exists,
             \A q \in Products, e \in Days : source[q][e].shown => source'[q][e].shown
      PROVE  ShownToRuns'
  <2> SUFFICES ASSUME NEW r \in Runs, run[r].at \in exists'
               PROVE  Shown(run[r], source'[run[r].at])
    BY <1>1 DEF ShownToRuns, Shown
  <2>1. Shown(run[r], source[run[r].at]) /\ run[r].at \in Products
    BY <1>6 DEF LinkInv, ShownToRuns, Typed, IInv
  <2> QED
    BY <1>6, <2>1 DEF Shown
<1>2. CASE NewDay
  BY <1>1, <1>2, <1>6 DEF NewDay, LinkInv, StillShown, KnowsClient, ChangesLinked
<1>3. CASE Upstream
  <2>1. PICK p \in Products, d \in OpenDays, row \in SourceRow \ {Unpublished} : Publish(p, d, row)
    BY <1>3 DEF Upstream
  <2>2. d \in Days /\ row.shown
    BY DayAssumption DEF SourceRow
  <2>3. \A q \in Products, e \in Days : source'[q][e] = source[q][e] \/ source'[q][e] = row
    BY <2>1, <2>2 DEF Publish, Typed, TablesTyped
  <2>4. StillShown'
    BY <2>1, <2>2, <2>3 DEF Publish, LinkInv, StillShown
  <2>5. exists' \subseteq exists
    BY <2>1 DEF Publish
  <2>6. ShownToRuns'
    BY <1>6, <2>2, <2>3, <2>5
  <2> QED
    BY <1>1, <2>1, <2>4, <2>6 DEF Publish, LinkInv, KnowsClient, ChangesLinked
<1>4. ASSUME NEW p \in Products, Vanish(p)
      PROVE  LinkInv'
  <2>1. /\ exists' = exists \ {p} /\ UNCHANGED <<source, client>>
        /\ record'[p] = [d \in Days |-> NoRow] /\ \A q \in Products \ {p} : record'[q] = record[q]
        /\ \A q \in Products \ {p} : loose'[q] = loose[q]
    BY <1>4 DEF Vanish, Typed, TablesTyped
  <2>2. StillShown'
    <3>1. \A d \in Days : ~record'[p][d].stored
      BY <2>1, NoRows
    <3> QED
      BY <2>1, <3>1 DEF LinkInv, StillShown
  <2>3. KnowsClient'
    BY <1>1, <2>1 DEF LinkInv, KnowsClient, Typed, IInv
  <2>4. ChangesLinked'
    BY <2>1, NothingLinked DEF LinkInv, ChangesLinked
  <2> QED
    BY <1>6, <2>1, <2>2, <2>3, <2>4 DEF LinkInv
<1>5. ASSUME NEW p \in Products, NEW c \in Clients, SwitchSource(p, c)
      PROVE  LinkInv'
  <2>1. /\ UNCHANGED <<source, exists, record>> /\ loose'[p]
        /\ \A q \in Products \ {p} : client'[q] = client[q] /\ loose'[q] = loose[q]
    BY <1>5 DEF SwitchSource, Typed, TablesTyped
  <2>2. KnowsClient'
    BY <1>1, <2>1 DEF LinkInv, KnowsClient, Typed, IInv
  <2>3. ChangesLinked'
    BY <2>1 DEF LinkInv, ChangesLinked
  <2>4. StillShown'
    BY <2>1 DEF LinkInv, StillShown
  <2> QED
    BY <1>6, <2>1, <2>2, <2>3, <2>4 DEF LinkInv
<1> QED
  BY <1>2, <1>3, <1>4, <1>5

LEMMA InitLinks == Init => LinkInv
<1> SUFFICES ASSUME Init PROVE LinkInv
  OBVIOUS
<1>1. PICK first \in Navs :
        /\ source = [p \in Products |-> [d \in Days |->
                IF d = 1 THEN [shown |-> TRUE, priced |-> TRUE, accum |-> first]
                ELSE Unpublished]]
        /\ record = [p \in Products |-> [d \in Days |->
                IF d = 1 THEN [stored |-> TRUE, accum |-> first, pct |-> NoPct] ELSE NoRow]]
  <2> DEFINE f == CHOOSE n \in Navs : TRUE
  <2>1. f \in Navs
    BY BoundAssumption
  <2>2. /\ source = [p \in Products |-> [d \in Days |->
                IF d = 1 THEN [shown |-> TRUE, priced |-> TRUE, accum |-> f] ELSE Unpublished]]
        /\ record = [p \in Products |-> [d \in Days |->
                IF d = 1 THEN [stored |-> TRUE, accum |-> f, pct |-> NoPct] ELSE NoRow]]
    BY DEF Init
  <2> HIDE DEF f
  <2> QED
    BY <2>1, <2>2
<1>2. StillShown
  BY <1>1 DEF StillShown, NoRow
<1>3. KnowsClient
  BY NobodyAssumption DEF Init, KnowsClient, Idle
<1>5. ShownToRuns
  BY NobodyAssumption DEF Init, ShownToRuns, Idle
<1>4. ASSUME NEW p \in Products
      PROVE  Linked(record[p])
  <2>1. WithAccum(record[p]) \subseteq {1}
    BY <1>1 DEF WithAccum, NoRow
  <2> QED
    BY <2>1 DEF Linked
<1> QED
  BY <1>2, <1>3, <1>4, <1>5 DEF LinkInv, ChangesLinked

LEMMA NextLinks == Typed /\ LinkInv /\ [Next]_vars => LinkInv'
<1> SUFFICES ASSUME Typed, LinkInv, [Next]_vars PROVE LinkInv'
  OBVIOUS
<1>1. CASE UNCHANGED vars
  BY <1>1 DEF vars, LinkInv, StillShown, KnowsClient, ChangesLinked, ShownToRuns, Shown
<1>2. CASE \E r \in Runs : Process(r)
  BY <1>2, ProcessLinks
<1>3. CASE BeginNav \/ NewJob
  BY <1>3, BeginLinks
<1>4. CASE NewDay \/ Upstream \/ \E p \in Products : Vanish(p) \/ \E c \in Clients : SwitchSource(p, c)
  BY <1>4, AroundLinks
<1> QED
  BY <1>1, <1>2, <1>3, <1>4 DEF Next

-----------------------------------------------------------------------------
(* Changes compound                                                        *)

\* The days of a stretch with a value, the changes of them multiplied.
Stretch(rows, b, m) == {d \in WithAccum(rows) : b < d /\ d <= m}

\* The factors of the days up to m, against the values at both ends.
Telescopes(rows, b, m) ==
    Compound(rows, Stretch(rows, b, m), 1) * rows[b].accum
        = Compound(rows, Stretch(rows, b, m), 2) * rows[m].accum

\* One more day at the end of a stretch.
LEMMA CompoundRemove ==
    ASSUME NEW rows, NEW S \in SUBSET Days, NEW i, \A d \in S : rows[d].pct[i] \in Int
    PROVE  /\ Compound(rows, S, i) \in Int
           /\ \A d \in S : Compound(rows, S, i) = rows[d].pct[i] * Compound(rows, S \ {d}, i)
<1> DEFINE F == [d \in S |-> rows[d].pct[i]]
<1>1. IsFiniteSet(S)
  BY DaysFinite
<1>2. Compound(rows, S, i) = Product(F, S)
  BY DEF Compound, Product
<1>3. \A d \in S : F[d] \in Int
  OBVIOUS
<1>4. ASSUME NEW d \in S
      PROVE  Compound(rows, S, i) = rows[d].pct[i] * Compound(rows, S \ {d}, i)
  <2> DEFINE T == S \ {d}
             G == [e \in T |-> rows[e].pct[i]]
  <2>1. Compound(rows, T, i) = Product(G, T)
    BY DEF Compound, Product
  <2>2. IsFiniteSet(T)
    BY <1>1, FS_Subset
  <2>3. \A e \in T : G[e] = F[e]
    OBVIOUS
  <2>4. Product(G, T) = Product(F, T)
    <3> HIDE DEF G, F, T
    <3> QED
      BY <2>2, <2>3, ProductAgree
  <2>5. Product(F, S) = F[d] * Product(F, T)
    <3> HIDE DEF F
    <3> QED
      BY <1>1, <1>3, ProductRemove
  <2>6. F[d] = rows[d].pct[i]
    OBVIOUS
  <2> HIDE DEF F, G, T
  <2>7. Compound(rows, S, i) = rows[d].pct[i] * Compound(rows, T, i)
    BY <1>2, <2>1, <2>4, <2>5, <2>6
  <2> QED
    BY <2>7 DEF T
<1>5. Product(F, S) \in Int
  <2> HIDE DEF F
  <2> QED
    BY <1>1, <1>3, ProductRemove
<1> HIDE DEF F
<1> QED
  BY <1>2, <1>4, <1>5

LEMMA CompoundEmpty ==
    ASSUME NEW rows, NEW i
    PROVE  Compound(rows, {}, i) = 1
<1> DEFINE F == [d \in {} |-> rows[d].pct[i]]
<1>1. Compound(rows, {}, i) = Product(F, {})
  BY DEF Compound, Product
<1> HIDE DEF F
<1> QED
  BY <1>1, ProductEmpty

\* A day with a value after another has a last one before it, and its change is the
\* quotient of the two values.
LEMMA Preceded ==
    ASSUME NEW rows \in [Days -> Row], Linked(rows), NEW b \in WithAccum(rows),
           NEW m \in WithAccum(rows), b < m
    PROVE  \E e \in WithAccum(rows) :
              /\ b <= e /\ e < m /\ rows[m].pct = <<rows[m].accum, rows[e].accum>>
              /\ Stretch(rows, b, m) \ {m} = Stretch(rows, b, e)
<1> DEFINE S == {d \in WithAccum(rows) : d < m}
<1>0. S \in SUBSET Days /\ WithAccum(rows) \in SUBSET Days
  BY DEF WithAccum
<1>1. b \in S /\ S # {}
  OBVIOUS
<1> DEFINE e == Max(S)
<1>2. e \in S /\ \A x \in S : x <= e
  <2> HIDE DEF S
  <2> QED
    BY <1>0, <1>1, DaysExtremes
<1>3. e \in WithAccum(rows) /\ e < m /\ b <= e
  BY <1>1, <1>2
<1>4. \A x \in WithAccum(rows) : x \in Nat
  BY <1>0, DaysFinite
<1> HIDE DEF e
<1>5. \A f \in WithAccum(rows) : ~(e < f /\ f < m)
  BY <1>2, <1>3, <1>4
<1>6. rows[m].pct = <<rows[m].accum, rows[e].accum>>
  BY <1>3, <1>5 DEF Linked
<1>7. Stretch(rows, b, m) \ {m} = Stretch(rows, b, e)
  <2>1. ASSUME NEW d \in WithAccum(rows)
        PROVE  (b < d /\ d <= m /\ d # m) <=> (b < d /\ d <= e)
    <3>1. d \in Nat /\ e \in Nat /\ m \in Nat /\ b \in Nat
      BY <1>3, <1>4
    <3> QED
      BY <1>3, <1>5, <3>1
  <2> QED
    BY <2>1 DEF Stretch
<1> QED
  BY <1>3, <1>6, <1>7

LEMMA TelescopeStep ==
    ASSUME NEW x \in Int, NEW y \in Int, NEW u \in Int, NEW v \in Int, NEW w \in Int,
           x * u = y * v
    PROVE  (w * x) * u = (v * y) * w
<1>1. (w * x) * u = w * (x * u)
  OBVIOUS
<1>2. (v * y) * w = w * (y * v)
  OBVIOUS
<1> QED
  BY <1>1, <1>2

\* The changes of a stretch are quotients of values.
LEMMA StretchWhole ==
    ASSUME NEW rows \in [Days -> Row], Linked(rows), NEW b \in WithAccum(rows), NEW m,
           NEW d \in Stretch(rows, b, m)
    PROVE  /\ rows[d].pct # NoPct
           /\ rows[d].pct[1] \in Int /\ rows[d].pct[2] \in Int
<1>1. d \in WithAccum(rows) /\ b < d
  BY DEF Stretch
<1>2. PICK e \in WithAccum(rows) : rows[d].pct = <<rows[d].accum, rows[e].accum>>
  BY <1>1, Preceded
<1>3. rows[d].accum \in Nat \ {0} /\ rows[e].accum \in Nat \ {0}
  BY <1>1, AccumIsStored
<1> DEFINE v == rows[d].accum
           w == rows[e].accum
           q == rows[d].pct
<1>4. q = <<v, w>> /\ v \in Int /\ w \in Int
  BY <1>2, <1>3
<1>5. q # <<>> /\ q[1] \in Int /\ q[2] \in Int
  <2> HIDE DEF q, v, w
  <2> QED
    BY <1>4
<1> QED
  BY <1>5 DEF NoPct

LEMMA AllTelescope ==
    ASSUME NEW rows \in [Days -> Row], Linked(rows), NEW b \in WithAccum(rows),
           NEW top \in WithAccum(rows), b <= top
    PROVE  Telescopes(rows, b, top)
<1> DEFINE P == {n \in Nat : \A m \in WithAccum(rows) : b <= m /\ m - b <= n => Telescopes(rows, b, m)}
<1>0. \A d \in WithAccum(rows) : d \in Days /\ d \in Nat /\ rows[d].accum \in Int
  <2>1. WithAccum(rows) \in SUBSET Days
    BY DEF WithAccum
  <2>2. \A d \in WithAccum(rows) : d \in Nat
    BY <2>1, DaysFinite
  <2>3. \A d \in WithAccum(rows) : rows[d].accum \in Nat
    BY AccumIsStored
  <2> QED
    BY <2>1, <2>2, <2>3
<1>1. Telescopes(rows, b, b)
  <2>1. Stretch(rows, b, b) = {}
    BY <1>0 DEF Stretch
  <2> QED
    BY <1>0, <2>1, CompoundEmpty DEF Telescopes
<1>2. 0 \in P
  <2>1. \A m \in WithAccum(rows) : b <= m /\ m - b <= 0 => m = b
    BY <1>0
  <2> QED
    BY <1>1, <2>1
<1>3. ASSUME NEW n \in Nat, n \in P
      PROVE  n + 1 \in P
  <2> SUFFICES ASSUME NEW m \in WithAccum(rows), b <= m, m - b <= n + 1
               PROVE  Telescopes(rows, b, m)
    OBVIOUS
  <2>1. CASE m = b
    BY <1>1, <2>1
  <2>2. CASE m # b
    <3>1. b < m /\ m \in Nat /\ b \in Nat
      BY <1>0, <2>2
    <3>2. PICK e \in WithAccum(rows) :
              /\ b <= e /\ e < m /\ rows[m].pct = <<rows[m].accum, rows[e].accum>>
              /\ Stretch(rows, b, m) \ {m} = Stretch(rows, b, e)
      BY <3>1, Preceded
    <3>3. Telescopes(rows, b, e)
      <4>1. e - b <= n
        BY <1>0, <3>1, <3>2
      <4> QED
        BY <1>3, <3>2, <4>1
    <3> DEFINE S == Stretch(rows, b, m)
               T == Stretch(rows, b, e)
    <3>4. S \in SUBSET Days /\ T \in SUBSET Days /\ m \in S /\ S \ {m} = T
      <4>1. S \in SUBSET Days /\ T \in SUBSET Days
        BY <1>0 DEF Stretch
      <4>2. m \in S
        BY <3>1 DEF Stretch
      <4> HIDE DEF S, T
      <4> QED
        BY <3>2, <4>1, <4>2 DEF S, T
    <3>5. \A d \in S : rows[d].pct[1] \in Int /\ rows[d].pct[2] \in Int
      BY StretchWhole
    <3>6. \A d \in T : rows[d].pct[1] \in Int /\ rows[d].pct[2] \in Int
      BY StretchWhole
    <3> DEFINE x == Compound(rows, T, 1)
               y == Compound(rows, T, 2)
               u == rows[b].accum
               v == rows[e].accum
               w == rows[m].accum
    <3>7. x * u = y * v
      BY <3>3 DEF Telescopes
    <3> HIDE DEF S, T
    <3>8. Compound(rows, S, 1) = rows[m].pct[1] * x /\ Compound(rows, S, 2) = rows[m].pct[2] * y
      BY <3>4, <3>5, CompoundRemove
    <3>9. x \in Int /\ y \in Int
      BY <3>4, <3>6, CompoundRemove
    <3>10. rows[m].pct[1] = w /\ rows[m].pct[2] = v
      BY <3>2
    <3>11. u \in Int /\ v \in Int /\ w \in Int
      BY <1>0
    <3>12. Compound(rows, S, 1) = w * x /\ Compound(rows, S, 2) = v * y
      BY <3>8, <3>10
    <3>13. (w * x) * u = (v * y) * w
      <4> HIDE DEF x, y, u, v, w
      <4> QED
        BY <3>7, <3>9, <3>11, TelescopeStep
    <3>14. Compound(rows, S, 1) * u = Compound(rows, S, 2) * w
      <4> HIDE DEF x, y, u, v, w
      <4> QED
        BY <3>12, <3>13
    <3> QED
      BY <3>14 DEF S, Telescopes
  <2> QED
    BY <2>1, <2>2
<1>4. Nat \subseteq P
  <2> HIDE DEF P
  <2> QED
    BY <1>2, <1>3, NatInduct
<1>5. top - b \in P /\ top - b <= top - b
  BY <1>0, <1>4
<1> QED
  BY <1>5

LEMMA LinkedCompounds == Typed /\ LinkInv => ReturnsCompound
<1> SUFFICES ASSUME Typed, LinkInv, NEW p \in Products, client[p] = "tushare", ~loose[p],
                    NEW start \in Days, HasInterval(record[p], start)
             PROVE  LET rows == record[p]
                        after == {d \in WithAccum(rows) : d > IntervalBase(rows, start)}
                        whole == IntervalReturn(rows, start)
                    IN  /\ \A d \in after : rows[d].pct # NoPct
                        /\ Compound(rows, after, 1) * whole[2] = Compound(rows, after, 2) * whole[1]
  BY DEF ReturnsCompound
<1> DEFINE rows == record[p]
           b == IntervalBase(rows, start)
           top == Max(WithAccum(rows))
           after == {d \in WithAccum(rows) : d > b}
           whole == IntervalReturn(rows, start)
<1>1. rows \in [Days -> Row] /\ Linked(rows)
  BY DEF Typed, TablesTyped, LinkInv, ChangesLinked
<1> HIDE DEF rows
<1>2. WithAccum(rows) \in SUBSET Days /\ \A d \in WithAccum(rows) : d \in Nat
  <2>1. WithAccum(rows) \in SUBSET Days
    BY DEF WithAccum
  <2> QED
    BY <2>1, DaysFinite
<1>3. HasInterval(rows, start)
  BY DEF rows
<1>4. b \in WithAccum(rows)
  <2> DEFINE S == {d \in WithAccum(rows) : d >= start}
  <2>1. S \in SUBSET Days /\ S # {}
    BY <1>2, <1>3 DEF HasInterval
  <2>2. Min(S) \in S
    <3> HIDE DEF S
    <3> QED
      BY <2>1, DaysExtremes
  <2> QED
    BY <2>2 DEF IntervalBase
<1>5. top \in WithAccum(rows) /\ \A d \in WithAccum(rows) : d <= top
  BY <1>2, <1>4, DaysExtremes
<1>6. b < top
  BY <1>3 DEF HasInterval
<1>7. whole[1] = rows[top].accum /\ whole[2] = rows[b].accum
  BY DEF IntervalReturn
<1> HIDE DEF b, top, whole
<1>8. after = Stretch(rows, b, top)
  <2>1. \A d \in WithAccum(rows) : d > b <=> b < d /\ d <= top
    BY <1>2, <1>4, <1>5
  <2> QED
    BY <2>1 DEF Stretch
<1>9. Telescopes(rows, b, top)
  <2>1. b <= top
    BY <1>2, <1>4, <1>5
  <2> QED
    BY <1>1, <1>4, <1>5, <2>1, AllTelescope
<1>10. \A d \in after : rows[d].pct # NoPct
  BY <1>1, <1>4, <1>8, StretchWhole
<1>11. Compound(rows, after, 1) * whole[2] = Compound(rows, after, 2) * whole[1]
  BY <1>7, <1>8, <1>9 DEF Telescopes
<1> QED
  BY <1>10, <1>11 DEF rows, b, top, whole

-----------------------------------------------------------------------------
(* The window of the nightly run                                           *)

\* The nightly run is incremental; its window is that of the rows it has read, and
\* stored rows stay while their product does.
NavWindow ==
    LET nav == run["nav"]
    IN  /\ nav.status = "running" => nav.kind = "incremental"
        /\ nav.at \in exists =>
              nav.from = WindowStart(nav.view) /\ StoredDays(nav.view) \subseteq StoredDays(record[nav.at])

LEMMA UpsertKeepsRows ==
    ASSUME NEW p, NEW c, NEW view, NEW batch, NEW degraded
    PROVE  StoredDays(record[p]) \subseteq StoredDays(Upsert(p, c, view, batch, degraded))
BY DEF StoredDays, Upsert

\* A step of a run keeps what is stored.
LEMMA ProcessKeepsRows ==
    ASSUME Typed, NEW r \in Runs, Process(r), NEW p \in Products
    PROVE  StoredDays(record[p]) \subseteq StoredDays(record'[p])
<1>1. CASE record' = record
  BY <1>1
<1>2. CASE Store(r)
  <2> DEFINE q == run[r].at
             c == run[r].client
             batch == Fetched(run[r].seen, c, run[r].from, run[r].till)
             new == Upsert(q, c, run[r].view, batch, run[r].degraded)
  <2>2. record' = [record EXCEPT ![q] = new]
    BY <1>2 DEF Store
  <2>3. StoredDays(record[q]) \subseteq StoredDays(new)
    BY UpsertKeepsRows
  <2>4. p \in DOMAIN record
    BY DEF Typed, TablesTyped
  <2> HIDE DEF new, q
  <2> QED
    BY <2>2, <2>3, <2>4
<1> QED
  BY <1>1, <1>2 DEF Process, Open, OpenGone, Skip, Fetch, FetchAccum, FetchFails, WriteFails, End

LEMMA ProcessKeepsWindow ==
    ASSUME Typed, NavWindow, NEW r \in Runs, Process(r)
    PROVE  NavWindow'
<1>0. DOMAIN run = Runs /\ "nav" \in Runs /\ Nobody \notin exists /\ RunOK(run[r])
  BY NobodyAssumption DEF Typed, IInv, Runs
<1>1. exists' = exists
  BY DEF Process, Open, OpenGone, Skip, Fetch, FetchAccum, Store, FetchFails, WriteFails, End
<1>2. ASSUME NEW x, run' = [run EXCEPT ![r] = x], x.at \notin exists,
             x.status = "running" => run[r].status = "running" /\ x.kind = run[r].kind
      PROVE  NavWindow'
  <2>1. CASE r = "nav"
    <3>1. run'["nav"] = x
      BY <1>0, <1>2, <2>1
    <3> QED
      BY <1>1, <1>2, <2>1, <3>1 DEF NavWindow
  <2>2. CASE r # "nav"
    <3>1. run'["nav"] = run["nav"]
      BY <1>0, <1>2, <2>2
    <3>2. run["nav"].at \in exists => StoredDays(record[run["nav"].at]) \subseteq StoredDays(record'[run["nav"].at])
      BY ProcessKeepsRows DEF Typed, IInv
    <3> QED
      BY <1>1, <3>1, <3>2 DEF NavWindow
  <2> QED
    BY <2>1, <2>2
<1>3. ASSUME Succeed(r) \/ Miss(r)
      PROVE  NavWindow'
  <2> DEFINE done == [Closed(r) EXCEPT !.ok = @ \cup {run[r].at}]
             missed == [Closed(r) EXCEPT !.bad = @ \cup {run[r].at}]
  <2>1. done.at = Nobody /\ done.status = run[r].status /\ done.kind = run[r].kind
    BY <1>0 DEF RunOK, Fields, Closed
  <2>2. missed.at = Nobody /\ missed.status = run[r].status /\ missed.kind = run[r].kind
    BY <1>0 DEF RunOK, Fields, Closed
  <2>3. run' = [run EXCEPT ![r] = done] \/ run' = [run EXCEPT ![r] = missed]
    BY <1>3 DEF Succeed, Miss
  <2> HIDE DEF done, missed
  <2> QED
    BY <1>0, <1>2, <2>1, <2>2, <2>3
<1>4. ASSUME NEW p \in Products, Open(r, p)
      PROVE  NavWindow'
  <2> DEFINE from == IF run[r].kind = "incremental" THEN WindowStart(record[p]) ELSE run[r].from
             x == [run[r] EXCEPT !.at = p, !.todo = @ \ {p}, !.view = record[p],
                          !.client = client[p],
                          !.from = IF run[r].kind = "incremental"
                                      THEN WindowStart(record[p]) ELSE @]
  <2>1. x.at = p /\ x.view = record[p] /\ x.status = run[r].status /\ x.kind = run[r].kind /\ x.from = from
    BY <1>0 DEF RunOK, Fields
  <2>2. run' = [run EXCEPT ![r] = x] /\ record' = record
    BY <1>4 DEF Open
  <2>3. run[r].status = "running"
    BY <1>0, <1>4 DEF RunOK, Open
  <2> HIDE DEF x
  <2>4. CASE r = "nav"
    <3>1. run'["nav"] = x /\ run["nav"].kind = "incremental"
      BY <1>0, <2>2, <2>3, <2>4 DEF NavWindow
    <3> QED
      BY <2>1, <2>2, <2>4, <3>1 DEF NavWindow
  <2>5. CASE r # "nav"
    <3>1. run'["nav"] = run["nav"]
      BY <1>0, <2>2, <2>5
    <3> QED
      BY <1>1, <2>2, <3>1 DEF NavWindow
  <2> QED
    BY <2>4, <2>5
<1>5. ASSUME NEW s, s # "running", run' = [run EXCEPT ![r] = [Idle EXCEPT !.status = s]]
      PROVE  NavWindow'
  <2> DEFINE x == [Idle EXCEPT !.status = s]
  <2>1. x.at = Nobody /\ x.status = s
    BY DEF Idle
  <2>2. run' = [run EXCEPT ![r] = x]
    BY <1>5
  <2> HIDE DEF x
  <2> QED
    BY <1>0, <1>2, <1>5, <2>1, <2>2
<1>6. ASSUME NEW p \in Products, OpenGone(r, p)
      PROVE  NavWindow'
  BY <1>5, <1>6 DEF OpenGone
<1>7. CASE End(r)
  BY <1>5, <1>7 DEF End, Verdict
<1>8. CASE Skip(r) \/ Store(r) \/ FetchFails(r) \/ WriteFails(r)
  BY <1>3, <1>8 DEF Skip, Store, FetchFails, WriteFails
<1>9. CASE Fetch(r) \/ FetchAccum(r)
  <2>1. Asked(r)
    BY <1>9, FetchMoves DEF Typed
  <2>2. \A q \in Runs : /\ run'[q].at = run[q].at /\ run'[q].view = run[q].view /\ run'[q].from = run[q].from
                         /\ run'[q].status = run[q].status /\ run'[q].kind = run[q].kind
    BY <2>1 DEF Asked, Fields
  <2>3. record' = record
    BY <2>1 DEF Asked
  <2> QED
    BY <1>0, <1>1, <2>2, <2>3 DEF NavWindow
<1> QED
  BY <1>4, <1>6, <1>7, <1>8, <1>9 DEF Process

LEMMA NextKeepsWindow ==
    ASSUME Typed, NavWindow, [Next]_vars
    PROVE  NavWindow'
<1>0. DOMAIN run = Runs /\ "nav" \in Runs /\ "job" \in Runs /\ Nobody \notin exists
  BY NobodyAssumption DEF Typed, IInv, Runs
<1>1. ASSUME UNCHANGED <<run, record, exists>>
      PROVE  NavWindow'
  BY <1>1 DEF NavWindow
<1>2. CASE UNCHANGED vars \/ NewDay \/ Upstream \/ \E p \in Products, c \in Clients : SwitchSource(p, c)
  BY <1>1, <1>2 DEF vars, NewDay, Upstream, Publish, SwitchSource
<1>3. CASE \E r \in Runs : Process(r)
  BY <1>3, ProcessKeepsWindow
<1>4. CASE BeginNav
  <2>1. run'["nav"].at = Nobody /\ run'["nav"].kind = "incremental"
    BY <1>0, <1>4 DEF BeginNav, Idle
  <2> QED
    BY <1>0, <1>4, <2>1 DEF BeginNav, NavWindow
<1>5. CASE NewJob
  <2>1. run'["nav"] = run["nav"]
    BY <1>0, <1>5 DEF NewJob, BeginJob
  <2> QED
    BY <1>5, <2>1 DEF NewJob, BeginJob, NavWindow
<1>6. ASSUME NEW p \in Products, Vanish(p)
      PROVE  NavWindow'
  <2>1. /\ run' = run /\ exists' = exists \ {p}
        /\ \A q \in Products \ {p} : record'[q] = record[q]
    BY <1>6 DEF Vanish, Typed, TablesTyped
  <2> QED
    BY <2>1 DEF NavWindow, Typed, IInv
<1> QED
  BY <1>2, <1>3, <1>4, <1>5, <1>6 DEF Next

\* A day without a row that the window leaves out lies far behind.
LEMMA LeftOutIsFar ==
    ASSUME NEW rows, NEW d \in OpenDays, d \notin StoredDays(rows), d < WindowStart(rows)
    PROVE  Behind(rows, d) > Lookback
<1> DEFINE before == {e \in OpenDays : e < Latest(rows)}
           reached == {e \in before : Cardinality({f \in before : f >= e}) <= Lookback}
<1>0. OpenDays \in SUBSET Days /\ StoredDays(rows) \in SUBSET Days /\ d \in Nat /\ d >= 1 /\ Lookback \in Nat
  BY DayAssumption, BoundAssumption DEF StoredDays, Days
<1>1. StoredDays(rows) # {}
  BY <1>0 DEF WindowStart
<1>2. Latest(rows) \in StoredDays(rows) /\ Latest(rows) \in Nat /\ d # Latest(rows)
  <2>1. Latest(rows) \in StoredDays(rows)
    BY <1>0, <1>1, DaysExtremes DEF Latest
  <2> QED
    BY <1>0, <2>1, DaysFinite
<1>3. CASE before = {}
  <2>1. WindowStart(rows) = Latest(rows) + 1
    BY <1>1, <1>3 DEF WindowStart
  <2>2. d < Latest(rows)
    BY <1>0, <1>2, <2>1
  <2> QED
    BY <1>3, <2>2
<1>4. CASE before # {}
  <2>1. WindowStart(rows) = Min(reached)
    BY <1>1, <1>4 DEF WindowStart
  <2>2. before \in SUBSET Days /\ reached \in SUBSET Days
    BY <1>0
  <2>3. PICK m \in reached : TRUE
    <3>1. PICK m \in before : \A x \in before : x <= m
      <4> HIDE DEF before
      <4> QED
        BY <1>4, <2>2, DaysExtremes
    <3>2. {e \in before : e >= m} = {m}
      <4>1. \A x \in before : x >= m => x = m
        BY <2>2, <3>1, DaysFinite
      <4>2. m >= m
        BY <2>2, <3>1, DaysFinite
      <4> HIDE DEF before
      <4> QED
        BY <3>1, <4>1, <4>2
    <3>3. Cardinality({m}) = 1
      BY FS_Singleton
    <3>4. 1 <= Lookback
      BY BoundAssumption
    <3>5. m \in reached
      <4> HIDE DEF before
      <4> QED
        BY <3>1, <3>2, <3>3, <3>4
    <3> QED
      BY <3>5
  <2>4. Min(reached) \in reached /\ \A x \in reached : Min(reached) <= x
    <3> HIDE DEF reached
    <3> QED
      BY <2>2, <2>3, DaysExtremes
  <2>5. Min(reached) \in Nat /\ Min(reached) < Latest(rows)
    <3>1. Min(reached) \in Nat
      <4> HIDE DEF reached
      <4> QED
        BY <2>2, <2>4, DaysFinite
    <3>2. \A x \in reached : x < Latest(rows)
      OBVIOUS
    <3> HIDE DEF reached
    <3> QED
      BY <2>4, <3>1, <3>2
  <2>6. d < Latest(rows) /\ ~(Min(reached) <= d)
    <3> HIDE DEF reached
    <3> QED
      BY <1>0, <1>2, <2>1, <2>5
  <2>7. d \in before
    BY <2>6
  <2>8. d \notin reached
    <3> HIDE DEF reached
    <3> QED
      BY <2>4, <2>6
  <2> DEFINE after == {f \in before : f >= d}
  <2>9. ~(Cardinality(after) <= Lookback)
    <3> HIDE DEF before
    <3> QED
      BY <2>7, <2>8
  <2>10. after = {e \in OpenDays : d <= e /\ e < Latest(rows)}
    <3>1. \A e \in OpenDays : e >= d <=> d <= e
      BY <1>0, DaysFinite
    <3> QED
      BY <3>1
  <2>11. Cardinality(after) \in Nat
    <3>1. IsFiniteSet(after)
      <4>1. after \in SUBSET Days
        BY <2>2
      <4> HIDE DEF after
      <4> QED
        BY <4>1, DaysFinite
    <3> QED
      BY <3>1, FS_CardinalityType
  <2>12. Behind(rows, d) = Cardinality(after)
    BY <2>10 DEF Behind
  <2> HIDE DEF after
  <2> QED
    BY <1>0, <2>9, <2>11, <2>12
<1> QED
  BY <1>3, <1>4

StoresLate ==
    \A p \in Products :
        run["nav"].at = p /\ p \in run'["nav"].ok /\ run["nav"].client # "none" =>
            \A d \in MissingDates(record'[p], 1, run["nav"].till) :
               run["nav"].seen[d].priced => Behind(run["nav"].view, d) > Lookback

LEMMA NavStores ==
    ASSUME Typed, NavWindow, Store("nav"), NEW p \in Products, p = run["nav"].at,
           NEW d \in MissingDates(record'[p], 1, run["nav"].till), run["nav"].seen[d].priced
    PROVE  Behind(run["nav"].view, d) > Lookback
<1> DEFINE nav == run["nav"]
           c == nav.client
           from == nav.from
           till == nav.till
<1>0. /\ "nav" \in Runs /\ RunTyped(nav) /\ p \in exists
      /\ from = WindowStart(nav.view) /\ StoredDays(nav.view) \subseteq StoredDays(record[p])
  BY DEF Typed, Runs, NavWindow, Store
<1> DEFINE seen == nav.seen
           batch == Fetched(seen, c, from, till)
           new == Upsert(p, c, nav.view, batch, nav.degraded)
<1>1. record' = [record EXCEPT ![p] = new]
  BY DEF Store
<1>2. record'[p] = new
  <2>1. p \in DOMAIN record
    BY DEF Typed, TablesTyped
  <2>2. record' = [record EXCEPT ![p] = new]
    BY <1>1
  <2> HIDE DEF new
  <2> QED
    BY <2>1, <2>2
<1>3. d \in OpenDays /\ d \in 1..till /\ d \notin StoredDays(new) /\ d \in Days
  BY <1>2, DayAssumption DEF MissingDates
<1>4. d \notin StoredDays(nav.view)
  <2>1. StoredDays(record[p]) \subseteq StoredDays(new)
    BY UpsertKeepsRows
  <2> HIDE DEF new
  <2> QED
    BY <1>0, <1>3, <2>1
<1>5. d \in Nat /\ from \in Nat /\ till \in Nat
  BY <1>0, <1>3, DayAssumption DEF RunTyped, Days
<1>6. d < from
  <2> SUFFICES ASSUME d >= from PROVE FALSE
    BY <1>5
  <2>1. seen[d].shown
    <3>1. seen[d] \in SourceRow
      BY <1>0, <1>3 DEF RunTyped
    <3>2. seen[d] # Unpublished
      BY DEF Unpublished
    <3>3. seen[d] \in [shown : {TRUE}, priced : BOOLEAN, accum : Navs \cup {NoNav}]
      BY <3>1, <3>2 DEF SourceRow
    <3> QED
      BY <3>3
  <2>2. d \in from..till
    <3> HIDE DEF from, till
    <3> QED
      BY <1>3, <1>5
  <2>5. seen[d].priced
    OBVIOUS
  <2>3. d \in FetchedDays(seen, c, from, till)
    <3> HIDE DEF from, till, c, seen
    <3> QED
      BY <2>1, <2>2, <2>5 DEF FetchedDays
  <2>4. d \in DOMAIN batch /\ batch[d].priced
    BY <2>3, <2>5 DEF Fetched
  <2>6. new[d].stored
    <3> HIDE DEF batch
    <3> QED
      BY <1>3, <2>4 DEF Upsert
  <2> HIDE DEF new
  <2> QED
    BY <1>3, <2>6 DEF StoredDays
<1> QED
  BY <1>0, <1>3, <1>4, <1>6, LeftOutIsFar

LEMMA NextStoresLate ==
    ASSUME Typed, NavWindow, [Next]_vars
    PROVE  StoresLate
<1> SUFFICES ASSUME NEW p \in Products, run["nav"].at = p, p \in run'["nav"].ok,
                    run["nav"].client # "none",
                    NEW d \in MissingDates(record'[p], 1, run["nav"].till), run["nav"].seen[d].priced
             PROVE  Behind(run["nav"].view, d) > Lookback
  BY DEF StoresLate
<1>0. /\ DOMAIN run = Runs /\ "nav" \in Runs /\ RunOK(run["nav"]) /\ p # Nobody
      /\ Doing(run["nav"]) = {p}
  BY NobodyAssumption DEF Typed, IInv, Runs, Doing
<1>1. run["nav"].status = "running" /\ p \notin run["nav"].ok
  BY <1>0 DEF RunOK, Accounted
<1>2. run'["nav"] # run["nav"]
  BY <1>1
<1>3. Process("nav")
  <2>1. ASSUME NEW r \in Runs, Process(r)
        PROVE  r = "nav"
    <3>1. r # "nav" => run'["nav"] = run["nav"]
      BY <1>0, <2>1 DEF Process, Open, OpenGone, Skip, Fetch, FetchAccum, Store, FetchFails, WriteFails, End,
                        Succeed, Miss
    <3> QED
      BY <1>2, <3>1
  <2>2. ~BeginNav
    BY <1>1 DEF BeginNav
  <2>3. ~NewJob
    BY <1>0, <1>2 DEF NewJob, BeginJob
  <2>4. run' # run
    BY <1>2
  <2> QED
    BY <2>1, <2>2, <2>3, <2>4 DEF Next, vars, NewDay, Upstream, Publish, Vanish, SwitchSource
<1>4. ~Skip("nav")
  BY DEF Skip
<1>5. ~(FetchFails("nav") \/ WriteFails("nav"))
  <2>1. [Closed("nav") EXCEPT !.bad = @ \cup {p}].ok = run["nav"].ok
    BY <1>0 DEF RunOK, Fields, Closed
  <2>2. ~Miss("nav")
    BY <1>0, <1>1, <2>1 DEF Miss
  <2> QED
    BY <2>2 DEF FetchFails, WriteFails
<1>7. ~(Fetch("nav") \/ FetchAccum("nav"))
  <2> SUFFICES ASSUME Fetch("nav") \/ FetchAccum("nav") PROVE FALSE
    OBVIOUS
  <2>1. run'["nav"].ok = run["nav"].ok
    BY <1>0, FetchMoves DEF Asked, Fields, Typed
  <2> QED
    BY <1>1, <2>1
<1>6. Store("nav")
  BY <1>0, <1>3, <1>4, <1>5, <1>7 DEF Process, Open, OpenGone, End
<1> QED
  BY <1>6, NavStores

LEMMA InitWindow == Init => NavWindow
BY NobodyAssumption DEF Init, NavWindow, Idle, Runs

-----------------------------------------------------------------------------
(* Theorems                                                                *)

\* Runs in progress have each product in one place (sync_nav_data, run_nav_sync).
THEOREM PriceInvariant == Spec => []IInv
<1>1. IInv /\ [Next]_vars => IInv'
  BY NextKeeps DEF Good
<1> QED BY InitHolds, <1>1, PTL DEF Spec

\* A run that ended accounts for each product once and its verdict is true.
THEOREM ReportsAlwaysTrue == Spec => ReportTrue
<1>1. IInv /\ [Next]_vars => [\A r \in Runs : TrueReport(r)]_vars
  BY NextKeeps DEF Good
<1> QED BY PriceInvariant, <1>1, PTL DEF Spec, ReportTrue, TrueReport

\* No failed fetch and no batch that lost its accumulated values erases one: it only
\* disappears with its product, or under a run that was shown none for that day when
\* it asked, however long ago (_bulk_upsert_prices).
THEOREM ValuesAlwaysKept == Spec => AccumKept
<1>1. IInv /\ [Next]_vars => [KeepsAccum]_vars
  BY NextKeeps DEF Good
<1> QED BY PriceInvariant, <1>1, PTL DEF Spec, AccumKept, KeepsAccum

\* Rows are stored with usable values or none, and every window lies in the calendar.
THEOREM PriceSyncTypeCorrect == Spec => []TypeOK
<1> QED BY InitTyped, NextTyped, TypedIsTypeOK, PTL DEF Spec

\* Rows stay typed and changes linked.
THEOREM ChangesAlwaysLinked == Spec => [](Typed /\ LinkInv)
<1> QED BY InitTyped, InitLinks, NextTyped, NextLinks, PTL DEF Spec

\* The daily changes of a product compound to its return over any period, as long as
\* nothing happened that may leave a change that does not fit (_derive_otc_pct_change).
THEOREM ReturnsAlwaysCompound == Spec => []ReturnsCompound
<1> QED BY ChangesAlwaysLinked, LinkedCompounds, PTL

\* A price published late, behind stored ones, is stored by the next nightly run that
\* is shown it and succeeds for its product, unless more than Lookback trading days
\* lie between it and the latest price the run knew (resolve_incremental_start_date).
THEOREM LateNavsAreStored == Spec => LateNavStored
<1>1. Typed /\ NavWindow /\ [Next]_vars => Typed' /\ NavWindow' /\ [StoresLate]_vars
  BY NextTyped, NextKeepsWindow, NextStoresLate
<1> QED BY InitTyped, InitWindow, <1>1, PTL DEF Spec, LateNavStored, StoresLate
=============================================================================
