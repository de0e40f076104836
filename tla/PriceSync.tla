----------------------------- MODULE PriceSync -----------------------------
(***************************************************************************)
(* Net asset values of products, copied day by day from their data source  *)
(* into price_record by the nightly nav_sync, by price jobs and by single  *)
(* requests.  The source publishes late, out of order and revises what it  *)
(* published; a fetch may fail or lose the accumulated values.  Runs work  *)
(* product by product, each product a transaction whose reads are those of *)
(* its first statement; it then asks the source, in one request or in two, *)
(* and its upsert meets what is stored by the time the answer is there.    *)
(***************************************************************************)
EXTENDS Integers, FiniteSets, FiniteSetsExt

CONSTANTS
    Products,
    Quoted,         \* bound: the products whose source changes in what it shows
    FirstClients,   \* bound: the data sources these products start with
    LastDay,        \* bound on the calendar, which starts with day 1
    OpenDays,       \* the trading days
    Requests,       \* bound: the jobs and requests there may be
    Lookback,       \* NAV_LOOKBACK_TRADING_DAYS, 10 in the code
    Navs,           \* accumulated values, all usable
    MaxChanges,     \* bound on changes of the sources and of the products
    MaxJobs,        \* bound on jobs and requests
    MaxFaults       \* bound on failing fetches and writes

Days == 1..LastDay

ASSUME DayAssumption == LastDay \in Nat \ {0, 1} /\ OpenDays \subseteq Days /\ 1 \in OpenDays
ASSUME RequestAssumption ==
    Requests \subseteq [kind : {"incremental", "history"}, asked : SUBSET Products,
                        from : Days, till : Days]
ASSUME BoundAssumption ==
    /\ Quoted \subseteq Products /\ Lookback \in Nat \ {0}
    /\ Navs \subseteq Nat \ {0} /\ Navs # {}
    /\ MaxChanges \in Nat /\ MaxJobs \in Nat /\ MaxFaults \in Nat

VARIABLES
    today,
    source,     \* what the source of each product shows of each day
    exists,     \* the products there are
    client,     \* data_source of each product
    record,     \* price_record: the stored row of each product and day
    run,        \* the nightly run and the price job
    changes, jobs, faults,
    loose      \* history: why the changes of a product may not match its values

vars == <<today, source, exists, client, record, run, changes, jobs, faults, loose>>

NoNav == 0          \* NULL, or a value _usable_nav refuses
NoRow == [stored |-> FALSE, accum |-> NoNav, pct |-> <<>>]
NoPct == <<>>
\* pct_change as the quotient it is computed from
Row == {NoRow} \cup [stored : {TRUE}, accum : Navs \cup {NoNav}, pct : {NoPct} \cup (Navs \X Navs)]

\* a published row may lack its unit price or its accumulated value
Unpublished == [shown |-> FALSE, priced |-> FALSE, accum |-> NoNav]
SourceRow == {Unpublished} \cup [shown : {TRUE}, priced : BOOLEAN, accum : Navs \cup {NoNav}]

Nobody == "nobody"
ASSUME NobodyAssumption == Nobody \notin Products
Clients == {"tushare", "akshare", "none"}
Idle == [kind |-> "none", client |-> "none", from |-> 1, till |-> 1, asked |-> {}, todo |-> {}, at |-> Nobody,
         view |-> [d \in Days |-> NoRow], seen |-> [d \in Days |-> Unpublished], got |-> "nothing",
         degraded |-> FALSE, ok |-> {}, bad |-> {}, missed |-> {}, status |-> "idle"]

-----------------------------------------------------------------------------
(* What is stored of a product, and what the read side makes of it         *)

StoredDays(rows) == {d \in Days : rows[d].stored}
WithAccum(rows) == {d \in Days : rows[d].accum # NoNav}
Latest(rows) == Max(StoredDays(rows))

\* get_nav_coverage: the open days of a period without a price
MissingDates(rows, from, till) == (OpenDays \cap from..till) \ StoredDays(rows)

\* get_nav_analysis: accumulated values unless less than half of the days have one
NavBasis(rows) ==
    IF 2 * Cardinality(WithAccum(rows)) < Cardinality(StoredDays(rows)) THEN "unit"
    ELSE "accumulated"

\* _nav_interval_return, as a quotient, over accumulated values
IntervalBase(rows, start) == Min({d \in WithAccum(rows) : d >= start})
HasInterval(rows, start) ==
    /\ WithAccum(rows) # {} /\ Min(WithAccum(rows)) <= start
    /\ \E d \in WithAccum(rows) : d >= start
    /\ IntervalBase(rows, start) < Max(WithAccum(rows))
IntervalReturn(rows, start) ==
    <<rows[Max(WithAccum(rows))].accum, rows[IntervalBase(rows, start)].accum>>

-----------------------------------------------------------------------------
(* One product of a run                                                    *)

\* Mutant: the window starts after the latest stored day
WindowAfterLatest(rows) ==
    IF StoredDays(rows) = {} THEN 1 ELSE Latest(rows) + 1

\* resolve_incremental_start_date: from the open day Lookback steps before the
\* latest price, or the earliest there is; everything if there is no price
WindowStart(rows) ==
    IF StoredDays(rows) = {} THEN 1
    ELSE LET before == {d \in OpenDays : d < Latest(rows)}
             reached == {d \in before : Cardinality({e \in before : e >= d}) <= Lookback}
         IN  IF before = {} THEN Latest(rows) + 1 ELSE Min(reached)

\* the rows a client returns of what the source showed it: akshare drops what it
\* cannot parse
FetchedDays(seen, c, from, till) ==
    {d \in from..till : seen[d].shown /\ (c = "akshare" => seen[d].priced)}
Fetched(seen, c, from, till) ==
    [d \in FetchedDays(seen, c, from, till) |->
        [priced |-> seen[d].priced, accum |-> seen[d].accum]]

\* akshare takes a response of which nothing is left for a failure, if any row of
\* the history is unreadable, or if there is no history at all
Unreadable(shows, c, from, till) ==
    /\ c = "akshare" /\ FetchedDays(shows, c, from, till) = {}
    /\ \/ \E d \in Days : shows[d].shown /\ ~shows[d].priced
       \/ from = 1 /\ \A d \in Days : ~shows[d].shown

\* Mutant: the change of the first row of a batch is left out
ChangeWithinBatch(view, batch, d) ==
    LET usable == {e \in DOMAIN batch : batch[e].accum # NoNav}
        before == {e \in usable : e < d}
    IN  IF before # {} /\ d \in usable THEN <<batch[d].accum, batch[Max(before)].accum>> ELSE NoPct

\* Mutant: a first value is divided by nothing
ChangeFromNothing(view, batch, d) ==
    LET usable == {e \in DOMAIN batch : batch[e].accum # NoNav}
        before == {e \in usable : e < d}
    IN  IF d \notin usable THEN NoPct
        ELSE <<batch[d].accum, IF before = {} THEN NoNav ELSE batch[Max(before)].accum>>

\* _derive_otc_pct_change: against the value before it in the batch, the first one
\* against the last stored before the batch
Change(view, batch, d) ==
    LET usable == {e \in DOMAIN batch : batch[e].accum # NoNav}
        before == {e \in usable : e < d}
        stored == {e \in WithAccum(view) : e < Min(DOMAIN batch)}
    IN  IF d \notin usable THEN NoPct
        ELSE IF before # {} THEN <<batch[d].accum, batch[Max(before)].accum>>
        ELSE IF stored # {} THEN <<batch[d].accum, view[Max(stored)].accum>>
        ELSE NoPct

\* Mutant: a batch without accumulated values overwrites the stored ones
UpsertAll(p, c, view, batch, degraded) ==
    [d \in Days |->
        IF d \in DOMAIN batch /\ batch[d].priced
        THEN [stored |-> TRUE, accum |-> batch[d].accum,
              pct |-> IF c = "tushare" THEN Change(view, batch, d) ELSE NoPct]
        ELSE record[p][d]]

\* _bulk_upsert_prices: rows without a price are left out; a missing accumulated
\* value replaces the stored one, but not when the whole batch lost them.  The
\* change akshare passes on is not told apart.
Upsert(p, c, view, batch, degraded) ==
    [d \in Days |->
        IF d \in DOMAIN batch /\ batch[d].priced
        THEN [stored |-> TRUE,
              accum |-> IF degraded THEN record[p][d].accum ELSE batch[d].accum,
              pct |-> IF c = "tushare" THEN Change(view, batch, d) ELSE NoPct]
        ELSE record[p][d]]

\* what may leave a change that does not fit: a window that ends before the latest
\* stored day, rows that changed since they were read, rows of the batch left out
Loosens(p, view, batch, till) ==
    \/ StoredDays(record[p]) # {} /\ till < Latest(record[p])
    \/ view # record[p]
    \/ \E d \in DOMAIN batch : ~batch[d].priced

\* the first statement of a product's transaction
Open(r, p) ==
    /\ run[r].at = Nobody /\ p \in run[r].todo /\ p \in exists
    /\ run' = [run EXCEPT ![r].at = p, ![r].todo = @ \ {p}, ![r].view = record[p],
                          ![r].client = client[p],
                          ![r].from = IF run[r].kind = "incremental"
                                      THEN WindowStart(record[p]) ELSE @]
    /\ UNCHANGED <<today, source, exists, client, record, changes, jobs, faults, loose>>

\* reading a product that is gone fails, and so does reporting the failure
OpenGone(r, p) ==
    /\ run[r].at = Nobody /\ p \in run[r].todo /\ p \notin exists
    /\ run' = [run EXCEPT ![r] = [Idle EXCEPT !.status = "failed"]]
    /\ UNCHANGED <<today, source, exists, client, record, changes, jobs, faults, loose>>

\* a detail row for the product, and its counter
Closed(r) ==
    [run[r] EXCEPT !.at = Nobody, !.view = Idle.view, !.client = "none",
                   !.seen = Idle.seen, !.got = Idle.got, !.degraded = Idle.degraded]
Succeed(r) == run' = [run EXCEPT ![r] = [Closed(r) EXCEPT !.ok = @ \cup {run[r].at}]]
Miss(r) == run' = [run EXCEPT ![r] = [Closed(r) EXCEPT !.bad = @ \cup {run[r].at}]]

Skip(r) ==
    LET p == run[r].at
    IN  /\ p \in exists /\ run[r].client = "none"
        /\ Succeed(r)
        /\ UNCHANGED <<today, source, exists, client, record, changes, jobs, faults, loose>>

UnitsOf(shows) == [d \in Days |-> [shows[d] EXCEPT !.accum = NoNav]]
Completed(units, shows) ==
    [d \in Days |-> [units[d] EXCEPT !.accum = IF units[d].shown THEN shows[d].accum ELSE NoNav]]

\* the request for the rows, which for akshare lack the accumulated values
Fetch(r) ==
    LET p == run[r].at
        c == run[r].client
    IN  /\ p # Nobody /\ c # "none" /\ run[r].got = "nothing"
        /\ ~Unreadable(source[p], c, run[r].from, run[r].till)
        /\ run' = [run EXCEPT ![r].seen = IF c = "akshare" THEN UnitsOf(source[p]) ELSE source[p],
                              ![r].got = IF c = "akshare" THEN "units" ELSE "all"]
        /\ UNCHANGED <<today, source, exists, client, record, changes, jobs, faults, loose>>

\* _fetch_otc_accum_map, a second request: it may lose the values of a whole batch
FetchAccum(r) ==
    LET p == run[r].at
    IN  /\ p # Nobody /\ run[r].got = "units"
        /\ \E degraded \in BOOLEAN :
              run' = [run EXCEPT ![r].seen = IF degraded THEN @ ELSE Completed(@, source[p]),
                                 ![r].got = "all", ![r].degraded = degraded]
        /\ UNCHANGED <<today, source, exists, client, record, changes, jobs, faults, loose>>

\* the upsert of what was fetched, whatever is stored or shown by now
Store(r) ==
    LET p == run[r].at
        c == run[r].client
        batch == Fetched(run[r].seen, c, run[r].from, run[r].till)
    IN  /\ p \in exists /\ run[r].got = "all"
        /\ record' = [record EXCEPT ![p] = Upsert(p, c, run[r].view, batch, run[r].degraded)]
        /\ loose' = [loose EXCEPT ![p] = @ \/ Loosens(p, run[r].view, batch, run[r].till)]
        /\ Succeed(r)
        /\ UNCHANGED <<today, source, exists, client, changes, jobs, faults>>

FetchFails(r) ==
    LET p == run[r].at
    IN  /\ p \in exists /\ run[r].client # "none" /\ run[r].got = "nothing"
        /\ \/ Unreadable(source[p], run[r].client, run[r].from, run[r].till) /\ UNCHANGED faults
           \/ faults < MaxFaults /\ faults' = faults + 1
        /\ Miss(r)
        /\ UNCHANGED <<today, source, exists, client, record, changes, jobs, loose>>

\* the upsert fails, for want of its product or on its own: nothing is stored
WriteFails(r) ==
    /\ run[r].at # Nobody
    /\ \/ run[r].at \notin exists /\ UNCHANGED faults
       \/ faults < MaxFaults /\ faults' = faults + 1
    /\ Miss(r)
    /\ UNCHANGED <<today, source, exists, client, record, changes, jobs, loose>>

-----------------------------------------------------------------------------
(* Runs                                                                    *)

\* products of run_nav_sync and of scope "all": those with a known source
Syncable == {p \in exists : client[p] # "none"}

BeginNav ==
    /\ run["nav"].status # "running" /\ today > 1 /\ Syncable # {}
    /\ run' = [run EXCEPT !["nav"] = [Idle EXCEPT
                  !.kind = "incremental", !.till = today - 1, !.status = "running",
                  !.asked = Syncable, !.todo = Syncable]]
    /\ UNCHANGED <<today, source, exists, client, record, changes, jobs, faults, loose>>

\* a price job for products it names, some perhaps unknown, or a single request
BeginJob(job) ==
    /\ run["job"].status # "running" /\ jobs < MaxJobs /\ jobs' = jobs + 1
    /\ job.kind = "incremental" => today > 1
    /\ run' = [run EXCEPT !["job"] = [Idle EXCEPT
                  !.kind = job.kind, !.from = job.from,
                  !.till = IF job.kind = "incremental" THEN today - 1 ELSE job.till,
                  !.asked = job.asked, !.todo = job.asked \cap exists,
                  !.missed = job.asked \ exists,
                  !.status = IF job.asked \cap exists = {} THEN "failed" ELSE "running"]]
    /\ UNCHANGED <<today, source, exists, client, record, changes, faults, loose>>

\* Mutant: a job with one success is a success
VerdictBySuccess(r) ==
    IF run[r].ok # {} THEN "success" ELSE "failed"

\* a job tells partial from failed, the nightly run does not
Verdict(r) ==
    IF run[r].bad = {} THEN "success"
    ELSE IF r = "nav" \/ run[r].ok # {} THEN "partial" ELSE "failed"

End(r) ==
    /\ run[r].status = "running" /\ run[r].at = Nobody /\ run[r].todo = {}
    /\ run' = [run EXCEPT ![r] = [Idle EXCEPT !.status = Verdict(r)]]
    /\ UNCHANGED <<today, source, exists, client, record, changes, jobs, faults, loose>>

-----------------------------------------------------------------------------
(* Around the runs                                                         *)

NewDay ==
    /\ today < LastDay /\ today' = today + 1
    /\ UNCHANGED <<source, exists, client, record, run, changes, jobs, faults, loose>>

Publish(p, d, row) ==
    /\ changes < MaxChanges /\ changes' = changes + 1
    /\ p \in Quoted /\ d <= today /\ row # source[p][d]
    /\ source' = [source EXCEPT ![p][d] = row]
    /\ UNCHANGED <<today, exists, client, record, run, jobs, faults, loose>>

\* update_product: another data source
SwitchSource(p, c) ==
    /\ changes < MaxChanges /\ changes' = changes + 1
    /\ p \in exists \cap Quoted /\ c # client[p]
    /\ client' = [client EXCEPT ![p] = c]
    /\ loose' = [loose EXCEPT ![p] = TRUE]
    /\ UNCHANGED <<today, source, exists, record, run, jobs, faults>>

\* a product is deleted, or its market, part of its key, is changed and its prices
\* move with it
Vanish(p) ==
    /\ changes < MaxChanges /\ changes' = changes + 1
    /\ p \in exists /\ exists' = exists \ {p}
    /\ record' = [record EXCEPT ![p] = [d \in Days |-> NoRow]]
    /\ loose' = [loose EXCEPT ![p] = FALSE]
    /\ UNCHANGED <<today, source, client, run, jobs, faults>>

Runs == {"nav", "job"}

\* day 1 is published and stored
Init ==
    /\ today = 2 /\ exists = Products
    /\ LET first == CHOOSE n \in Navs : TRUE
       IN /\ source = [p \in Products |-> [d \in Days |->
                IF d = 1 THEN [shown |-> TRUE, priced |-> TRUE, accum |-> first]
                ELSE Unpublished]]
          /\ record = [p \in Products |-> [d \in Days |->
                IF d = 1 THEN [stored |-> TRUE, accum |-> first, pct |-> NoPct] ELSE NoRow]]
    /\ client \in [Products -> Clients]
    /\ \A p \in Products : client[p] \in IF p \in Quoted THEN FirstClients ELSE {"none"}
    /\ run = [r \in Runs |-> Idle]
    /\ changes = 0 /\ jobs = 0 /\ faults = 0
    /\ loose = [p \in Products |-> FALSE]

Process(r) ==
    \/ \E p \in Products : Open(r, p) \/ OpenGone(r, p)
    \/ Skip(r) \/ Fetch(r) \/ FetchAccum(r) \/ Store(r) \/ FetchFails(r) \/ WriteFails(r) \/ End(r)

NewJob == \E job \in Requests : BeginJob(job)

Upstream ==
    \E p \in Products, d \in OpenDays, row \in SourceRow \ {Unpublished} : Publish(p, d, row)

Next ==
    \/ \E r \in Runs : Process(r)
    \/ BeginNav \/ NewJob \/ NewDay \/ Upstream
    \/ \E p \in Products : Vanish(p) \/ \E c \in Clients : SwitchSource(p, c)

Spec == Init /\ [][Next]_vars

-----------------------------------------------------------------------------
(* Properties                                                              *)

\* Rows are stored with usable values or none, and a change only where there is a
\* usable value to divide by.
TypeOK ==
    /\ today \in Days /\ exists \subseteq Products
    /\ source \in [Products -> [Days -> SourceRow]]
    /\ client \in [Products -> Clients]
    /\ record \in [Products -> [Days -> Row]]
    /\ \A r \in Runs :
          /\ run[r].kind \in {"none", "incremental", "history"}
          /\ run[r].client \in Clients
          /\ run[r].from \in 1..LastDay + 1 /\ run[r].till \in Days
          /\ run[r].at \in Products \cup {Nobody}
          /\ run[r].view \in [Days -> Row] /\ run[r].seen \in [Days -> SourceRow]
          /\ run[r].got \in {"nothing", "units", "all"} /\ run[r].degraded \in BOOLEAN
          /\ run[r].status \in {"idle", "running", "success", "partial", "failed"}
          /\ UNION {run[r].asked, run[r].todo, run[r].ok, run[r].bad, run[r].missed}
                \subseteq Products
    /\ changes \in 0..MaxChanges /\ jobs \in 0..MaxJobs /\ faults \in 0..MaxFaults
    /\ loose \in [Products -> BOOLEAN]

\* The daily changes of a product compound to its return over any period: both
\* come from accumulated values, one batch by batch when they are stored, the
\* other when it is asked for (_derive_otc_pct_change).  Only a window that ends
\* before the latest price, a run that overlaps another or a row without a price
\* leaves a change that does not fit.
Compound(rows, S, i) == FoldFunctionOnSet(LAMBDA x, y : x * y, 1, [d \in S |-> rows[d].pct[i]], S)
ReturnsCompound ==
    \A p \in Products : client[p] = "tushare" /\ NavBasis(record[p]) = "accumulated" /\ ~loose[p] =>
        \A start \in Days : HasInterval(record[p], start) =>
            LET rows == record[p]
                after == {d \in WithAccum(rows) : d > IntervalBase(rows, start)}
                whole == IntervalReturn(rows, start)
            IN  /\ \A d \in after : rows[d].pct # NoPct
                /\ Compound(rows, after, 1) * whole[2] = Compound(rows, after, 2) * whole[1]

\* A stored accumulated value only disappears with its product, or under a run
\* that was shown none for that day when it asked the source: no failed fetch and
\* no batch that lost its accumulated values erases it.  (A run that another one
\* overtakes may so erase a value that was published after it asked.)
AccumKept ==
    [][\A p \in Products, d \in Days :
          record[p][d].accum # NoNav /\ record'[p][d].accum = NoNav =>
            \/ p \notin exists'
            \/ \E r \in Runs : /\ run[r].at = p /\ p \in run'[r].ok
                               /\ ~run[r].degraded /\ run[r].seen[d].accum = NoNav]_vars

\* A price published late, behind prices already stored, reaches the store with the
\* next nightly run that is shown it and succeeds for its product, as long as no more
\* than Lookback trading days lie between it and the latest price the run knew; a job
\* may run beside it
\* (business-constraints, the incremental window).
Behind(rows, d) == Cardinality({e \in OpenDays : d <= e /\ e < Latest(rows)})
LateNavStored ==
    [][\A p \in Products :
          run["nav"].at = p /\ p \in run'["nav"].ok /\ run["nav"].client # "none" =>
            \A d \in MissingDates(record'[p], 1, run["nav"].till) :
               run["nav"].seen[d].priced => Behind(run["nav"].view, d) > Lookback]_vars

\* A run that ended accounts for each product it was asked for once, whatever
\* failed or disappeared on the way; success means all of them, and only a product
\* that disappeared makes a run fail that stored something.
ReportTrue ==
    [][\A r \in Runs : run[r].status = "running" /\ run'[r].status # "running" =>
          LET ok == run[r].ok
              bad == run[r].bad
              verdict == run'[r].status
          IN  /\ ok \cap bad = {}
              /\ verdict \in {"success", "partial"} => UNION {ok, bad, run[r].missed} = run[r].asked
              /\ verdict = "success" => bad = {}
              /\ verdict = "failed" /\ run[r].asked \subseteq exists => ok = {}]_vars
=============================================================================
