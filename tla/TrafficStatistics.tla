------------------------- MODULE TrafficStatistics -------------------------
(***************************************************************************)
(* What the server and the statistics page compute from the retained       *)
(* records: the aggregates and their breakdown by tunnel, the time series  *)
(* and the insights drawn from it, and a request's estimated timeline.     *)
(*                                                                         *)
(* A small machine makes the lists the code meets: requests arrive, wait,  *)
(* return or fail as time passes, and the oldest record gives way.  Names  *)
(* are numbers, of which only the order matters; a rate is a pair of       *)
(* numerator and denominator, and a duration of the timeline is in         *)
(* hundredths of the unit of time.  A list that is filtered from the       *)
(* records is the set of the places it takes (own), and a list of samples  *)
(* a function of those places.                                             *)
(*                                                                         *)
(* The names are its own (SInit, svars, Absent): its theorems stand beside *)
(* the dashboard feed's.                                                   *)
(***************************************************************************)
EXTENDS Integers, FiniteSets, SequencesExt

CONSTANTS
    Sources,              \* of requests: [tunnel, method, path]
    Codes,
    MaxRecords,
    TopLimit,             \* topEndpointsLimit
    Percent,              \* the percentile, 95 in the code
    RateWindow,           \* requestsPerMinuteWindowMs
    Window, Bucket,       \* of the time series
    MaxTime,              \* bound on the clock
    Absent

ASSUME StatisticsAssumption ==
    /\ IsFiniteSet(Sources) /\ Sources \subseteq [tunnel : Nat, method : Nat, path : Nat]
    /\ Codes \subseteq Nat /\ Absent \notin Nat /\ TopLimit \in Nat
    /\ Percent \in 1..100
    /\ Window \in Nat \ {0} /\ Bucket \in 1..Window /\ RateWindow \in Nat \ {0}
    /\ MaxRecords \in Nat \ {0} /\ MaxTime \in Nat \ {0}

VARIABLES
    records,   \* as list() returns them, newest first
    now,
    drawn      \* when the page last computed its time series

svars == <<records, now, drawn>>

TunnelsSeen == {s.tunnel : s \in Sources}
Endpoints   == {<<s.method, s.path>> : s \in Sources}

Open == [status |-> Absent, latency |-> Absent, failed |-> FALSE]

SInit == records = << >> /\ now = 1 /\ drawn = 1

Received(source) ==
    LET r == [at |-> now, tunnel |-> source.tunnel,
              endpoint |-> <<source.method, source.path>>, outcome |-> Open]
    IN  /\ records' = SubSeq(<<r>> \o records, 1,
                             IF Len(records) < MaxRecords THEN Len(records) + 1 ELSE MaxRecords)
        /\ drawn' = now
        /\ UNCHANGED now

Concluded(k, outcome) ==
    /\ records[k].outcome = Open
    /\ records' = [records EXCEPT ![k].outcome = outcome]
    /\ drawn' = now
    /\ UNCHANGED now

Returned(k, code) ==
    Concluded(k, [status |-> code, latency |-> now - records[k].at, failed |-> FALSE])

Failed(k) == Concluded(k, [Open EXCEPT !.failed = TRUE])

(* The page computes the series anew when its items change, not as time
   passes.                                                                  *)
Tick == now < MaxTime /\ now' = now + 1 /\ UNCHANGED <<records, drawn>>

SNext ==
    \/ Tick
    \/ \E source \in Sources : Received(source)
    \/ \E k \in DOMAIN records : Failed(k) \/ \E code \in Codes : Returned(k, code)

SSpec == SInit /\ [][SNext]_svars

-----------------------------------------------------------------------------
(* The members of a finite set from the first to the last, by an order that
   leaves none of two equal: what a stable sort makes of them.              *)
Ordered(S, Before(_, _)) ==
    [n \in 1..Cardinality(S) |->
        CHOOSE x \in S : Cardinality({y \in S : Before(y, x)}) = n - 1]

(* compute-traffic-statistics.ts                                            *)
Timed(own)     == {k \in own : records[k].outcome.latency # Absent}
Latencies(own) == [k \in Timed(own) |-> records[k].outcome.latency]

Mean(samples) == <<SumFunction(samples), Cardinality(DOMAIN samples)>>

IsErrorRecord(r) == r.outcome.failed \/ (r.outcome.status # Absent /\ r.outcome.status >= 400)

Ceiling(n, d) == (n + d - 1) \div d

Ascending(samples) ==
    Ordered(DOMAIN samples,
            LAMBDA j, k : samples[j] < samples[k] \/ (samples[j] = samples[k] /\ j < k))

(* Faulty variant: the rank is rounded down.                                *)
PercentileFloor(samples) ==
    IF DOMAIN samples = {} THEN Absent
    ELSE LET rank == (Percent * Cardinality(DOMAIN samples)) \div 100
         IN  samples[Ascending(samples)[IF rank < 1 THEN 1 ELSE rank]]

(* percentileNearestRank(), its index counted from one.                     *)
PercentileNearestRank(samples) ==
    IF DOMAIN samples = {} THEN Absent
    ELSE samples[Ascending(samples)[Ceiling(Percent * Cardinality(DOMAIN samples), 100)]]

(* Counters of keys, which are pairs of numbers: most frequent first, then in
   the order of the keys.                                                   *)
KeyLess(e, f) == e[1] < f[1] \/ (e[1] = f[1] /\ e[2] < f[2])

Frequency(keys, v) == Cardinality({k \in DOMAIN keys : keys[k] = v})

Counted(keys) ==
    LET order == Ordered(Range(keys),
                         LAMBDA v, w : \/ Frequency(keys, v) > Frequency(keys, w)
                                       \/ /\ Frequency(keys, v) = Frequency(keys, w)
                                          /\ KeyLess(v, w))
    IN  [n \in DOMAIN order |-> [key |-> order[n], count |-> Frequency(keys, order[n])]]

Topmost(s, n) == SubSeq(s, 1, IF Len(s) < n THEN Len(s) ELSE n)

AggregateRecords(own) ==
    LET answered == {k \in own : records[k].outcome.status # Absent}
    IN  [totalRequests    |-> Cardinality(own),
         requestsInWindow |-> Cardinality({k \in own : records[k].at \in (now - RateWindow)..now}),
         averageLatency   |-> Mean(Latencies(own)),
         p95Latency       |-> PercentileNearestRank(Latencies(own)),
         errors           |-> Cardinality({k \in own : IsErrorRecord(records[k])}),
         methodCounts     |-> Counted([k \in own |-> <<records[k].endpoint[1], 0>>]),
         statusCodeCounts |-> Counted([k \in answered |-> <<records[k].outcome.status, 0>>]),
         topEndpoints     |-> Topmost(Counted([k \in own |-> records[k].endpoint]), TopLimit)]

OfTunnel(t) == {k \in DOMAIN records : records[k].tunnel = t}

BuildTunnelStatistics ==
    LET requests(t) == Cardinality(OfTunnel(t))
        order == Ordered({records[k].tunnel : k \in DOMAIN records},
                         LAMBDA t, u : \/ requests(t) > requests(u)
                                       \/ requests(t) = requests(u) /\ t < u)
    IN  [n \in DOMAIN order |->
            [tunnel |-> order[n], stats |-> AggregateRecords(OfTunnel(order[n]))]]

-----------------------------------------------------------------------------
(* time-series.ts                                                           *)
AlignUp(value, step) == Ceiling(value, step) * step

SeriesEnd   == AlignUp(drawn, Bucket)
SeriesStart == SeriesEnd - Window
BucketCount == Ceiling(Window, Bucket)

(* Faulty variant: the index is rounded up.                                 *)
BucketOfRounded(at) == Ceiling(at - SeriesStart, Bucket) + 1

BucketOf(at) ==
    LET index == ((at - SeriesStart) \div Bucket) + 1
    IN  IF index > BucketCount THEN BucketCount ELSE index

Charted(r) == r.at >= SeriesStart /\ r.at < SeriesEnd

InBucket(b) == {k \in DOMAIN records : Charted(records[k]) /\ BucketOf(records[k].at) = b}

BuildStatsTimeSeries ==
    [b \in 1..BucketCount |->
        [t          |-> SeriesStart + (b - 1) * Bucket,
         requests   |-> Cardinality(InBucket(b)),
         avgLatency |-> Mean(Latencies(InBucket(b))),
         byTunnel   |-> [t \in TunnelsSeen |-> Cardinality(InBucket(b) \cap OfTunnel(t))]]]

TotalRequests(series, span) ==
    SumFunctionOnSet([b \in DOMAIN series |-> series[b].requests], span)

(* insights.ts.  Of two endpoints equally slow the first listed is shown;
   which one does not matter here.                                          *)
Slower(x, y) == x[1] * y[2] > y[1] * x[2]

OfEndpoint(e) == {k \in DOMAIN records : records[k].endpoint = e}

FindSlowestEndpoint ==
    LET timed   == Timed(DOMAIN records)
        mean(e) == Mean(Latencies(OfEndpoint(e)))
        listed  == {records[k].endpoint : k \in timed}
    IN  IF timed = {} THEN Absent
        ELSE CHOOSE e \in listed : \A f \in listed : ~Slower(mean(f), mean(e))

ComputeTrafficTrend(series) ==
    LET mid     == Len(series) \div 2
        earlier == TotalRequests(series, 1..mid)
        recent  == TotalRequests(series, (mid + 1)..Len(series))
        change  == (recent - earlier) * 100
    IN  [earlierCount |-> earlier, recentCount |-> recent,
         direction |->
            CASE earlier = 0 /\ recent = 0 -> "empty"
              [] earlier = 0 /\ recent > 0 -> "up"
              [] earlier > 0 /\ change \in (-8 * earlier + 1)..(8 * earlier - 1) -> "flat"
              [] earlier > 0 /\ change >= 8 * earlier -> "up"
              [] earlier > 0 /\ change <= -8 * earlier -> "down"]

(* request-timeline.ts: fromEstimatedLatency().                             *)
PhaseWeights == <<4, 10, 8, 63, 15>>

FromEstimatedLatency(latency) ==
    LET total     == (IF latency = 0 THEN 1 ELSE latency) * 100
        share     == [k \in 1..5 |-> (PhaseWeights[k] * total) \div 100]
        before(k) == SumFunctionOnSet(share, 1..(k - 1))
    IN  [k \in 1..5 |->
            [start |-> before(k), duration |-> IF k = 5 THEN total - before(5) ELSE share[k]]]

-----------------------------------------------------------------------------
STypeOK ==
    /\ records \in Seq([at : 1..MaxTime, tunnel : TunnelsSeen, endpoint : Endpoints,
                        outcome : [status : Codes \cup {Absent},
                                   latency : 0..MaxTime \cup {Absent}, failed : BOOLEAN]])
    /\ now \in 1..MaxTime /\ drawn \in 1..now

SumOver(s, Of(_)) == SumFunction([n \in DOMAIN s |-> Of(s[n])])

(* Nearest rank: the least sample such that Percent of them are no greater. *)
IsPercentile(p, samples) ==
    LET upTo(v) == 100 * Cardinality({k \in DOMAIN samples : samples[k] <= v})
                      >= Percent * Cardinality(DOMAIN samples)
    IN  /\ p \in Range(samples) /\ upTo(p)
        /\ \A v \in Range(samples) : upTo(v) => p <= v

(* The figures of the records at own: the p95 is the nearest rank, a counter
   sums up to the requests, or to the answered ones, and no listed endpoint
   is rarer than one that was cut off.                                      *)
Sound(s, own) ==
    /\ Timed(own) = {} <=> s.p95Latency = Absent
    /\ Timed(own) # {} => IsPercentile(s.p95Latency, Latencies(own))
    /\ SumOver(s.methodCounts, LAMBDA x : x.count) = s.totalRequests
    /\ SumOver(s.statusCodeCounts, LAMBDA x : x.count) = s.averageLatency[2]
    /\ \A k \in own :
          \/ \E j \in DOMAIN s.topEndpoints : s.topEndpoints[j].key = records[k].endpoint
          \/ /\ Len(s.topEndpoints) = TopLimit
             /\ \A j \in DOMAIN s.topEndpoints :
                   s.topEndpoints[j].count
                      >= Cardinality({i \in own : records[i].endpoint = records[k].endpoint})

(* The figures agree with each other and with the records they stand for, in
   the whole and in each tunnel, and the tunnels' totals, errors and
   latencies sum up to the whole.                                           *)
StatisticsAddUp ==
    LET whole   == AggregateRecords(DOMAIN records)
        tunnels == BuildTunnelStatistics
    IN  /\ Sound(whole, DOMAIN records)
        /\ \A n \in DOMAIN tunnels : Sound(tunnels[n].stats, OfTunnel(tunnels[n].tunnel))
        /\ SumOver(tunnels, LAMBDA x : x.stats.totalRequests) = whole.totalRequests
        /\ SumOver(tunnels, LAMBDA x : x.stats.errors) = whole.errors
        /\ SumOver(tunnels, LAMBDA x : x.stats.averageLatency[1]) = whole.averageLatency[1]

(* The charts count every request of the window once, in the bucket of its
   time and for its tunnel; none but the last instant is missed.            *)
SeriesAddsUp ==
    LET series == BuildStatsTimeSeries
        total  == TotalRequests(series, DOMAIN series)
        shown  == {k \in DOMAIN records : /\ records[k].at > drawn - Window + Bucket - 1
                                          /\ records[k].at < drawn}
    IN  /\ \A b \in DOMAIN series :
              /\ series[b].requests =
                    Cardinality({k \in DOMAIN records :
                       /\ records[k].at >= series[b].t
                       /\ records[k].at < SeriesEnd
                       /\ b < BucketCount => records[k].at < series[b].t + Bucket})
              /\ series[b].requests = SumFunction(series[b].byTunnel)
        /\ total >= Cardinality(shown)
        /\ ComputeTrafficTrend(series).earlierCount + ComputeTrafficTrend(series).recentCount = total

(* The endpoint shown as the slowest is, in its mean, no faster than all
   requests together.                                                       *)
SlowestIsSlow ==
    FindSlowestEndpoint # Absent =>
        ~Slower(Mean(Latencies(DOMAIN records)), Mean(Latencies(OfEndpoint(FindSlowestEndpoint))))

(* The phases of a timeline tile its latency.                               *)
PhasesTile ==
    \A k \in Timed(DOMAIN records) :
        LET latency == records[k].outcome.latency
            spans   == FromEstimatedLatency(latency)
        IN  /\ spans[1].start = 0
            /\ \A j \in 1..4 : spans[j + 1].start = spans[j].start + spans[j].duration
            /\ spans[5].start + spans[5].duration = 100 * (IF latency = 0 THEN 1 ELSE latency)

(* What the charts and insights show: every request of the window once, the
   trend of the same requests, the slowest endpoint, and timelines without a
   gap or an overlap.                                                       *)
ChartsAddUp == SeriesAddsUp /\ SlowestIsSlow /\ PhasesTile
=============================================================================
