---------------------------- MODULE Measurements ----------------------------
(***************************************************************************)
(* Latency measurements: the histogram and the recorders that fill one per *)
(* thread.                                                                 *)
(***************************************************************************)
EXTENDS Integers, Sequences, SequencesExt, FiniteSetsExt, Functions, FiniteSets

-----------------------------------------------------------------------------
(***************************************************************************)
(* eph::utils::HdrHistogram: buckets of constant relative width, and what  *)
(* is read from them.  A histogram is recorded into, copied (a snapshot),  *)
(* and the copy merged into it or subtracted from it.  A history keeps the *)
(* values themselves, which the histogram does not.  A percentile is a     *)
(* number of PMax-ths, and one above PMax is an invalid one.               *)
(***************************************************************************)

CONSTANTS lowest_trackable_value, highest_trackable_value,
          sub_bucket_count_magnitude,   \* from the number of significant figures
          ValueSpace,                         \* 2^64
          Samples,                      \* the values that are recorded
          PMax, Ticks, Steps,           \* the percentiles, ticks and step widths asked for
          MaxTotal, MaxSnap             \* bounds on the samples of a histogram and of a snapshot

ASSUME HistogramAssumption ==
    /\ lowest_trackable_value \in Nat \ {0}
    /\ highest_trackable_value \in Nat /\ highest_trackable_value >= 2 * lowest_trackable_value
    \* beyond the signed half of the word the buckets are not counted right
    /\ ValueSpace \in Nat /\ 2 * highest_trackable_value < ValueSpace
    /\ sub_bucket_count_magnitude \in Nat \ {0, 1}
    /\ Samples \subseteq 0..(ValueSpace - 1) /\ PMax \in Nat \ {0} /\ Ticks \subseteq Nat \ {0}
    /\ Steps \subseteq Nat \ {0} /\ MaxTotal \in Nat /\ MaxSnap \in Nat

VARIABLES hist, snap,             \* HdrHistogram: [counts, total, min, max, dropped]
          inHist, inSnap,         \* history: how often each sample is in them
          given, snapGiven    \* history: the samples they were given

HGvars == <<hist, snap, inHist, inSnap, given, snapGiven>>

bit_width(n) == CHOOSE k \in 0..n : 2^k > n /\ (k = 0 \/ 2^(k - 1) <= n)
unit_magnitude == bit_width(lowest_trackable_value) - 1
sub_bucket_half_count_magnitude == sub_bucket_count_magnitude - 1
sub_bucket_count == 2^sub_bucket_count_magnitude
sub_bucket_half_count == 2^sub_bucket_half_count_magnitude
sub_bucket_mask == (sub_bucket_count - 1) * 2^unit_magnitude
-----------------------------------------------------------------------------
(* From values to buckets and back *)

get_buckets_needed(value) ==
    LET need[s \in Nat] == IF s <= value THEN 1 + need[2 * s] ELSE 1
    IN  need[sub_bucket_count * 2^unit_magnitude]
counts_len == (get_buckets_needed(highest_trackable_value) + 1) * (sub_bucket_count \div 2)
Buckets == 0..(counts_len - 1)

\* The mask keeps the values below the first sub-buckets in bucket 0.
get_bucket_index(value) ==
    Max({bit_width(value), bit_width(sub_bucket_mask)}) - unit_magnitude
        - (sub_bucket_half_count_magnitude + 1)
get_sub_bucket_idx(value, bucket_idx) == value \div 2^(bucket_idx + unit_magnitude)

counts_index_for(value) ==
    LET b == get_bucket_index(value)
    IN  (b + 1) * sub_bucket_half_count + (get_sub_bucket_idx(value, b) - sub_bucket_half_count)

\* Bucket 0 has its lower half too.
value_from_index(index) ==
    LET b == (index \div sub_bucket_half_count) - 1
        s == (index % sub_bucket_half_count) + sub_bucket_half_count
    IN  IF b < 0 THEN (s - sub_bucket_half_count) * 2^unit_magnitude
        ELSE s * 2^(b + unit_magnitude)

size_of_equivalent_value_range(value) == 2^(unit_magnitude + get_bucket_index(value))
next_non_equivalent_value(value) ==
    LET b == get_bucket_index(value)
    IN  get_sub_bucket_idx(value, b) * 2^(b + unit_magnitude) + size_of_equivalent_value_range(value)
Middle(i) == LET low == value_from_index(i)
             IN  low + (next_non_equivalent_value(low) - low) \div 2
-----------------------------------------------------------------------------
(* Recording *)

NewHistogram == [counts |-> [i \in Buckets |-> 0], total |-> 0,
                 min |-> ValueSpace - 1, max |-> 0, dropped |-> 0]
NoneSeen == [v \in Samples |-> 0]

HGInit ==
    /\ hist = NewHistogram /\ snap = NewHistogram
    /\ inHist = NoneSeen /\ inSnap = NoneSeen
    /\ given = 0 /\ snapGiven = 0

InRange(v) == v >= lowest_trackable_value /\ v <= highest_trackable_value
Bounded(h, v, n) == [h EXCEPT !.counts[counts_index_for(v)] = @ + n, !.total = @ + n,
                              !.min = Min({@, v}), !.max = Max({@, v})]

\* record() is record_values() with a count of 1; a count of 0 does nothing.
record_into(h, v, n) ==
    IF n = 0 THEN h
    ELSE IF ~InRange(v) \/ counts_index_for(v) \notin Buckets THEN [h EXCEPT !.dropped = @ + n]
    ELSE Bounded(h, v, n)

record_values(v, n) ==
    /\ hist.total + n <= MaxTotal /\ given + n <= MaxTotal
    /\ hist' = record_into(hist, v, n) /\ given' = given + n
    /\ inHist' = IF InRange(v) THEN [inHist EXCEPT ![v] = @ + n] ELSE inHist
    /\ UNCHANGED <<snap, inSnap, snapGiven>>

\* The samples a stall has swallowed, one for every interval below the value.
Missing(v, interval) ==
    IF interval = 0 THEN {}
    ELSE {v - k * interval : k \in {k \in 1..v : v - k * interval >= Max({interval, lowest_trackable_value})}}

record_corrected(v, interval) ==
    LET more == IF InRange(v) THEN Missing(v, interval) ELSE {}
    IN  /\ more \subseteq Samples
        /\ given + 1 + Cardinality(more) <= MaxTotal
        /\ given' = given + 1 + Cardinality(more)
        /\ hist' = FoldSet(LAMBDA x, h : record_into(h, x, 1), hist, {v} \cup more)
        /\ inHist' = [x \in Samples |-> inHist[x] + (IF x \in {v} \cup more /\ InRange(x) THEN 1 ELSE 0)]
        /\ UNCHANGED <<snap, inSnap, snapGiven>>

reset == /\ hist' = NewHistogram /\ inHist' = NoneSeen /\ given' = 0
         /\ UNCHANGED <<snap, inSnap, snapGiven>>

TakeSnapshot == /\ given <= MaxSnap /\ snap' = hist /\ inSnap' = inHist /\ snapGiven' = given
                /\ UNCHANGED <<hist, inHist, given>>

\* The copy was made by this histogram, so the two are compatible.
merge ==
    /\ hist.total + snap.total <= MaxTotal /\ given + snapGiven <= MaxTotal
    /\ hist' = [counts |-> [i \in Buckets |-> hist.counts[i] + snap.counts[i]],
                total |-> hist.total + snap.total, dropped |-> hist.dropped + snap.dropped,
                min |-> Min({hist.min, snap.min}), max |-> Max({hist.max, snap.max})]
    /\ inHist' = [v \in Samples |-> inHist[v] + inSnap[v]] /\ given' = given + snapGiven
    /\ UNCHANGED <<snap, inSnap, snapGiven>>

\* Refused, before anything is changed, unless every count is large enough.  It is
\* called with an earlier state of the histogram, the window's start; a reset since
\* then makes it one to refuse.
CanSubtract(h, o) == /\ o.total <= h.total /\ o.dropped <= h.dropped
                     /\ \A i \in Buckets : h.counts[i] >= o.counts[i]

MaxOf(counts) == Max({0} \cup {next_non_equivalent_value(value_from_index(i)) - 1 : i \in {i \in Buckets : counts[i] > 0}})

subtract ==
    /\ CanSubtract(hist, snap) => \A v \in Samples : inSnap[v] <= inHist[v]
    /\ IF ~CanSubtract(hist, snap) THEN UNCHANGED HGvars
       ELSE LET left == [i \in Buckets |-> hist.counts[i] - snap.counts[i]]
            IN  /\ hist' = [counts |-> left, total |-> hist.total - snap.total,
                            dropped |-> hist.dropped - snap.dropped, max |-> MaxOf(left),
                            min |-> Min({ValueSpace - 1} \cup {value_from_index(i) : i \in {i \in Buckets : left[i] > 0}})]
                /\ inHist' = [v \in Samples |-> inHist[v] - inSnap[v]] /\ given' = given - snapGiven
                /\ UNCHANGED <<snap, inSnap, snapGiven>>
-----------------------------------------------------------------------------
(* Reading *)

Ceil(a, b) == (a + b - 1) \div b
FilledBuckets(h) == SetToSortSeq({i \in Buckets : h.counts[i] > 0}, LAMBDA x, y : x < y)
UpTo(h, i) == FoldSeq(LAMBDA x, acc : x + acc, 0, [j \in 1..(i + 1) |-> h.counts[j - 1]])
ValidP(p) == p \in 0..PMax

get_value_at_percentile(h, p) ==
    IF ~ValidP(p) \/ h.total = 0 THEN 0
    ELSE LET reach == {i \in Buckets : h.counts[i] > 0 /\ UpTo(h, i) >= Ceil(p * h.total, PMax)}
         IN  IF reach = {} THEN h.max ELSE Middle(Min(reach))

\* All the percentiles that a bucket reaches are answered there.
TakenHere(n) == n

\* One pass over the buckets, answering the percentiles in rising order.
get_percentiles(h, ps) ==
    LET order == SetToSortSeq(DOMAIN ps, LAMBDA x, y : ps[x] < ps[y] \/ (ps[x] = ps[y] /\ x < y))
        Due(next, acc) == LET k == {n \in (next - 1)..Len(order) : \A j \in next..n :
                                      ~ValidP(ps[order[j]]) \/ acc >= Ceil(ps[order[j]] * h.total, PMax)}
                          IN  TakenHere(Max(k) - (next - 1))
        scan[b \in 0..Len(FilledBuckets(h))] ==
            IF b = 0 THEN [next |-> 1, out |-> [j \in DOMAIN ps |-> 0]]
            ELSE LET s == scan[b - 1]
                     n == Due(s.next, UpTo(h, FilledBuckets(h)[b]))
                 IN  [next |-> s.next + n,
                      out |-> [j \in DOMAIN ps |->
                                 IF (\E k \in s.next..(s.next + n - 1) : order[k] = j) /\ ValidP(ps[j])
                                 THEN Middle(FilledBuckets(h)[b]) ELSE s.out[j]]]
    IN  IF h.total = 0 THEN [j \in DOMAIN ps |-> 0] ELSE scan[Len(FilledBuckets(h))].out

\* The samples at or below a value, by the low end of their buckets.
get_percentile_at_or_below(h, v) ==
    LET S == {i \in Buckets : h.counts[i] > 0 /\ value_from_index(i) <= v}
    IN  IF S = {} THEN 0 ELSE UpTo(h, Max(S))

get_count_between(h, low, high) ==
    MapThenSumSet(LAMBDA i : h.counts[i], {i \in Buckets : value_from_index(i) \in low..high})

StepsTo(h, w) == {k \in 0..h.max : k * w <= h.max}

\* The steps of width w from the one that holds the minimum; each takes the buckets
\* that start below its end and were not taken before.
for_each_linear(h, w) ==
    LET first == (IF h.min = ValueSpace - 1 THEN 0 ELSE h.min) \div w
        Below(k) == {i \in Buckets : value_from_index(i) < (k + 1) * w}
        Taken(k) == IF k = first THEN Below(k) ELSE Below(k) \ Below(k - 1)
        Count(k) == MapThenSumSet(LAMBDA i : h.counts[i], Taken(k))
    IN  IF h.total = 0 THEN {}
        ELSE {[start |-> k * w, end |-> (k + 1) * w, count |-> Count(k)]
                : k \in {k \in StepsTo(h, w) : k >= first /\ Count(k) > 0}}

\* The first round of ticks, of equal width, reaches 100 per cent; a row is left out if
\* its value is the one before, and the maximum closes the list.
for_each_percentile(h, ticks) ==
    LET Need(t) == Max({1, Ceil(t * h.total, ticks)})
        At(t) == Min({i \in Buckets : UpTo(h, i) >= Need(t)})
        rows[t \in 0..ticks] ==
            IF t = 0 THEN <<>>
            ELSE LET r == rows[t - 1]
                 IN  IF r # <<>> /\ Last(r).value = Middle(At(t)) THEN r
                     ELSE Append(r, [value |-> Middle(At(t)), upto |-> UpTo(h, At(t))])
    IN  IF h.total = 0 THEN <<>>
        ELSE IF Last(rows[ticks]).value = h.max THEN rows[ticks]
        ELSE Append(rows[ticks], [value |-> h.max, upto |-> h.total])
-----------------------------------------------------------------------------
HGNext ==
    \/ \E v \in Samples, n \in 0..2 : record_values(v, n)
    \/ \E v \in Samples, w \in {0} \cup Steps : record_corrected(v, w)
    \/ reset \/ TakeSnapshot \/ merge \/ subtract

HGTypeOK ==
    /\ hist.total \in 0..MaxTotal /\ \A i \in Buckets : hist.counts[i] \in 0..MaxTotal
    /\ DOMAIN hist.counts = Buckets /\ hist.dropped \in 0..MaxTotal
    /\ given \in 0..MaxTotal

\* Sorted, the values that are in a histogram.
ValueOfRank(s, r) == Min({v \in Samples : MapThenSumSet(LAMBDA x : s[x], {x \in Samples : x <= v}) >= r})

\* However the histogram came about, by records, merges and subtractions, its buckets
\* hold exactly the values recorded and not taken out; min and max bracket them, and
\* every sample that was given is counted or dropped.
BucketsFollowSamples ==
    /\ \A i \in Buckets : hist.counts[i] =
          MapThenSumSet(LAMBDA v : inHist[v], {v \in Samples : InRange(v) /\ counts_index_for(v) = i})
    /\ hist.total = MapThenSumSet(LAMBDA v : inHist[v], Samples)
    /\ hist.total + hist.dropped = given
    /\ \A v \in Samples : inHist[v] > 0 => hist.min <= v /\ v <= hist.max

\* The value at a percentile differs from the sample of that rank by less than the
\* resolution: one unit, or the sample divided by half the sub-buckets.
PercentileNear ==
    \A p \in 0..PMax : hist.total > 0 =>
        LET true == ValueOfRank(inHist, Max({1, Ceil(p * hist.total, PMax)}))
            got == get_value_at_percentile(hist, p)
            diff == IF got > true THEN got - true ELSE true - got
        IN  diff < 2^unit_magnitude \/ diff * sub_bucket_half_count <= true

\* A batch of percentiles in any order, with repetitions and invalid ones, gets the
\* answers that single questions get, and so do the rows of the iteration.
BatchesAgree ==
    /\ \A ps \in [1..2 -> 0..(PMax + 1)] :
         get_percentiles(hist, ps) = [j \in 1..2 |-> get_value_at_percentile(hist, ps[j])]
    /\ \A n \in Ticks : \A i \in DOMAIN for_each_percentile(hist, n) :
         LET r == for_each_percentile(hist, n)
         IN  /\ i < Len(r) => r[i].upto <= r[i + 1].upto
             /\ i = Len(r) => r[i].upto = hist.total
             /\ (hist.total > 0 /\ n = PMax) => r[i].value \in {get_value_at_percentile(hist, p) : p \in 1..PMax} \cup {hist.max}

\* Neither the linear steps nor a pair of adjoining ranges lose or repeat a sample.
IterationsCoverAll ==
    /\ \A w \in Steps : MapThenSumSet(LAMBDA e : e.count, for_each_linear(hist, w)) = hist.total
    /\ \A v \in Samples \ {Max(Samples)} :
         get_count_between(hist, 0, v) + get_count_between(hist, v + 1, ValueSpace - 1) = hist.total
    /\ \A v \in Samples : get_percentile_at_or_below(hist, v) = get_count_between(hist, 0, v)

-----------------------------------------------------------------------------
(***************************************************************************)
(* eph::utils::ConcurrentRecorder: every thread records into data of its   *)
(* own without a lock, first its histogram and then its counters; a thread *)
(* that exits retires its data under the mutex; a reporter merges, and may *)
(* reset, everything under the same mutex, while threads go on recording.  *)
(* Recorder, for one thread, is the same record without the merge.         *)
(*                                                                         *)
(* Of a histogram only its number of samples is kept here.  A sample is a  *)
(* number of cycles, 0 is an invalid one and OutOfRange is out of range.         *)
(***************************************************************************)

CONSTANTS Threads, Cycles, OutOfRange,
          Sat,            \* the largest word: sums stop there
          MaxCalls        \* bound on the calls of record

ASSUME RecordersAssumption ==
    /\ IsFiniteSet(Threads) /\ Cycles \subseteq Nat /\ OutOfRange \in Cycles \ {0}
    /\ Sat \in Nat \ {0} /\ MaxCalls \in Nat

VARIABLES
    tpc,            \* "new" (no thread-local data), "idle", "mid" (between histogram and counters), "exited"
    pend,           \* the sample of a thread in "mid"
    locals,         \* ThreadLocalData
    active,         \* active_locals
    retired,        \* retired_histogram and the other retired_ members
    rpc,            \* the reporter: "idle", or what it is computing: "stats", "window"
    todo, half,     \* locals still to merge; the one whose histogram is merged and whose counters are not
    merged,         \* MergedData
    low, lastReport,\* history: samples done when the report began; the last report with its bounds
    all, gone,      \* history: the samples recorded; those in windows already reported
    raced           \* history: a reset overlapped a record

rcthreads == <<tpc, pend, locals, active, retired>>
rvars == <<rpc, todo, half, merged, low, lastReport>>
RCvars == <<rcthreads, rvars, all, gone, raced>>

NoData == [hist |-> 0, count |-> 0, cycles |-> 0, invalid |-> 0, overflow |-> 0]
NoReport == [hist |-> 0, count |-> 0, low |-> 0, high |-> 0]

sat_add(a, b) == IF a + b > Sat THEN Sat ELSE a + b
Combined(d, e) == [hist |-> d.hist + e.hist, count |-> sat_add(d.count, e.count),
               cycles |-> sat_add(d.cycles, e.cycles), invalid |-> sat_add(d.invalid, e.invalid),
               overflow |-> sat_add(d.overflow, e.overflow)]

RCInit ==
    /\ tpc = [t \in Threads |-> "new"] /\ pend = [t \in Threads |-> [c |-> 0, n |-> 0]]
    /\ locals = [t \in Threads |-> NoData] /\ active = {} /\ retired = NoData
    /\ rpc = "idle" /\ todo = {} /\ half = {} /\ merged = NoData
    /\ low = 0 /\ lastReport = NoReport
    /\ all = NoData /\ gone = NoData /\ raced = FALSE
-----------------------------------------------------------------------------
(* Threads *)

\* The first call registers the thread's data, under the mutex.
get_or_create_local(t) ==
    /\ tpc[t] = "new" /\ rpc = "idle"
    /\ tpc' = [tpc EXCEPT ![t] = "idle"] /\ active' = active \cup {t}
    /\ UNCHANGED <<pend, locals, retired, rvars, all, gone, raced>>

Calls == all.count + all.invalid + all.overflow

\* record() and record_values(): 0 and out of range are counted and done with; for
\* the rest the histogram comes first.
record(t, c, n) ==
    /\ tpc[t] = "idle" /\ Calls + Cardinality({x \in Threads : tpc[x] = "mid"}) + n <= MaxCalls
    /\ raced' = (raced \/ rpc = "window")
    /\ \/ /\ c = 0
          /\ locals' = [locals EXCEPT ![t].invalid = sat_add(@, n)]
          /\ all' = [all EXCEPT !.invalid = @ + n]
          /\ UNCHANGED <<tpc, pend>>
       \/ /\ c = OutOfRange
          /\ locals' = [locals EXCEPT ![t].overflow = sat_add(@, n)]
          /\ all' = [all EXCEPT !.overflow = @ + n]
          /\ UNCHANGED <<tpc, pend>>
       \/ /\ c \notin {0, OutOfRange}
          /\ locals' = [locals EXCEPT ![t].hist = @ + n]
          /\ tpc' = [tpc EXCEPT ![t] = "mid"] /\ pend' = [pend EXCEPT ![t] = [c |-> c, n |-> n]]
          /\ UNCHANGED all
    /\ UNCHANGED <<active, retired, rvars, gone>>

record_counters(t) ==
    /\ tpc[t] = "mid" /\ tpc' = [tpc EXCEPT ![t] = "idle"]
    /\ LET p == pend[t]
       IN  /\ locals' = [locals EXCEPT ![t].count = sat_add(@, p.n), ![t].cycles = sat_add(@, p.c * p.n)]
           /\ all' = [all EXCEPT !.hist = @ + p.n, !.count = @ + p.n, !.cycles = @ + p.c * p.n]
    /\ raced' = (raced \/ rpc = "window")
    /\ UNCHANGED <<pend, active, retired, rvars, gone>>

MergeAndErase(t) == retired' = Combined(retired, locals[t]) /\ active' = active \ {t}

\* ~ThreadLocalGuard: the thread ends.
retire_local(t) ==
    /\ tpc[t] = "idle" /\ rpc = "idle"
    /\ tpc' = [tpc EXCEPT ![t] = "exited"] /\ MergeAndErase(t)
    /\ UNCHANGED <<pend, locals, rvars, all, gone, raced>>
-----------------------------------------------------------------------------
(* The reporter, holding the mutex from the first step to the last *)

StartReport(what) ==
    /\ rpc = "idle" /\ rpc' = what /\ todo' = active /\ half' = {}
    /\ merged' = retired /\ low' = all.count
    /\ raced' = (raced \/ (what = "window" /\ \E t \in Threads : tpc[t] = "mid"))
    /\ UNCHANGED <<rcthreads, lastReport, all, gone>>

MergeHistogram(t) ==
    /\ rpc # "idle" /\ half = {} /\ t \in todo
    /\ merged' = [merged EXCEPT !.hist = @ + locals[t].hist] /\ half' = {t}
    /\ UNCHANGED <<rcthreads, rpc, todo, low, lastReport, all, gone, raced>>

MergeCounters(t) ==
    /\ t \in half /\ half' = {} /\ todo' = todo \ {t}
    /\ merged' = Combined(merged, [locals[t] EXCEPT !.hist = 0])
    /\ UNCHANGED <<rcthreads, rpc, low, lastReport, all, gone, raced>>

ResetActiveOnly == locals' = [t \in Threads |-> IF t \in active THEN NoData ELSE locals[t]] /\ UNCHANGED retired
reset_all_locked ==
    /\ locals' = [t \in Threads |-> IF t \in active THEN NoData ELSE locals[t]] /\ retired' = NoData

Everything == FoldSet(LAMBDA t, acc : Combined(acc, locals[t]), retired, active)

reset_recorder ==
    /\ rpc = "idle" /\ reset_all_locked
    /\ gone' = Combined(gone, Everything) /\ raced' = (raced \/ \E t \in Threads : tpc[t] = "mid")
    /\ UNCHANGED <<tpc, pend, active, rvars, all>>

Begun == all.count + MapThenSumSet(LAMBDA t : pend[t].n, {t \in Threads : tpc[t] = "mid"})

\* compute_stats() and compute_and_reset().
EndReport ==
    /\ rpc # "idle" /\ todo = {} /\ half = {} /\ rpc' = "idle"
    /\ lastReport' = [hist |-> merged.hist, count |-> merged.count,
                  low |-> low - gone.count, high |-> Begun - gone.count]
    /\ IF rpc = "window"
       THEN reset_all_locked /\ gone' = Combined(gone, merged)
       ELSE UNCHANGED <<locals, retired, gone>>
    /\ merged' = NoData /\ low' = 0
    /\ UNCHANGED <<tpc, pend, active, todo, half, all, raced>>
-----------------------------------------------------------------------------
RCNext ==
    \/ \E t \in Threads :
         \/ get_or_create_local(t) \/ record_counters(t) \/ retire_local(t)
         \/ MergeHistogram(t) \/ MergeCounters(t)
         \/ \E c \in Cycles, n \in 1..2 : record(t, c, n)
    \/ StartReport("stats") \/ StartReport("window") \/ EndReport \/ reset_recorder

RCTypeOK ==
    /\ active \subseteq Threads /\ todo \subseteq active /\ half \subseteq todo
    /\ \A t \in Threads : locals[t].count \in 0..Sat /\ locals[t].cycles \in 0..Sat
    /\ retired.count \in 0..Sat /\ retired.cycles \in 0..Sat

\* A report taken while threads record and come and go has every sample that was
\* complete when it began and none that had not begun when it ended, in the counters
\* and in the histogram; no thread that exits is lost or counted twice.
ReportBrackets ==
    ~raced => /\ lastReport.count \in lastReport.low..lastReport.high
              /\ lastReport.hist \in lastReport.low..lastReport.high

\* When all is quiet, what threads, exited threads and windows hold is every sample
\* there was, in range or skipped, unless a reset overlapped a record.
SamplesAddUp ==
    (~raced /\ rpc = "idle" /\ \A t \in Threads : tpc[t] # "mid") =>
        LET e == Everything
        IN  /\ e.count + gone.count = all.count /\ e.hist + gone.hist = all.count

\* Sums of cycles stop at the largest word instead of wrapping, through records,
\* retirements and merges alike.
SumsSaturate ==
    (~raced /\ gone = NoData /\ \A t \in Threads : tpc[t] # "mid") =>
        Everything.cycles = IF all.cycles > Sat THEN Sat ELSE all.cycles

\* What is reported of latencies describes the samples that were recorded.
MeasurementsTrue ==
    /\ HGTypeOK /\ BucketsFollowSamples /\ PercentileNear /\ BatchesAgree
    /\ IterationsCoverAll /\ RCTypeOK /\ ReportBrackets /\ SamplesAddUp
    /\ SumsSaturate
=============================================================================
