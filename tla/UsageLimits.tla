------------------------------ MODULE UsageLimits ------------------------------
(***************************************************************************)
(* The counts of calls and tokens: src/core/provider_quota.py              *)
(* (ProviderQuotaManager, in the memory of the service; Bridge.invoke      *)
(* records into it) and scripts/rate_monitor.py (a file with a bucket for  *)
(* each day, written by whoever calls record_usage).                       *)
(*                                                                         *)
(* The service registers limits under the name of the provider entry and   *)
(* records under the provider's type.  Buckets are not reset when their    *)
(* window ends but when the next call is recorded.                         *)
(***************************************************************************)
EXTENDS Integers, Sequences, FiniteSets, FiniteSetsExt

CONSTANTS
    Metered,                    \* names: of provider entries, and of their types
    TypeOf,                     \* the type of each entry
    Limits,                     \* of each entry: per minute and per day, calls and tokens (0: none)
    Recorders,                  \* processes that call record_usage
    NotReading, UsageCut,
    DayLength, MaxTime, MaxMetered, MaxRecorded, MaxUsageDeaths     \* bounds; a unit of time is a minute

ASSUME UsageAssumption ==
    /\ {DayLength, MaxTime, MaxMetered, MaxRecorded, MaxUsageDeaths} \subseteq Nat /\ DayLength > 0
    /\ DOMAIN TypeOf \subseteq Metered /\ TypeOf \in [DOMAIN TypeOf -> Metered]
    /\ Limits \in [DOMAIN TypeOf -> [access : {"free", "trial", "paid", "unlimited"},
                                     rpm : Nat, rpd : Nat, tpm : Nat, tpd : Nat]]

VARIABLES
    minute, daily,      \* _minute_buckets, _daily_buckets
    usage,              \* rate_limits.json: the calls of one provider by day
    reading,            \* what each process has read of it
    time, usageDeaths,
    callsMade,               \* history: the calls recorded with the quota manager
    counted             \* history: the calls recorded in the file

usageVars == <<minute, daily, usage, reading, time, usageDeaths, callsMade, counted>>

NoBucket == [calls |-> 0, tokens |-> 0, start |-> -1]
NoUsage == [d \in 0..(MaxTime \div DayLength) |-> 0]

DayOf(t) == t \div DayLength

UsageInit ==
    /\ minute = [n \in Metered |-> NoBucket] /\ daily = [n \in Metered |-> NoBucket]
    /\ usage = NoUsage /\ counted = NoUsage
    /\ reading = [r \in Recorders |-> NotReading]
    /\ time = 0 /\ usageDeaths = 0 /\ callsMade = <<>>

Counted(bucket, tokens) == [bucket EXCEPT !.calls = @ + 1, !.tokens = @ + tokens]

\* Mutant: the day's bucket is reset like the minute's, when it is a day old.
DailyBucketRolling(n) ==
    IF daily[n].start = -1 \/ time - daily[n].start > DayLength
    THEN [NoBucket EXCEPT !.start = time] ELSE daily[n]

\* A bucket that began before today is replaced.
DailyBucket(n) ==
    IF daily[n].start = -1 \/ daily[n].start < DayOf(time) * DayLength
    THEN [NoBucket EXCEPT !.start = DayOf(time) * DayLength] ELSE daily[n]

\* A bucket that is more than a minute old is replaced; one exactly a minute old counts on.
MinuteBucket(n) ==
    IF minute[n].start = -1 \/ time - minute[n].start > 1
    THEN [NoBucket EXCEPT !.start = time] ELSE minute[n]

\* record(), after an answer of an entry, under the name of its type.
RecordCall(p) ==
    /\ Len(callsMade) < MaxMetered
    /\ LET n == TypeOf[p] IN
       \E tokens \in {0, 2} :
          /\ minute' = [minute EXCEPT ![n] = Counted(MinuteBucket(n), tokens)]
          /\ daily' = [daily EXCEPT ![n] = Counted(DailyBucket(n), tokens)]
          /\ callsMade' = Append(callsMade, [name |-> n, tokens |-> tokens, at |-> time])
    /\ UNCHANGED <<usage, reading, time, usageDeaths, counted>>

\* record_usage reads the file, which counts as empty when it does not parse ...
ReadUsage(r) ==
    /\ reading[r] = NotReading
    /\ reading' = [reading EXCEPT ![r] = IF usage = UsageCut THEN NoUsage ELSE usage]
    /\ UNCHANGED <<minute, daily, usage, time, usageDeaths, callsMade, counted>>

\* ... and writes it back with one call more.
WriteUsage(r) ==
    /\ reading[r] # NotReading /\ counted[DayOf(time)] < MaxRecorded
    /\ usage' = [reading[r] EXCEPT ![DayOf(time)] = @ + 1]
    /\ counted' = [counted EXCEPT ![DayOf(time)] = @ + 1]
    /\ reading' = [reading EXCEPT ![r] = NotReading]
    /\ UNCHANGED <<minute, daily, time, usageDeaths, callsMade>>

\* --reset
ResetUsage ==
    /\ usage # NoUsage
    /\ usage' = NoUsage
    /\ UNCHANGED <<minute, daily, reading, time, usageDeaths, callsMade, counted>>

\* A recorder dies, perhaps in its write; the service ends, and its buckets with it.
RecorderDies(r) ==
    /\ usageDeaths < MaxUsageDeaths /\ reading[r] # NotReading
    /\ usageDeaths' = usageDeaths + 1
    /\ usage' \in {usage, UsageCut}
    /\ reading' = [reading EXCEPT ![r] = NotReading]
    /\ UNCHANGED <<minute, daily, time, callsMade, counted>>

MeterEnds ==
    /\ usageDeaths < MaxUsageDeaths
    /\ usageDeaths' = usageDeaths + 1
    /\ minute' = [n \in Metered |-> NoBucket] /\ daily' = [n \in Metered |-> NoBucket]
    /\ callsMade' = <<>>
    /\ UNCHANGED <<usage, reading, time, counted>>

MinutePasses ==
    /\ time < MaxTime
    /\ time' = time + 1
    /\ UNCHANGED <<minute, daily, usage, reading, usageDeaths, callsMade, counted>>

UsageNext ==
    \/ ResetUsage \/ MeterEnds \/ MinutePasses
    \/ \E p \in DOMAIN TypeOf : RecordCall(p)
    \/ \E r \in Recorders : ReadUsage(r) \/ RecorderDies(r) \/ WriteUsage(r)

--------------------------------------------------------------------------------
\* can_use: limits are those of the entry, buckets those of the same name; the minute's
\* counts if it began within the minute, the day's whenever it began, and limits on
\* tokens per minute only beside one on calls.
InMinute(p) == minute[p].start >= 0 /\ time - minute[p].start < 1

Over(count, limit) == limit > 0 /\ count >= limit

CanUse(p) ==
    LET limit == Limits[p] IN
    \/ limit.access \in {"paid", "unlimited"}
    \/ /\ limit.rpm > 0 /\ InMinute(p) =>
              minute[p].calls < limit.rpm /\ ~Over(minute[p].tokens, limit.tpm)
       /\ ~Over(daily[p].calls, limit.rpd) /\ ~Over(daily[p].tokens, limit.tpd)

\* headroom, in hundredths: the least of the shares that are left, computed apart.
Left(count, limit) == IF limit = 0 THEN {} ELSE {100 - (100 * count) \div limit}

Headroom(p) ==
    LET limit == Limits[p]
        shares == (IF limit.rpm > 0 /\ InMinute(p)
                   THEN Left(minute[p].calls, limit.rpm) \cup Left(minute[p].tokens, limit.tpm) ELSE {})
                  \cup (IF daily[p].start >= 0
                        THEN Left(daily[p].calls, limit.rpd) \cup Left(daily[p].tokens, limit.tpd) ELSE {})
    IN IF limit.access \in {"paid", "unlimited"} \/ shares = {} THEN 100
       ELSE Max({0, Min(shares)})

CallsOf(n, from, to) == {k \in DOMAIN callsMade : callsMade[k].name = n /\ callsMade[k].at \in from..to}

\* The buckets hold the calls of their window exactly, one that has not been reset yet
\* included (provider_quota.py:150-169); the file never shows a call that was not recorded
\* on that day, whatever writers overlap (rate_monitor.py:87-92 may lose some); and the two
\* answers of the quota manager agree: an entry may be used just when something is left.
UsageExact ==
    /\ \A n \in Metered :
          /\ minute[n].calls = IF minute[n].start < 0 THEN 0 ELSE Cardinality(CallsOf(n, minute[n].start, time))
          /\ daily[n].calls = IF daily[n].start < 0 THEN 0
                              ELSE Cardinality(CallsOf(n, daily[n].start, daily[n].start + DayLength - 1))
    /\ usage # UsageCut => \A d \in DOMAIN counted : usage[d] <= counted[d]
    /\ \A p \in DOMAIN TypeOf : CanUse(p) <=> Headroom(p) > 0
================================================================================
