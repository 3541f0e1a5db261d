------------------------------ MODULE Monitoring ------------------------------
(***************************************************************************)
(* What the service tells others of itself: the gauges and the samples a   *)
(* pass of the collector leaves behind (collector.ts), which Prometheus,   *)
(* PRTG and the pages read, and the pings systemd waits for (watchdog.ts). *)
(*                                                                         *)
(* A pass begins at an interval whether or not the last one has ended.  A  *)
(* sample stands for the set of readings it is the average of.  Nothing    *)
(* increments a counter, so that every rate is zero: they are left out.    *)
(***************************************************************************)
EXTENDS Integers, FiniteSets, FiniteSetsExt

CONSTANTS Hour, Retained,   \* seconds: of a bucket, and before a sample is rolled up
          Deadline,         \* WatchdogSec
          MaxTime, MaxPasses, MaxBegins, MaxChanges, MaxSteps   \* bounds

VARIABLES
    now, disk, locked,     \* the time, the space in use, and the locks in force
    passes, gauge, samples,
    readings,               \* history: what was sampled, by hour
    fresh,                  \* history: nothing changed since an undisturbed pass began
    changes, begins
VARIABLES
    age,                    \* since systemd had its last ping
    timer, lead,            \* until the timer is due; of the clock over expectedAt
    stuck, late, stepped,   \* the loop; history since the last ping
    tooSoon,                \* history: a ping was withheld that would have been in time
    steps

samplerVars == <<now, disk, locked, passes, gauge, samples, readings, fresh, changes,
                begins>>
watchdogVars == <<age, timer, lead, stuck, late, stepped, tooSoon, steps>>
monitorVars == <<samplerVars, watchdogVars>>

Unread == -1
Uses == 0..1
Times == 0..MaxTime
HourOf(ts) == ts \div Hour
NoSample == [disk |-> {}, locked |-> {}]
Metrics == DOMAIN NoSample
Taken(rows) == {ts \in Times : rows[ts] # NoSample}

SamplerInit ==
    /\ now = 0 /\ disk = 0 /\ locked = 0 /\ passes = {}
    /\ gauge = [disk |-> 0, locked |-> 0] /\ samples = [ts \in Times |-> NoSample]
    /\ readings = [h \in 0..HourOf(MaxTime) |-> NoSample]
    /\ fresh = FALSE /\ changes = 0 /\ begins = 0

-----------------------------------------------------------------------------
(* MetricsCollector.collect: the disk is read, then set as a gauge; what   *)
(* the database says is read and set at the end, where the sample is kept  *)
(* under the second the pass began in.                                     *)
Begin ==
    /\ begins < MaxBegins /\ begins' = begins + 1
    /\ Cardinality(passes) < MaxPasses /\ \A p \in passes : p.began # now
    /\ passes' = {[p EXCEPT !.alone = FALSE] : p \in passes} \cup
         {[began |-> now, step |-> "read", disk |-> Unread, alone |-> passes = {}, current |-> TRUE]}
    /\ UNCHANGED <<now, disk, locked, gauge, samples, readings, fresh, changes>>

Becomes(p, q) == passes' = (passes \ {p}) \cup {q}
ReadDisk(p) ==
    /\ p.step = "read"
    /\ \E value \in {disk, Unread} : Becomes(p, [p EXCEPT !.step = "set", !.disk = value])
    /\ UNCHANGED <<now, disk, locked, gauge, samples, readings, fresh, changes, begins>>
SetDisk(p) ==
    /\ p.step = "set"
    /\ Becomes(p, [p EXCEPT !.step = "database"])
    /\ gauge' = IF p.disk = Unread THEN gauge ELSE [gauge EXCEPT !.disk = p.disk]
    /\ UNCHANGED <<now, disk, locked, samples, readings, fresh, changes, begins>>

\* a metric that could not be read keeps the sample it has in that second
Sampled(p) == [disk |-> IF p.disk = Unread THEN samples[p.began].disk ELSE {p.disk},
               locked |-> {locked}]
Clean(p) == p.alone /\ p.current /\ p.disk # Unread
FinishKeepsGauge(p) ==
    /\ p.step = "database" /\ passes' = passes \ {p}
    /\ samples' = [samples EXCEPT ![p.began] = Sampled(p)]
    /\ readings' = [readings EXCEPT ![HourOf(p.began)] =
                      [k \in Metrics |-> @[k] \cup Sampled(p)[k]]]
    /\ fresh' = (fresh \/ Clean(p))
    /\ UNCHANGED <<now, disk, locked, gauge, changes, begins>>
Finish(p) ==
    /\ p.step = "database" /\ passes' = passes \ {p}
    /\ gauge' = [gauge EXCEPT !.locked = locked]
    /\ \/ /\ samples' = [samples EXCEPT ![p.began] = Sampled(p)]
          /\ readings' = [readings EXCEPT ![HourOf(p.began)] =
                            [k \in Metrics |-> @[k] \cup Sampled(p)[k]]]
          /\ fresh' = (fresh \/ Clean(p))
       \/ UNCHANGED <<samples, readings, fresh>>   \* the database refused it
    /\ UNCHANGED <<now, disk, locked, changes, begins>>

(* MetricsCollector.rollUp: what is past its retention becomes one sample  *)
(* for each hour, under the hour's first second.                           *)
Past == {ts \in Taken(samples) : ts < now - Retained}
InBucket(h, k) == UNION {samples[ts][k] : ts \in {t \in Past : HourOf(t) = h}}
Buckets == {HourOf(ts) * Hour : ts \in Past}
Bucket(ts) == [k \in Metrics |-> InBucket(HourOf(ts), k)]
RolledUpDeletingLast ==
    [ts \in Times |-> IF ts < now - Retained THEN NoSample ELSE samples[ts]]
RolledUp ==
    [ts \in Times |-> IF ts \in Buckets THEN Bucket(ts)
                      ELSE IF ts \in Past THEN NoSample ELSE samples[ts]]
RollUp ==
    /\ Past # {} /\ samples' = RolledUp
    /\ UNCHANGED <<now, disk, locked, passes, gauge, readings, fresh, changes, begins>>

\* time, the world, and a process that ends and starts
Second ==
    /\ now < MaxTime /\ now' = now + 1
    /\ UNCHANGED <<disk, locked, passes, gauge, samples, readings, fresh, changes, begins>>
Change ==
    /\ changes < MaxChanges /\ changes' = changes + 1
    /\ \/ disk' = 1 - disk /\ UNCHANGED locked
       \/ locked' = 1 - locked /\ UNCHANGED disk
    /\ passes' = {[p EXCEPT !.current = FALSE] : p \in passes} /\ fresh' = FALSE
    /\ UNCHANGED <<now, gauge, samples, readings, begins>>
Restarted ==
    /\ changes < MaxChanges /\ changes' = changes + 1
    /\ passes' = {} /\ gauge' = [disk |-> 0, locked |-> 0] /\ fresh' = FALSE
    /\ UNCHANGED <<now, disk, locked, samples, readings, begins>>

SamplerNext ==
    /\ \/ Begin \/ \E p \in passes : ReadDisk(p) \/ SetDisk(p) \/ Finish(p)
       \/ RollUp \/ Second \/ Change \/ Restarted
    /\ UNCHANGED watchdogVars

-----------------------------------------------------------------------------
(* Watchdog, whose interval is half of what systemd allows.                *)
IntervalOfUsec == Deadline
Interval == Deadline \div 2

WatchdogInit ==
    /\ age = 0 /\ timer = Interval /\ lead = -Interval
    /\ stuck = FALSE /\ late = FALSE /\ stepped = FALSE /\ tooSoon = FALSE /\ steps = 0

Tick ==
    /\ timer <= 0 /\ ~stuck
    /\ timer' = Interval /\ lead' = -Interval
    /\ IF lead > Interval
         THEN /\ tooSoon' = (tooSoon \/ (~stepped /\ age <= Deadline))
              /\ late' = (late \/ -timer > Interval)
              /\ UNCHANGED <<age, stepped>>
         ELSE age' = 0 /\ late' = FALSE /\ stepped' = FALSE /\ UNCHANGED tooSoon
    /\ UNCHANGED <<stuck, steps>>

Passes ==
    /\ age <= Deadline
    /\ age' = age + 1 /\ timer' = timer - 1 /\ lead' = lead + 1
    /\ UNCHANGED <<stuck, late, stepped, tooSoon, steps>>
\* the clock is set, ahead or back
ClockStep ==
    /\ steps < MaxSteps /\ steps' = steps + 1
    /\ \E by \in {-Deadline, Deadline} : lead' = lead + by
    /\ stepped' = TRUE
    /\ UNCHANGED <<age, timer, stuck, late, tooSoon>>
Sticks == ~stuck /\ stuck' = TRUE /\ UNCHANGED <<age, timer, lead, late, stepped, tooSoon, steps>>
\* systemd: no ping in time, and the service is killed and started
Killed ==
    /\ age > Deadline /\ steps < MaxSteps /\ steps' = steps + 1
    /\ age' = 0 /\ timer' = Interval /\ lead' = -Interval
    /\ stuck' = FALSE /\ late' = FALSE /\ stepped' = FALSE
    /\ UNCHANGED tooSoon

WatchdogNext ==
    /\ Tick \/ Passes \/ ClockStep \/ Sticks \/ Killed
    /\ UNCHANGED samplerVars

MonitorInit == SamplerInit /\ WatchdogInit
MonitorSpec == MonitorInit /\ [][SamplerNext \/ WatchdogNext]_monitorVars

-----------------------------------------------------------------------------
\* what the constants are asked for: WatchdogSec is told in units of which half is whole
BoundsAreSound ==
    /\ Hour \in Nat \ {0} /\ Retained \in Nat /\ MaxTime \in Nat
    /\ Deadline \in Nat /\ Deadline % 2 = 0

MonitorTypeOK ==
    /\ now \in Times /\ disk \in Uses /\ locked \in Uses
    /\ gauge \in [Metrics -> Uses] /\ samples \in [Times -> [Metrics -> SUBSET Uses]]
    /\ age \in 0..(Deadline + 1) /\ timer <= Interval

(* The gauge a sensor reads and the newest sample the pages draw say the   *)
(* same, which is how things are, once a pass that no other overlapped has *)
(* seen them.                                                              *)
SensorsAndPagesAgree ==
    fresh /\ passes = {} =>
      /\ gauge = [disk |-> disk, locked |-> locked]
      /\ LET newest == samples[Max(Taken(samples))] IN
           Max(Taken(samples)) >= now - Retained =>
             newest.locked = {locked} /\ newest.disk \subseteq {disk}

(* However often samples are rolled up, there is one for every hour in     *)
(* which there was one, made of what was read in that hour.                *)
HoursAreKept ==
    \A h \in DOMAIN readings : \A k \in Metrics :
      /\ readings[h][k] # {} => \E ts \in Taken(samples) : HourOf(ts) = h /\ samples[ts][k] # {}
      /\ \A ts \in Taken(samples) : HourOf(ts) = h => samples[ts][k] \subseteq readings[h][k]

(* While the clock is not set, a loop that is never late by more than an   *)
(* interval is not killed; and the ping that is withheld from one that is  *)
(* would have been too late, so that to withhold it changes nothing.       *)
OnlyLateLoopsAreKilled ==
    /\ age > Deadline => stuck \/ late \/ stepped \/ -timer > Interval
    /\ ~tooSoon

MonitorIsRight == SensorsAndPagesAgree /\ HoursAreKept /\ OnlyLateLoopsAreKilled
=============================================================================
