------------------------------ MODULE Sampler ------------------------------
(***************************************************************************)
(* The hardware sampler (benchmarker/hw_sampler.py): one tick after the    *)
(* other reads cumulative counters of the node and writes rates.  A read   *)
(* may fail (_read returns None).  The disk and the network counters are   *)
(* treated alike, the processor's otherwise.  Instantaneous values (memory *)
(* and the GPU rows) carry no state from tick to tick and are left out.    *)
(* A ratio is a pair <<numerator, denominator>>.                           *)
(***************************************************************************)
EXTENDS Integers

CONSTANTS
  Devices,   \* the counters kept in _prev_disk and _prev_net
  Moves,     \* by how much a counter may grow from one tick to the next
  Periods,   \* how far apart two ticks may be
  MaxTicks,
  Null

ASSUME SamplerAssumption ==
  /\ Moves \subseteq Nat /\ Periods \subseteq Nat \ {0} /\ MaxTicks \in Nat
  /\ Null \notin Nat \cup (Int \X Int) \cup [busy : Nat, total : Nat] \cup [first : Nat, last : Nat]

VARIABLES
  proc,      \* the node: its clock, processor ticks (busy, total) and counters
  _prev_cpu, _prev_t,
  _prev,     \* device -> _prev_disk, _prev_net
  node_row,  \* the row written last: the processor's share, and device -> rate
  ticks,
  reads,     \* history: device -> its first and its last good reading
  integral   \* history: device -> the rates times the intervals of their rows

samplerVars == <<proc, _prev_cpu, _prev_t, _prev, node_row, ticks, reads, integral>>

SamplerInit ==
  /\ proc = [now |-> 0, busy |-> 0, total |-> 0, moved |-> [d \in Devices |-> 0]]
  /\ _prev_cpu = Null /\ _prev_t = Null /\ _prev = [d \in Devices |-> Null]
  /\ node_row = [cpu |-> Null, over |-> Null, rate |-> [d \in Devices |-> Null]]
  /\ ticks = 0
  /\ reads = [d \in Devices |-> Null]
  /\ integral = [d \in Devices |-> 0]

cpu_pcts(prev, cur) ==
  IF prev = Null \/ cur = Null THEN Null
  ELSE IF cur.total <= prev.total THEN Null
  ELSE <<cur.busy - prev.busy, cur.total - prev.total>>

\* A sampler that forgets the last good reading, as it does the processor's.
KeptIfRead(prev, cur) == cur                                    \* mutant

\* The last good reading stays over a tick whose read fails.
Kept(prev, cur) == IF cur = Null THEN prev ELSE cur

\* The tick's own interval divides what may have moved over several.
rate(prev, cur, dt) ==
  IF cur = Null \/ prev = Null \/ dt = Null THEN Null ELSE <<cur - prev, dt>>

tick(now, cpu, cur) ==
  LET dt == IF _prev_t = Null THEN Null ELSE now.now - _prev_t
      rates == [d \in Devices |-> rate(_prev[d], cur[d], dt)]
  IN /\ node_row' = [cpu |-> cpu_pcts(_prev_cpu, cpu), over |-> dt, rate |-> rates]
     /\ _prev_cpu' = cpu
     /\ _prev' = [d \in Devices |-> Kept(_prev[d], cur[d])]
     /\ _prev_t' = now.now
     /\ proc' = now /\ ticks' = ticks + 1
     /\ reads' = [d \in Devices |->
          IF cur[d] = Null THEN reads[d]
          ELSE [first |-> IF reads[d] = Null THEN cur[d] ELSE reads[d].first,
                last |-> cur[d]]]
     /\ integral' = [d \in Devices |->
          IF rates[d] = Null THEN integral[d]
          ELSE integral[d] + (rates[d][1] * dt) \div rates[d][2]]

\* main: the next tick follows after the interval, or later when the last one took long.
Tick ==
  /\ ticks < MaxTicks
  /\ \E dt \in Periods, busy \in {0, 1}, grown \in [Devices -> Moves],
       cpuRead \in BOOLEAN, good \in SUBSET Devices :
       LET now == [now |-> proc.now + dt, busy |-> proc.busy + busy,
                   total |-> proc.total + dt,
                   moved |-> [d \in Devices |-> proc.moved[d] + grown[d]]]
       IN tick(now,
               IF cpuRead THEN [busy |-> now.busy, total |-> now.total] ELSE Null,
               [d \in Devices |-> IF d \in good THEN now.moved[d] ELSE Null])

SamplerNext == Tick

SamplerSpec == SamplerInit /\ [][SamplerNext]_samplerVars

(***************************************************************************)
(* Properties.                                                             *)
(***************************************************************************)

SamplerTypeOK ==
  /\ _prev_t \in Nat \cup {Null} /\ ticks \in 0..MaxTicks
  /\ _prev \in [Devices -> Nat \cup {Null}]
  /\ _prev_cpu \in [busy : Nat, total : Nat] \cup {Null}
  /\ reads \in [Devices -> [first : Nat, last : Nat] \cup {Null}]
  /\ integral \in [Devices -> Nat]

\* RatesAddUp: over any number of failed reads, the rates of the rows, each taken over its
\* row's interval, add up to what the counter moved between the first good reading and
\* the last, so that the totals and the averages of a window are right (tick: the previous
\* reading is replaced only by another); and a processor share speaks of its row's own
\* interval, never of a longer one whose samples failed.
RatesAddUp ==
  /\ \A d \in Devices : reads[d] # Null => integral[d] = reads[d].last - reads[d].first
  /\ node_row.cpu # Null => node_row.cpu[2] = node_row.over

=============================================================================
