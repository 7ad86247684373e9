-------------------------------- MODULE Lanes --------------------------------
(***************************************************************************)
(* The cooperative lane scheduler of zown-vm/src/lanes.rs: `k rn` runs k   *)
(* ticks, a tick runs every registered lane and then at most one compute   *)
(* job.  The code of a program runs outside `rn`, in the body of a lane or *)
(* in a job, and there it may register lanes, spawn jobs, change the       *)
(* request with `lc`, use the pipes, or fault.                             *)
(*                                                                         *)
(* Values in the pipes are only counted, a job is a name that is used      *)
(* again once the job has been taken, and of the trace the letters of the  *)
(* current tick are kept.  The counter `ws` reports is left out.           *)
(***************************************************************************)
EXTENDS Integers, Sequences

CONSTANTS
  Cpus,       \* the answers `cpus()` may give; the host may change them
  Requests,   \* the operands of `lc`
  Job,        \* names for spawned blocks
  MaxTicks,   \* bound: operand of `rn`
  PipeCap,    \* PIPE_CAP (8 in the code)
  Wrap        \* rr is kept modulo Wrap (2^64 in the code)

ASSUME CpusAssumption    == Cpus \subseteq Nat \ {0} /\ Cpus # {}
ASSUME RequestAssumption == Requests \subseteq Nat
ASSUME BoundAssumption   == MaxTicks \in Nat /\ PipeCap \in Nat /\ Wrap \in Nat \ {0}

Lane == {"m", "n"}
NoLane == "none"
NoRequest == -1

VARIABLES
  phase,      \* "out": code outside `rn`; "tick": between two ticks;
              \* "lanes": between two lanes of a tick; "lane", "job": in a body
  left,       \* ticks `rn` still has to run
  todo,       \* lanes the current tick still has to run
  due,        \* history: the lanes registered when the tick began
  trace,      \* the letters the current tick has added to LaneState.trace
  lane,       \* LaneState.lane
  inTick,     \* LaneState.in_tick
  bodies,     \* the keys of LaneState.bodies
  pipes,      \* the lengths of LaneState.pipes
  requested,  \* LaneState.requested
  jobs,       \* LaneState.jobs
  rr          \* LaneState.rr

control == <<phase, left, todo, due, trace, lane, inTick>>
vars == <<phase, left, todo, due, trace, lane, inTick, bodies, pipes, requested, jobs, rr>>

-----------------------------------------------------------------------------
Least(a, b) == IF a <= b THEN a ELSE b
Greatest(a, b) == IF a >= b THEN a ELSE b

(* room_for, grant_for, workers_for. *)
Room(c) == Greatest(c - 1, 1)
Granted(c, r) == IF r = NoRequest THEN Least(2, Room(c)) ELSE Least(r, Room(c))
Workers(c, g) == Greatest(c - g, 1)

(* ensure_workers asks for the CPU count twice. *)
WorkerCounts(r) == {Workers(c, Granted(d, r)) : c, d \in Cpus}

(* Shrinking appends the deque of each worker that goes to the last one    *)
(* that stays.                                                             *)
Resize(js, n) ==
  LET joined[i \in 1..Len(js)] ==
        IF i = Len(js) THEN js[i] ELSE js[i] \o joined[i + 1]
  IN [i \in 1..n |-> IF i > Len(js) THEN <<>>
                     ELSE IF i = n THEN joined[n] ELSE js[i]]

Queued == UNION {{jobs[i][k] : k \in 1..Len(jobs[i])} : i \in 1..Len(jobs)}

(* take_job: the worker's own deque from the left, otherwise the first     *)
(* non-empty deque after it from the right.                                *)
Own(js) == (rr % Len(js)) + 1
Following(js, step) == (((rr % Len(js)) + step) % Len(js)) + 1

TakenFrom(js) ==
  IF js[Own(js)] # <<>> THEN 0
  ELSE IF \E s \in 1..Len(js) - 1 : js[Following(js, s)] # <<>>
       THEN CHOOSE s \in 1..Len(js) - 1 :
              /\ js[Following(js, s)] # <<>>
              /\ \A t \in 1..s - 1 : js[Following(js, t)] = <<>>
       ELSE -1

FrontOf(q) == SubSeq(q, 1, Len(q) - 1)

\* Mutated form of Remaining: the worker's own deque is taken from the right.
OwnFromRight(js, s) ==
  LET w == IF s = 0 THEN Own(js) ELSE Following(js, s)
  IN [js EXCEPT ![w] = FrontOf(js[w])]

\* Mutated form of Remaining: a steal empties the other worker's deque.
StealsAll(js, s) ==
  [js EXCEPT ![Following(js, s)] = IF s = 0 THEN Tail(@) ELSE <<>>]

Remaining(js, s) ==
  IF s = 0 THEN [js EXCEPT ![Own(js)] = Tail(js[Own(js)])]
  ELSE [js EXCEPT ![Following(js, s)] = FrontOf(js[Following(js, s)])]

-----------------------------------------------------------------------------
TypeOK ==
  /\ phase \in {"out", "tick", "lanes", "lane", "job"}
  /\ left \in 0..MaxTicks
  /\ todo \in Seq(Lane) /\ due \in Seq(Lane)
  /\ trace \in Seq(Lane \cup {"c"})
  /\ lane \in Lane \cup {NoLane}
  /\ inTick \in BOOLEAN
  /\ bodies \in SUBSET Lane
  /\ pipes \in [Lane -> 0..PipeCap]
  /\ requested \in Requests \cup {NoRequest}
  /\ jobs \in Seq(Seq(Job))
  /\ rr \in 0..Wrap - 1

Init ==
  /\ phase = "out" /\ left = 0 /\ todo = <<>> /\ due = <<>> /\ trace = <<>>
  /\ lane = NoLane /\ inTick = FALSE
  /\ bodies = {} /\ pipes = [l \in Lane |-> 0]
  /\ requested = NoRequest /\ jobs = <<>> /\ rr = 0

-----------------------------------------------------------------------------
(* Words of the program, wherever its code runs. *)
Running == phase \in {"out", "lane", "job"}

(* `~m`, `~n` *)
Register(l) ==
  /\ Running
  /\ bodies' = bodies \cup {l}
  /\ UNCHANGED <<control, pipes, requested, jobs, rr>>

(* `^` *)
Spawn(j) ==
  /\ Running /\ j \notin Queued
  /\ \E n \in WorkerCounts(requested) :
       LET js == Resize(jobs, n) IN jobs' = [js EXCEPT ![1] = Append(js[1], j)]
  /\ UNCHANGED <<control, bodies, pipes, requested, rr>>

(* `lc`; a negative operand is a fault. *)
Request(r) ==
  /\ Running
  /\ requested' = r
  /\ \E n \in WorkerCounts(r) : jobs' = Resize(jobs, n)
  /\ UNCHANGED <<control, bodies, pipes, rr>>

(* `|`; outside a lane, and when the pipe is full, it is a fault. *)
Send ==
  /\ Running /\ lane # NoLane /\ pipes[lane] < PipeCap
  /\ pipes' = [pipes EXCEPT ![lane] = pipes[lane] + 1]
  /\ UNCHANGED <<control, bodies, requested, jobs, rr>>

(* `pm`, `pn`; an empty pipe is a fault. *)
Pull(l) ==
  /\ Running /\ pipes[l] > 0
  /\ pipes' = [pipes EXCEPT ![l] = pipes[l] - 1]
  /\ UNCHANGED <<control, bodies, requested, jobs, rr>>

(* begin_rn; inside a tick, and with a negative operand, it is a fault. *)
BeginRn(k) ==
  /\ Running /\ ~inTick
  /\ phase' = "tick" /\ left' = k /\ inTick' = TRUE
  /\ UNCHANGED <<todo, due, trace, lane, bodies, pipes, requested, jobs, rr>>

\* Mutated form of SliceFault: the fault skips end_rn.
LeaveFlagSet ==
  /\ phase \in {"lane", "job"}
  /\ phase' = "out" /\ left' = 0 /\ todo' = <<>> /\ lane' = NoLane
  /\ UNCHANGED <<due, trace, inTick, bodies, pipes, requested, jobs, rr>>

(* A fault that the body of a lane or job does not catch ends `rn`: the    *)
(* lane is left, nothing is traced and the ticks that remain do not run.   *)
(* Whatever the code outside does with it, it is outside again.            *)
SliceFault ==
  /\ phase \in {"lane", "job"}
  /\ phase' = "out" /\ left' = 0 /\ todo' = <<>> /\ lane' = NoLane /\ inTick' = FALSE
  /\ UNCHANGED <<due, trace, bodies, pipes, requested, jobs, rr>>

-----------------------------------------------------------------------------
(* The tick. *)

(* lane_schedule: the first `granted` registered lanes, then the rest. *)
Live == (IF "m" \in bodies THEN <<"m">> ELSE <<>>)
          \o (IF "n" \in bodies THEN <<"n">> ELSE <<>>)

\* Mutated form of Schedule: the lanes beyond the grant are skipped.
SchedulePinned(g) == SubSeq(Live, 1, Least(g, Len(Live)))

Schedule(g) == SubSeq(Live, 1, Least(g, Len(Live)))
                 \o SubSeq(Live, Least(g, Len(Live)) + 1, Len(Live))

\* Mutated form of NextTick: the loop of `rn` does not count.
NextTickUncounted == left

NextTick == left - 1

StartTick ==
  /\ phase = "tick" /\ left > 0
  /\ \E n \in WorkerCounts(requested), c \in Cpus :
       /\ jobs' = Resize(jobs, n)
       /\ todo' = Schedule(Granted(c, requested))
  /\ due' = Live /\ trace' = <<>>
  /\ phase' = "lanes" /\ left' = NextTick
  /\ UNCHANGED <<lane, inTick, bodies, pipes, requested, rr>>

EnterLane ==
  /\ phase = "lanes" /\ todo # <<>>
  /\ lane' = Head(todo) /\ todo' = Tail(todo)
  /\ phase' = "lane"
  /\ UNCHANGED <<left, due, trace, inTick, bodies, pipes, requested, jobs, rr>>

LeaveLane ==
  /\ phase = "lane"
  /\ trace' = Append(trace, lane)
  /\ lane' = NoLane /\ phase' = "lanes"
  /\ UNCHANGED <<left, todo, due, inTick, bodies, pipes, requested, jobs, rr>>

TakeJob ==
  /\ phase = "lanes" /\ todo = <<>>
  /\ rr' = (rr + 1) % Wrap
  /\ \E n \in WorkerCounts(requested) :
       LET js == Resize(jobs, n)
           s  == TakenFrom(js)
       IN /\ jobs' = IF s = -1 THEN js ELSE Remaining(js, s)
          /\ phase' = IF s = -1 THEN "tick" ELSE "job"
  /\ UNCHANGED <<left, todo, due, trace, lane, inTick, bodies, pipes, requested>>

LeaveJob ==
  /\ phase = "job"
  /\ trace' = Append(trace, "c")
  /\ phase' = "tick"
  /\ UNCHANGED <<left, todo, due, lane, inTick, bodies, pipes, requested, jobs, rr>>

EndRn ==
  /\ phase = "tick" /\ left = 0
  /\ phase' = "out" /\ inTick' = FALSE
  /\ UNCHANGED <<left, todo, due, trace, lane, bodies, pipes, requested, jobs, rr>>

-----------------------------------------------------------------------------
Program ==
  \/ \E l \in Lane : Register(l) \/ Pull(l)
  \/ \E j \in Job : Spawn(j)
  \/ \E r \in Requests : Request(r)
  \/ Send
  \/ \E k \in 0..MaxTicks : BeginRn(k)

Scheduler == StartTick \/ EnterLane \/ TakeJob \/ EndRn

SliceEnd == LeaveLane \/ LeaveJob \/ SliceFault

Next == Program \/ Scheduler \/ SliceEnd

Spec == Init /\ [][Next]_vars

(* The scheduler runs on the one thread of the VM and never waits; that    *)
(* the block of a lane or a job returns is an assumption on the program.   *)
Returns == LeaveLane \/ LeaveJob
FairSpec == Spec /\ WF_vars(Scheduler) /\ WF_vars(Returns)

-----------------------------------------------------------------------------
(* Properties. *)

(* The two flags that decide whether `rn` and `|` are legal say where the  *)
(* code runs, also after a fault has left `rn` from inside a lane or job.  *)
FlagsMatchPhase ==
  /\ inTick = (phase # "out")
  /\ (lane # NoLane) = (phase = "lane")

(* No compute job runs in a tick before every lane that was registered     *)
(* when the tick began has run to its end, input before net, pinned or     *)
(* fiber, whatever those lanes spawn, register or request.                 *)
LanesBeforeJob == phase = "job" => trace = due

(* A job leaves the deques only to run, one at a time, and the one that    *)
(* runs leaves them: no rebalancing, steal or fault loses a job or lets it *)
(* run twice.                                                              *)
JobConservation ==
  [][LET started == phase = "lanes" /\ phase' = "job" IN
     /\ (\E j \in Queued : j \notin Queued') => started
     /\ started => \E j \in Queued : Queued' = Queued \ {j}]_vars

(* `rn` returns when the blocks it runs do. *)
RnReturns == inTick ~> ~inTick

(* A queued job is run, however many jobs are spawned after it, if the     *)
(* program keeps the ticks coming and from some moment on neither its      *)
(* requests nor the host change the number of workers.                     *)
JobsStart ==
  ([]<><<TakeJob>>_vars /\ <>[][Len(jobs') = Len(jobs)]_vars)
     => \A j \in Job : j \in Queued ~> j \notin Queued
=============================================================================
