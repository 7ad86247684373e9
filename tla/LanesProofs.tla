----------------------------- MODULE LanesProofs -----------------------------
(***************************************************************************)
(* Theorems about Lanes for every set of CPU counts, requests and jobs and *)
(* every bound: first what the flags and the lanes of a tick promise, then *)
(* that the deques lose no job and run none twice.                         *)
(*                                                                         *)
(* Theorems about SnapshotFile follow, for any number of processes,        *)
(* graphs, files and lines.                                                *)
(***************************************************************************)
EXTENDS Lanes, SnapshotFile, SequenceTheorems, WellFoundedInduction, TLAPS

-----------------------------------------------------------------------------
(* On a machine with more than one CPU the granted slots and the workers   *)
(* add up to the CPUs and there is always a worker, for every request;     *)
(* one CPU is still one worker.                                            *)
THEOREM GrantMath ==
  ASSUME NEW c \in Nat \ {0}, NEW r \in Nat \cup {NoRequest}
  PROVE  /\ Granted(c, r) \in Nat /\ Workers(c, Granted(c, r)) >= 1
         /\ c > 1 => Granted(c, r) + Workers(c, Granted(c, r)) = c
BY DEF Granted, Workers, Room, Least, Greatest, NoRequest

LEMMA LiveType == Live \in Seq(Lane)
<1>1. "m" \in Lane /\ "n" \in Lane
  BY DEF Lane
<1>2. <<"m">> \in Seq(Lane) /\ <<"n">> \in Seq(Lane) /\ <<>> \in Seq(Lane)
  BY <1>1, EmptySeq
<1>. QED
  BY <1>2, ConcatProperties DEF Live

(* Splitting the registered lanes into pinned ones and fibers reorders and *)
(* drops none of them.                                                     *)
LEMMA ScheduleIsLive ==
  ASSUME NEW g \in Nat
  PROVE  Schedule(g) = Live
<1> DEFINE k == Least(g, Len(Live))
<1>1. Len(Live) \in Nat
  BY LiveType
<1>2. k \in 0..Len(Live)
  BY <1>1 DEF Least
<1>3. SubSeq(Live, 1, k) \o SubSeq(Live, k + 1, Len(Live)) = SubSeq(Live, 1, Len(Live))
  <2>1. 1 \in 1..Len(Live) + 1 /\ k \in 1 - 1..Len(Live) /\ Len(Live) \in k..Len(Live)
    BY <1>1, <1>2
  <2>. QED
    BY <2>1, LiveType, ConcatAdjacentSubSeq
<1>4. SubSeq(Live, 1, Len(Live)) = Live
  BY LiveType, SubSeqFull
<1>. QED
  BY <1>3, <1>4 DEF Schedule

-----------------------------------------------------------------------------
(* The inductive invariant: in a tick, what has been traced, the lane that *)
(* runs and what is still to do are together the lanes due.                *)
Types ==
  /\ phase \in {"out", "tick", "lanes", "lane", "job"}
  /\ todo \in Seq(Lane) /\ due \in Seq(Lane)
  /\ trace \in Seq(Lane \cup {"c"})
  /\ lane \in Lane \cup {NoLane}
  /\ requested \in Nat \cup {NoRequest}

Progress ==
  /\ phase = "lanes" => trace \in Seq(Lane) /\ trace \o todo = due
  /\ phase = "lane" => trace \in Seq(Lane) /\ Append(trace, lane) \o todo = due
  /\ phase = "job" => trace = due

IInv == Types /\ FlagsMatchPhase /\ Progress

LEMMA InitIInv == Init => IInv
BY EmptySeq DEF Init, IInv, Types, FlagsMatchPhase, Progress, NoLane, NoRequest

(* Words of the program leave the tick as it is. *)
LEMMA ProgramStep ==
  ASSUME IInv, Program
  PROVE  IInv'
<1>1. CASE \E l \in Lane : Register(l) \/ Pull(l)
  BY <1>1 DEF IInv, Types, FlagsMatchPhase, Progress, Register, Pull, control
<1>2. CASE \E j \in Job : Spawn(j)
  BY <1>2 DEF IInv, Types, FlagsMatchPhase, Progress, Spawn, control
<1>3. CASE \E r \in Requests : Request(r)
  BY <1>3, RequestAssumption DEF IInv, Types, FlagsMatchPhase, Progress, Request, control
<1>4. CASE Send
  BY <1>4 DEF IInv, Types, FlagsMatchPhase, Progress, Send, control
<1>5. CASE \E k \in 0..MaxTicks : BeginRn(k)
  BY <1>5 DEF IInv, Types, FlagsMatchPhase, Progress, BeginRn, Running
<1>. QED
  BY <1>1, <1>2, <1>3, <1>4, <1>5 DEF Program

LEMMA StartTickStep == ASSUME IInv, StartTick PROVE IInv'
<1>1. todo' = Live /\ due' = Live /\ trace' = <<>> /\ Live \in Seq(Lane)
  <2>1. PICK c \in Cpus : todo' = Schedule(Granted(c, requested))
    BY DEF StartTick
  <2>2. Granted(c, requested) \in Nat
    BY GrantMath, CpusAssumption DEF IInv, Types
  <2>. QED
    BY <2>1, <2>2, ScheduleIsLive, LiveType DEF StartTick
<1>2. trace' \o todo' = due' /\ trace' \in Seq(Lane)
  BY <1>1, ConcatEmptySeq
<1>. QED
  BY <1>1, <1>2 DEF IInv, Types, FlagsMatchPhase, Progress, StartTick

LEMMA EnterLaneStep == ASSUME IInv, EnterLane PROVE IInv'
<1>1. /\ todo # <<>> /\ todo \in Seq(Lane) /\ trace \in Seq(Lane) /\ trace \o todo = due
      /\ UNCHANGED <<trace, due>>
  BY DEF EnterLane, IInv, Types, Progress
<1>2. lane' \in Lane /\ todo' \in Seq(Lane) /\ lane' = Head(todo) /\ todo' = Tail(todo)
  BY <1>1, HeadTailProperties DEF EnterLane
<1>3. Append(trace, lane') \o todo' = trace \o todo
  <2>1. todo = <<lane'>> \o todo'
    BY <1>1, <1>2
  <2>2. Append(trace, lane') = trace \o <<lane'>> /\ <<lane'>> \in Seq(Lane)
    BY <1>1, <1>2, AppendIsConcat
  <2>. QED
    BY <1>1, <1>2, <2>1, <2>2, ConcatAssociative
<1>4. lane' # NoLane
  BY <1>2 DEF Lane, NoLane
<1>. QED
  BY <1>1, <1>2, <1>3, <1>4 DEF IInv, Types, FlagsMatchPhase, Progress, EnterLane

LEMMA LeaveLaneStep == ASSUME IInv, LeaveLane PROVE IInv'
<1>1. lane \in Lane /\ trace \in Seq(Lane) /\ Append(trace, lane) \o todo = due
  BY DEF LeaveLane, IInv, Types, FlagsMatchPhase, Progress
<1>2. trace' \in Seq(Lane) /\ trace' = Append(trace, lane)
  BY <1>1 DEF LeaveLane
<1>3. trace' \in Seq(Lane \cup {"c"})
  BY <1>2, SeqMonotonic
<1>. QED
  BY <1>1, <1>2, <1>3 DEF IInv, Types, FlagsMatchPhase, Progress, LeaveLane, NoLane

LEMMA TakeJobStep == ASSUME IInv, TakeJob PROVE IInv'
<1>1. trace = due
  BY ConcatEmptySeq DEF TakeJob, IInv, Types, Progress
<1>2. /\ phase' \in {"tick", "job"} /\ phase = "lanes"
      /\ UNCHANGED <<todo, due, trace, lane, inTick, requested>>
  BY DEF TakeJob
<1>3. Types' /\ Progress'
  BY <1>1, <1>2 DEF IInv, Types, Progress
<1>4. FlagsMatchPhase'
  BY <1>2 DEF IInv, FlagsMatchPhase
<1>. QED
  BY <1>3, <1>4 DEF IInv

LEMMA NextIInv == IInv /\ [Next]_vars => IInv'
<1> SUFFICES ASSUME IInv, [Next]_vars PROVE IInv'
  OBVIOUS
<1>1. CASE LeaveJob
  <2>1. trace' \in Seq(Lane \cup {"c"})
    BY <1>1, AppendProperties DEF LeaveJob, IInv, Types
  <2>. QED
    BY <1>1, <2>1 DEF IInv, Types, FlagsMatchPhase, Progress, LeaveJob
<1>2. CASE EndRn
  BY <1>2 DEF IInv, Types, FlagsMatchPhase, Progress, EndRn
<1>3. CASE SliceFault
  BY <1>3, EmptySeq DEF IInv, Types, FlagsMatchPhase, Progress, SliceFault
<1>4. CASE UNCHANGED vars
  BY <1>4 DEF IInv, Types, FlagsMatchPhase, Progress, vars
<1>. QED
  BY <1>1, <1>2, <1>3, <1>4, ProgramStep, StartTickStep, EnterLaneStep,
     LeaveLaneStep, TakeJobStep
     DEF Next, Scheduler, SliceEnd

THEOREM InductiveInvariant == Spec => []IInv
BY InitIInv, NextIInv, PTL DEF Spec

(* The flags that guard `rn` and `|` always say where the code runs.       *)
THEOREM FlagsTheorem == Spec => []FlagsMatchPhase
BY InductiveInvariant, PTL DEF IInv

(* A queued job cannot skip a lane, on any host and for any request.       *)
THEOREM LanesTheorem == Spec => []LanesBeforeJob
<1>1. IInv => LanesBeforeJob
  BY DEF IInv, Progress, LanesBeforeJob
<1>. QED
  BY <1>1, InductiveInvariant, PTL

-----------------------------------------------------------------------------
(* Induction, with a set for the predicate.                                *)
LEMMA LeastElement ==
  ASSUME NEW T \in SUBSET Nat, T # {}
  PROVE  \E x \in T : \A y \in T : ~(y < x)
<1>1. IsWellFoundedOn(OpToRel(<, Nat), Nat)
  BY NatLessThanWellFounded
<1>2. PICK x \in T : \A y \in T : ~(<<y, x>> \in OpToRel(<, Nat))
  BY <1>1, WFMin
<1>3. OpToRel(<, Nat) = {z \in Nat \X Nat : z[1] < z[2]}
  BY DEF OpToRel
<1>. QED
  BY <1>2, <1>3

LEMMA Induction ==
  ASSUME NEW P, 0 \in P, \A n \in Nat : n \in P => n + 1 \in P
  PROVE  Nat \subseteq P
<1> SUFFICES ASSUME Nat \ P # {} PROVE FALSE
  OBVIOUS
<1>1. PICK x \in Nat \ P : \A y \in Nat \ P : ~(y < x)
  BY LeastElement
<1>2. x # 0 /\ x \in Nat /\ x - 1 \in Nat /\ x - 1 < x /\ (x - 1) + 1 = x
  BY <1>1
<1>3. x - 1 \in P
  BY <1>1, <1>2
<1>. QED
  BY <1>1, <1>2, <1>3

-----------------------------------------------------------------------------
(* The jobs in a deque, and that each is there once.                       *)
Held(q) == {q[k] : k \in 1..Len(q)}
Single(q) == \A k, m \in 1..Len(q) : q[k] = q[m] => k = m

(* The jobs in the deques, and that each is in one place.                  *)
Names(js) == UNION {Held(js[i]) : i \in 1..Len(js)}
Placed(js) ==
  /\ \A i \in 1..Len(js) : Single(js[i])
  /\ \A i, m \in 1..Len(js) : i # m => Held(js[i]) \cap Held(js[m]) = {}

LEMMA EmptyHolds == Held(<<>>) = {} /\ Single(<<>>)
BY DEF Held, Single

LEMMA ConcatHolds ==
  ASSUME NEW p \in Seq(Job), NEW q \in Seq(Job), Single(p), Single(q), Held(p) \cap Held(q) = {}
  PROVE  p \o q \in Seq(Job) /\ Held(p \o q) = Held(p) \cup Held(q) /\ Single(p \o q)
<1> DEFINE a == Len(p)
           b == Len(q)
           r == p \o q
<1>1. /\ a \in Nat /\ b \in Nat /\ r \in Seq(Job) /\ Len(r) = a + b
      /\ \A k \in 1..a : r[k] = p[k]
      /\ \A k \in 1..b : r[a + k] = q[k]
  OBVIOUS
<1> HIDE DEF r, a, b
<1>2. \A k \in 1..a + b : k \in 1..a \/ \E m \in 1..b : k = a + m
  <2> SUFFICES ASSUME NEW k \in 1..a + b, k \notin 1..a PROVE \E m \in 1..b : k = a + m
    OBVIOUS
  <2>1. k - a \in 1..b /\ k = a + (k - a)
    BY <1>1
  <2>. QED
    BY <2>1
<1>3. \A m \in 1..a : m \in 1..a + b
  BY <1>1
<1>4. \A m \in 1..b : a + m \in 1..a + b
  BY <1>1
<1>5. Held(p) = {p[k] : k \in 1..a} /\ Held(q) = {q[k] : k \in 1..b}
  BY DEF Held, a, b
<1>6. Held(r) = {r[k] : k \in 1..a + b}
  BY <1>1 DEF Held
<1>7. Held(r) = Held(p) \cup Held(q)
  <2>1. ASSUME NEW e \in Held(r) PROVE e \in Held(p) \cup Held(q)
    <3>1. PICK k \in 1..a + b : e = r[k]
      BY <1>6
    <3>2. CASE k \in 1..a
      BY <1>1, <1>5, <3>1, <3>2
    <3>3. CASE k \notin 1..a
      <4>1. PICK m \in 1..b : k = a + m
        BY <1>2, <3>3
      <4>2. e = q[m]
        BY <1>1, <3>1, <4>1
      <4>. QED
        BY <1>5, <4>2
    <3>. QED
      BY <3>2, <3>3
  <2>2. ASSUME NEW e \in Held(p) PROVE e \in Held(r)
    BY <1>1, <1>3, <1>5, <1>6
  <2>3. ASSUME NEW e \in Held(q) PROVE e \in Held(r)
    <3>1. PICK m \in 1..b : e = q[m]
      BY <1>5
    <3>2. e = r[a + m] /\ a + m \in 1..a + b
      BY <1>1, <1>4, <3>1
    <3>. QED
      BY <1>6, <3>2
  <2>. QED
    BY <2>1, <2>2, <2>3
<1>8. Single(r)
  <2> SUFFICES ASSUME NEW k \in 1..a + b, NEW m \in 1..a + b, r[k] = r[m] PROVE k = m
    BY <1>1 DEF Single
  <2>1. CASE k \in 1..a /\ m \in 1..a
    BY <1>1, <2>1 DEF Single, a
  <2>2. CASE k \in 1..a /\ m \notin 1..a
    <3>1. PICK d \in 1..b : m = a + d
      BY <1>2, <2>2
    <3>2. p[k] \in Held(p) /\ q[d] \in Held(q) /\ p[k] = q[d]
      BY <1>1, <1>5, <2>2, <3>1
    <3>. QED
      BY <3>2
  <2>3. CASE k \notin 1..a /\ m \in 1..a
    <3>1. PICK d \in 1..b : k = a + d
      BY <1>2, <2>3
    <3>2. p[m] \in Held(p) /\ q[d] \in Held(q) /\ p[m] = q[d]
      BY <1>1, <1>5, <2>3, <3>1
    <3>. QED
      BY <3>2
  <2>4. CASE k \notin 1..a /\ m \notin 1..a
    <3>1. PICK c \in 1..b, d \in 1..b : k = a + c /\ m = a + d
      BY <1>2, <2>4
    <3>2. q[c] = q[d]
      BY <1>1, <3>1
    <3>3. c = d
      BY <3>2 DEF Single, b
    <3>. QED
      BY <3>1, <3>3
  <2>. QED
    BY <2>1, <2>2, <2>3, <2>4
<1>. QED
  BY <1>1, <1>7, <1>8 DEF r

LEMMA TailHolds ==
  ASSUME NEW q \in Seq(Job), q # <<>>, Single(q)
  PROVE  /\ Tail(q) \in Seq(Job) /\ q[1] \in Held(q)
         /\ Held(Tail(q)) = Held(q) \ {q[1]} /\ Single(Tail(q))
<1> DEFINE t == Tail(q)
<1>1. PICK n \in Nat : Len(q) = n + 1
  <2>1. Len(q) - 1 \in Nat /\ Len(q) = (Len(q) - 1) + 1
    OBVIOUS
  <2>. QED
    BY <2>1
<1>2. t \in Seq(Job) /\ Len(t) = n /\ \A k \in 1..n : t[k] = q[k + 1]
  BY <1>1
<1> HIDE DEF t
<1>3. 1 \in 1..n + 1 /\ \A k \in 1..n : k + 1 \in 1..n + 1 /\ k + 1 # 1
  BY <1>1
<1>4. \A k \in 1..n + 1 : k = 1 \/ \E m \in 1..n : k = m + 1
  <2> SUFFICES ASSUME NEW k \in 1..n + 1, k # 1 PROVE \E m \in 1..n : k = m + 1
    OBVIOUS
  <2>1. k - 1 \in 1..n /\ k = (k - 1) + 1
    BY <1>1
  <2>. QED
    BY <2>1
<1>5. Held(q) = {q[k] : k \in 1..n + 1} /\ Held(t) = {t[k] : k \in 1..n}
  BY <1>1, <1>2 DEF Held
<1>6. \A k, m \in 1..n + 1 : q[k] = q[m] => k = m
  BY <1>1 DEF Single
<1>7. Held(t) = Held(q) \ {q[1]} /\ q[1] \in Held(q)
  <2>1. ASSUME NEW e \in Held(t) PROVE e \in Held(q) /\ e # q[1]
    <3>1. PICK k \in 1..n : e = t[k]
      BY <1>5
    <3>2. PICK m \in 1..n + 1 : m = k + 1 /\ m # 1
      BY <1>3
    <3>3. e = q[m]
      BY <1>2, <3>1, <3>2
    <3>. QED
      BY <1>3, <1>5, <1>6, <3>2, <3>3
  <2>2. ASSUME NEW e \in Held(q), e # q[1] PROVE e \in Held(t)
    <3>1. PICK k \in 1..n + 1 : e = q[k] /\ k # 1
      BY <1>5, <2>2
    <3>2. PICK m \in 1..n : k = m + 1
      BY <1>4, <3>1
    <3>3. e = t[m]
      BY <1>2, <3>1, <3>2
    <3>. QED
      BY <1>5, <3>3
  <2>. QED
    BY <1>3, <1>5, <2>1, <2>2
<1>8. Single(t)
  <2> SUFFICES ASSUME NEW k \in 1..n, NEW m \in 1..n, t[k] = t[m] PROVE k = m
    BY <1>2 DEF Single
  <2>1. PICK a \in 1..n + 1, b \in 1..n + 1 : a = k + 1 /\ b = m + 1
    BY <1>3
  <2>2. q[a] = q[b]
    BY <1>2, <2>1
  <2>3. a = b
    BY <1>6, <2>2
  <2>. QED
    BY <2>1, <2>3
<1>. QED
  BY <1>2, <1>7, <1>8 DEF t

LEMMA FrontHolds ==
  ASSUME NEW q \in Seq(Job), q # <<>>, Single(q)
  PROVE  /\ FrontOf(q) \in Seq(Job) /\ q[Len(q)] \in Held(q)
         /\ Held(FrontOf(q)) = Held(q) \ {q[Len(q)]} /\ Single(FrontOf(q))
<1> DEFINE t == FrontOf(q)
<1>1. PICK n \in Nat : Len(q) = n + 1
  <2>1. Len(q) - 1 \in Nat /\ Len(q) = (Len(q) - 1) + 1
    OBVIOUS
  <2>. QED
    BY <2>1
<1>2. t \in Seq(Job) /\ Len(t) = n /\ \A k \in 1..n : t[k] = q[k]
  <2>1. (n + 1) - 1 = n /\ n <= Len(q)
    BY <1>1
  <2>2. t = SubSeq(q, 1, n)
    BY <1>1, <2>1 DEF FrontOf
  <2>3. t = [k \in 1..n |-> q[k]]
    BY <2>2
  <2>4. \A k \in 1..n : q[k] \in Job
    BY <1>1
  <2>. QED
    BY <2>3, <2>4
<1> HIDE DEF t
<1>3. n + 1 \in 1..n + 1 /\ \A k \in 1..n : k \in 1..n + 1 /\ k # n + 1
  BY <1>1
<1>4. \A k \in 1..n + 1 : k = n + 1 \/ k \in 1..n
  BY <1>1
<1>5. Held(q) = {q[k] : k \in 1..n + 1} /\ Held(t) = {t[k] : k \in 1..n}
  BY <1>1, <1>2 DEF Held
<1>6. \A k, m \in 1..n + 1 : q[k] = q[m] => k = m
  BY <1>1 DEF Single
<1>7. Held(t) = Held(q) \ {q[n + 1]} /\ q[n + 1] \in Held(q)
  BY <1>2, <1>3, <1>4, <1>5, <1>6
<1>8. Single(t)
  BY <1>2, <1>3, <1>6 DEF Single
<1>. QED
  BY <1>1, <1>2, <1>7, <1>8 DEF t

-----------------------------------------------------------------------------
(* Resize: what the deques hold after it is what they held before.         *)
Joins(js, g) ==
  g = [i \in 1..Len(js) |-> IF i = Len(js) THEN js[i] ELSE js[i] \o g[i + 1]]

(* The recursion of Resize, from c on. *)
JoinsFrom(js, c, g) ==
  /\ g \in [c..Len(js) -> Seq(Job)]
  /\ \A i \in c..Len(js) : g[i] = IF i = Len(js) THEN js[i] ELSE js[i] \o g[i + 1]

LEMMA JoinsOneMore ==
  ASSUME NEW js \in Seq(Seq(Job)), NEW c \in 1..Len(js), NEW g, JoinsFrom(js, c + 1, g)
  PROVE  \E h : JoinsFrom(js, c, h)
<1>1. PICK L \in Nat : L = Len(js) /\ c \in 1..L
  OBVIOUS
<1>2. \A i \in 1..L : js[i] \in Seq(Job)
  BY <1>1
<1> DEFINE first == IF c = L THEN js[c] ELSE js[c] \o g[c + 1]
           h == [i \in c..L |-> IF i = c THEN first ELSE g[i]]
<1>3. /\ g \in [c + 1..L -> Seq(Job)]
      /\ \A i \in c + 1..L : g[i] = IF i = L THEN js[i] ELSE js[i] \o g[i + 1]
  BY <1>1 DEF JoinsFrom
<1>4. first \in Seq(Job)
  <2>1. CASE c = L
    BY <1>1, <1>2, <2>1
  <2>2. CASE c # L
    <3>1. c + 1 \in c + 1..L
      BY <1>1, <2>2
    <3>2. g[c + 1] \in Seq(Job) /\ js[c] \in Seq(Job)
      BY <1>1, <1>2, <1>3, <3>1
    <3>3. js[c] \o g[c + 1] \in Seq(Job)
      BY <3>2
    <3>. QED
      BY <2>2, <3>3
  <2>. QED
    BY <2>1, <2>2
<1> HIDE DEF first
<1>5. \A i \in c..L : i = c \/ i \in c + 1..L
  BY <1>1
<1>6. h \in [c..L -> Seq(Job)]
  BY <1>3, <1>4, <1>5
<1>7. h[c] = first /\ \A i \in c + 1..L : h[i] = g[i]
  <2>1. c \in c..L /\ \A i \in c + 1..L : i \in c..L /\ i # c
    BY <1>1
  <2>. QED
    BY <2>1
<1> HIDE DEF h
<1>8. ASSUME NEW i \in c..L PROVE h[i] = IF i = L THEN js[i] ELSE js[i] \o h[i + 1]
  <2>1. i = L \/ i + 1 \in c + 1..L
    BY <1>1
  <2>2. CASE i = L
    BY <1>3, <1>5, <1>7, <2>2 DEF first
  <2>3. CASE i # L
    <3>1. h[i + 1] = g[i + 1]
      BY <1>7, <2>1, <2>3
    <3>2. h[i] = js[i] \o g[i + 1]
      BY <1>3, <1>5, <1>7, <2>3 DEF first
    <3>. QED
      BY <2>3, <3>1, <3>2
  <2>. QED
    BY <2>2, <2>3
<1>. QED
  BY <1>1, <1>6, <1>8 DEF JoinsFrom

LEMMA JoinsExists ==
  ASSUME NEW js \in Seq(Seq(Job))
  PROVE  \E g : Joins(js, g)
<1>1. PICK L \in Nat : L = Len(js)
  OBVIOUS
<1> DEFINE P == {k \in Nat : k <= L => \E g : JoinsFrom(js, L - k + 1, g)}
<1>2. 0 \in P
  <2>1. L - 0 + 1 = L + 1 /\ \A i : i \notin L + 1..L
    BY <1>1
  <2>2. [i \in L + 1..L |-> <<>>] \in [L + 1..L -> Seq(Job)]
    OBVIOUS
  <2>3. JoinsFrom(js, L + 1, [i \in L + 1..L |-> <<>>])
    BY <1>1, <2>1, <2>2 DEF JoinsFrom
  <2>. QED
    BY <2>1, <2>3
<1>3. ASSUME NEW k \in Nat, k \in P PROVE k + 1 \in P
  <2> SUFFICES ASSUME k + 1 <= L PROVE \E g : JoinsFrom(js, L - (k + 1) + 1, g)
    OBVIOUS
  <2>1. PICK c \in 1..Len(js) : c = L - (k + 1) + 1 /\ c + 1 = L - k + 1
    <3>1. L - (k + 1) + 1 \in 1..L /\ (L - (k + 1) + 1) + 1 = L - k + 1
      BY <1>1
    <3>. QED
      BY <1>1, <3>1
  <2>2. PICK g : JoinsFrom(js, c + 1, g)
    <3>1. k <= L
      BY <1>1
    <3>. QED
      BY <1>3, <2>1, <3>1
  <2>. QED
    BY <2>1, <2>2, JoinsOneMore
<1>4. L \in P
  <2> HIDE DEF P
  <2>. QED
    BY <1>1, <1>2, <1>3, Induction
<1>5. PICK g : JoinsFrom(js, 1, g)
  <2>1. L <= L /\ L - L + 1 = 1
    BY <1>1
  <2>. QED
    BY <1>4, <2>1
<1>. QED
  BY <1>5 DEF JoinsFrom, Joins

(* What the deques from the c-th on hold. *)
Later(js, c) == UNION {Held(js[m]) : m \in c..Len(js)}
JoinedHolds(js, g, c) == g[c] \in Seq(Job) /\ Single(g[c]) /\ Held(g[c]) = Later(js, c)

LEMMA JoinedStep ==
  ASSUME NEW js \in Seq(Seq(Job)), Placed(js), NEW g, Joins(js, g), NEW c \in 1..Len(js),
         c # Len(js) => JoinedHolds(js, g, c + 1)
  PROVE  JoinedHolds(js, g, c)
<1>1. PICK L \in Nat : L = Len(js) /\ c \in 1..L
  OBVIOUS
<1>2. js[c] \in Seq(Job) /\ Single(js[c])
  BY <1>1 DEF Placed
<1>3. g[c] = IF c = L THEN js[c] ELSE js[c] \o g[c + 1]
  BY <1>1 DEF Joins
<1>4. CASE c = L
  <2>1. c..L = {c}
    BY <1>1, <1>4
  <2>2. Later(js, c) = Held(js[c])
    BY <1>1, <2>1 DEF Later
  <2>. QED
    BY <1>2, <1>3, <1>4, <2>2 DEF JoinedHolds
<1>5. CASE c # L
  <2>1. /\ g[c + 1] \in Seq(Job) /\ Single(g[c + 1])
        /\ Held(g[c + 1]) = Later(js, c + 1)
    BY <1>1, <1>5 DEF JoinedHolds
  <2>2. c..L = {c} \cup (c + 1..L) /\ \A m \in c + 1..L : m \in 1..L /\ m # c
    BY <1>1, <1>5
  <2>3. Later(js, c) = Held(js[c]) \cup Later(js, c + 1)
    BY <1>1, <2>2 DEF Later
  <2>4. Held(js[c]) \cap Later(js, c + 1) = {}
    <3> SUFFICES ASSUME NEW e, e \in Held(js[c]), e \in Later(js, c + 1) PROVE FALSE
      OBVIOUS
    <3>1. PICK m \in c + 1..L : e \in Held(js[m])
      BY <1>1 DEF Later
    <3>2. m \in 1..Len(js) /\ c \in 1..Len(js) /\ c # m
      BY <1>1, <2>2
    <3>3. Held(js[c]) \cap Held(js[m]) = {}
      BY <3>2 DEF Placed
    <3>. QED
      BY <3>1, <3>3
  <2>5. /\ js[c] \o g[c + 1] \in Seq(Job) /\ Single(js[c] \o g[c + 1])
        /\ Held(js[c] \o g[c + 1]) = Held(js[c]) \cup Held(g[c + 1])
    BY <1>2, <2>1, <2>4, ConcatHolds
  <2>. QED
    BY <1>3, <1>5, <2>1, <2>3, <2>5 DEF JoinedHolds
<1>. QED
  BY <1>4, <1>5

LEMMA JoinedAll ==
  ASSUME NEW js \in Seq(Seq(Job)), Placed(js), NEW g, Joins(js, g), NEW c \in 1..Len(js)
  PROVE  JoinedHolds(js, g, c)
<1>1. PICK L \in Nat : L = Len(js) /\ c \in 1..L
  OBVIOUS
<1> DEFINE P == {k \in Nat : k < L => JoinedHolds(js, g, L - k)}
<1>2. 0 \in P
  <2> SUFFICES ASSUME 0 < L PROVE JoinedHolds(js, g, L - 0)
    OBVIOUS
  <2>1. L - 0 = L /\ L \in 1..L
    BY <1>1
  <2>. QED
    BY <1>1, <2>1, JoinedStep
<1>3. ASSUME NEW k \in Nat, k \in P PROVE k + 1 \in P
  <2> SUFFICES ASSUME k + 1 < L PROVE JoinedHolds(js, g, L - (k + 1))
    OBVIOUS
  <2>1. PICK d \in 1..L : d = L - (k + 1) /\ d + 1 = L - k /\ k < L
    <3>1. L - (k + 1) \in 1..L /\ (L - (k + 1)) + 1 = L - k /\ k < L
      BY <1>1
    <3>. QED
      BY <3>1
  <2>2. JoinedHolds(js, g, d + 1)
    BY <1>3, <2>1
  <2>3. JoinedHolds(js, g, d)
    BY <1>1, <2>2, JoinedStep
  <2>. QED
    BY <2>1, <2>3
<1>4. Nat \subseteq P
  <2> HIDE DEF P
  <2>. QED
    BY <1>2, <1>3, Induction
<1>5. L - c \in Nat /\ L - c < L /\ L - (L - c) = c
  BY <1>1
<1>6. L - c \in P
  BY <1>4, <1>5
<1>. QED
  BY <1>5, <1>6

LEMMA ResizeIs ==
  ASSUME NEW js \in Seq(Seq(Job)), NEW n
  PROVE  \E g : /\ Joins(js, g)
                /\ Resize(js, n) = [i \in 1..n |-> IF i > Len(js) THEN <<>>
                                                   ELSE IF i = n THEN g[n] ELSE js[i]]
<1>1. PICK g : Joins(js, g)
  BY JoinsExists
<1> DEFINE chosen == CHOOSE joined : Joins(js, joined)
<1>2. Joins(js, chosen)
  BY <1>1
<1>3. Resize(js, n) = [i \in 1..n |-> IF i > Len(js) THEN <<>>
                                      ELSE IF i = n THEN chosen[n] ELSE js[i]]
  BY DEF Resize, Joins
<1>. QED
  BY <1>2, <1>3

(* Resizing to n deques: each worker that stays keeps what it had, the     *)
(* last one that stays takes what the others had.                          *)
LEMMA ResizeHolds ==
  ASSUME NEW js \in Seq(Seq(Job)), Placed(js), NEW n \in Nat \ {0}
  PROVE  /\ Resize(js, n) \in Seq(Seq(Job)) /\ Len(Resize(js, n)) = n
         /\ Placed(Resize(js, n)) /\ Names(Resize(js, n)) = Names(js)
<1>1. PICK L \in Nat : L = Len(js)
  OBVIOUS
<1>0. PICK g : /\ Joins(js, g)
               /\ Resize(js, n) = [i \in 1..n |-> IF i > Len(js) THEN <<>>
                                                  ELSE IF i = n THEN g[n] ELSE js[i]]
  BY ResizeIs
<1>2. /\ Joins(js, g)
      /\ Resize(js, n) = [i \in 1..n |-> IF i > L THEN <<>>
                                         ELSE IF i = n THEN g[n] ELSE js[i]]
  BY <1>0, <1>1, Zenon
<1>3. PICK res : res = Resize(js, n)
  OBVIOUS
<1>4. \A i \in 1..L : js[i] \in Seq(Job) /\ Single(js[i])
  BY <1>1 DEF Placed
<1>5. \A i, m \in 1..L : i # m => Held(js[i]) \cap Held(js[m]) = {}
  BY <1>1 DEF Placed
<1>6. n <= L => JoinedHolds(js, g, n)
  <2>1. n <= L => n \in 1..L
    BY <1>1
  <2>. QED
    BY <1>1, <1>2, <2>1, JoinedAll
<1>7. /\ \A i \in 1..n : i > L => res[i] = <<>>
      /\ \A i \in 1..n : i <= L /\ i # n => res[i] = js[i]
      /\ n <= L => res[n] = g[n]
  <2>1. \A i \in 1..n : res[i] = IF i > L THEN <<>> ELSE IF i = n THEN g[n] ELSE js[i]
    BY <1>2, <1>3
  <2>2. n \in 1..n /\ (n <= L => ~(n > L)) /\ \A i \in 1..n : i <= L => ~(i > L)
    BY <1>1
  <2>. QED
    BY <2>1, <2>2
<1>8. \A i \in 1..n : i > L \/ (i \in 1..L /\ i <= L)
  BY <1>1
<1>9. \A i \in 1..n : res[i] \in Seq(Job) /\ Single(res[i])
  <2> SUFFICES ASSUME NEW i \in 1..n PROVE res[i] \in Seq(Job) /\ Single(res[i])
    OBVIOUS
  <2>1. CASE i > L
    <3>1. res[i] = <<>> /\ <<>> \in Seq(Job)
      BY <1>7, <2>1
    <3>. QED
      BY <3>1, EmptyHolds
  <2>2. CASE i <= L /\ i # n
    BY <1>4, <1>7, <1>8, <1>1, <2>2
  <2>3. CASE i <= L /\ i = n
    BY <1>6, <1>7, <2>3 DEF JoinedHolds
  <2>. QED
    BY <1>8, <2>1, <2>2, <2>3
<1>10. /\ res \in Seq(Seq(Job)) /\ Len(res) = n
  <2>1. res = [i \in 1..n |-> res[i]]
    BY <1>2, <1>3
  <2>2. [i \in 1..n |-> res[i]] \in Seq(Seq(Job)) /\ Len([i \in 1..n |-> res[i]]) = n
    BY <1>9
  <2>. QED
    BY <2>1, <2>2
<1> DEFINE Tailing == {i \in 1..L : n <= i}
<1>11. n <= L => Held(res[n]) = UNION {Held(js[m]) : m \in Tailing}
  <2>1. n <= L => n..L = Tailing
    BY <1>1
  <2>. QED
    BY <1>1, <1>6, <1>7, <2>1 DEF JoinedHolds, Later
<1> HIDE DEF Tailing
<1>12. Names(res) = UNION {Held(res[i]) : i \in 1..n} /\ Names(js) = UNION {Held(js[i]) : i \in 1..L}
  BY <1>1, <1>10 DEF Names
<1>13. ASSUME NEW e, NEW i \in 1..n, e \in Held(res[i])
       PROVE  \E m \in 1..L : e \in Held(js[m]) /\ (m = i \/ (i = n /\ n <= m))
  <2>1. CASE i > L
    BY <1>7, <1>13, <2>1, EmptyHolds
  <2>2. CASE i <= L /\ i # n
    BY <1>7, <1>8, <1>13, <1>1, <2>2
  <2>3. CASE i <= L /\ i = n
    BY <1>11, <1>13, <2>3 DEF Tailing
  <2>. QED
    BY <1>8, <2>1, <2>2, <2>3
<1>14. ASSUME NEW e, NEW m \in 1..L, e \in Held(js[m])
       PROVE  \E i \in 1..n : e \in Held(res[i])
  <2>1. CASE m < n
    <3>1. m \in 1..n /\ m <= L /\ m # n
      BY <1>1, <2>1
    <3>. QED
      BY <1>7, <1>14, <3>1
  <2>2. CASE n <= m
    <3>1. n <= L /\ n \in 1..n /\ m \in Tailing
      BY <1>1, <2>2 DEF Tailing
    <3>. QED
      BY <1>11, <1>14, <3>1
  <2>. QED
    BY <1>1, <2>1, <2>2
<1>15. Names(res) = Names(js)
  <2>1. ASSUME NEW e \in Names(res) PROVE e \in Names(js)
    <3>1. PICK i \in 1..n : e \in Held(res[i])
      BY <1>12
    <3>2. PICK m \in 1..L : e \in Held(js[m])
      BY <1>13, <3>1
    <3>. QED
      BY <1>12, <3>2
  <2>2. ASSUME NEW e \in Names(js) PROVE e \in Names(res)
    <3>1. PICK m \in 1..L : e \in Held(js[m])
      BY <1>12
    <3>. QED
      BY <1>12, <1>14, <3>1
  <2>. QED
    BY <2>1, <2>2
<1>16. ASSUME NEW i \in 1..n, NEW k \in 1..n, i # k
       PROVE  Held(res[i]) \cap Held(res[k]) = {}
  <2> SUFFICES ASSUME NEW e, e \in Held(res[i]), e \in Held(res[k]) PROVE FALSE
    OBVIOUS
  <2>1. PICK a \in 1..L : e \in Held(js[a]) /\ (a = i \/ (i = n /\ n <= a))
    BY <1>13
  <2>2. PICK b \in 1..L : e \in Held(js[b]) /\ (b = k \/ (k = n /\ n <= b))
    BY <1>13
  <2>3. a = b
    BY <1>5, <2>1, <2>2
  <2>. QED
    BY <1>1, <1>16, <2>1, <2>2, <2>3
<1>17. Placed(res)
  BY <1>9, <1>10, <1>16 DEF Placed
<1>. QED
  BY <1>3, <1>10, <1>15, <1>17

-----------------------------------------------------------------------------
(* One deque exchanged for another.                                        *)
LEMMA ReplaceHolds ==
  ASSUME NEW js \in Seq(Seq(Job)), Placed(js), NEW w \in 1..Len(js),
         NEW q \in Seq(Job), Single(q), Held(q) \cap (Names(js) \ Held(js[w])) = {}
  PROVE  /\ [js EXCEPT ![w] = q] \in Seq(Seq(Job)) /\ Len([js EXCEPT ![w] = q]) = Len(js)
         /\ Placed([js EXCEPT ![w] = q])
         /\ Names([js EXCEPT ![w] = q]) = (Names(js) \ Held(js[w])) \cup Held(q)
<1>1. PICK L \in Nat : L = Len(js)
  OBVIOUS
<1>2. PICK new : new = [js EXCEPT ![w] = q]
  OBVIOUS
<1>3. /\ new \in Seq(Seq(Job)) /\ Len(new) = L /\ new[w] = q /\ w \in 1..L
      /\ \A i \in 1..L : i # w => new[i] = js[i]
  BY <1>1, <1>2
<1>4. \A i \in 1..L : Single(js[i])
  BY <1>1 DEF Placed
<1>5. \A i, m \in 1..L : i # m => Held(js[i]) \cap Held(js[m]) = {}
  BY <1>1 DEF Placed
<1>6. Names(js) = UNION {Held(js[i]) : i \in 1..L} /\ Names(new) = UNION {Held(new[i]) : i \in 1..L}
  BY <1>1, <1>3 DEF Names
<1>7. \A i \in 1..L : i # w => Held(q) \cap Held(js[i]) = {}
  <2> SUFFICES ASSUME NEW i \in 1..L, i # w, NEW e, e \in Held(q), e \in Held(js[i])
               PROVE  FALSE
    OBVIOUS
  <2>1. e \in Names(js)
    BY <1>6
  <2>2. Held(js[w]) \cap Held(js[i]) = {}
    BY <1>3, <1>5
  <2>. QED
    BY <2>1, <2>2
<1>8. \A i \in 1..L : Single(new[i])
  BY <1>3, <1>4
<1>9. ASSUME NEW i \in 1..L, NEW k \in 1..L, i # k
      PROVE  Held(new[i]) \cap Held(new[k]) = {}
  <2>1. CASE i = w
    BY <1>3, <1>7, <1>9, <2>1
  <2>2. CASE k = w
    BY <1>3, <1>7, <1>9, <2>2
  <2>3. CASE i # w /\ k # w
    BY <1>3, <1>5, <1>9, <2>3
  <2>. QED
    BY <2>1, <2>2, <2>3
<1>10. Placed(new)
  BY <1>3, <1>8, <1>9 DEF Placed
<1>11. ASSUME NEW e \in Names(new) PROVE e \in (Names(js) \ Held(js[w])) \cup Held(q)
  <2>1. PICK i \in 1..L : e \in Held(new[i])
    BY <1>6
  <2>2. CASE i = w
    BY <1>3, <2>1, <2>2
  <2>3. CASE i # w
    <3>1. e \in Held(js[i])
      BY <1>3, <2>1, <2>3
    <3>2. e \in Names(js)
      BY <1>6, <3>1
    <3>3. Held(js[w]) \cap Held(js[i]) = {}
      BY <1>3, <1>5, <2>3
    <3>. QED
      BY <3>1, <3>2, <3>3
  <2>. QED
    BY <2>2, <2>3
<1>12. ASSUME NEW e \in Names(js), e \notin Held(js[w]) PROVE e \in Names(new)
  <2>1. PICK i \in 1..L : e \in Held(js[i]) /\ i # w
    BY <1>6, <1>12
  <2>2. e \in Held(new[i])
    BY <1>3, <2>1
  <2>. QED
    BY <1>6, <2>2
<1>13. ASSUME NEW e \in Held(q) PROVE e \in Names(new)
  BY <1>3, <1>6
<1>14. Names(new) = (Names(js) \ Held(js[w])) \cup Held(q)
  BY <1>11, <1>12, <1>13
<1>. QED
  BY <1>1, <1>2, <1>3, <1>10, <1>14

(* A job put at the end of a deque. *)
LEMMA AppendHolds ==
  ASSUME NEW js \in Seq(Seq(Job)), Placed(js), NEW w \in 1..Len(js),
         NEW j \in Job, j \notin Names(js)
  PROVE  /\ [js EXCEPT ![w] = Append(js[w], j)] \in Seq(Seq(Job))
         /\ Placed([js EXCEPT ![w] = Append(js[w], j)])
         /\ Names([js EXCEPT ![w] = Append(js[w], j)]) = Names(js) \cup {j}
<1>1. js[w] \in Seq(Job) /\ Single(js[w])
  BY DEF Placed
<1>2. Held(js[w]) \subseteq Names(js)
  BY DEF Names
<1>3. PICK last : last = <<j>>
  OBVIOUS
<1>4. last \in Seq(Job) /\ Held(last) = {j} /\ Single(last)
  <2>1. Len(last) = 1 /\ last[1] = j /\ last \in Seq(Job)
    BY <1>3
  <2>2. 1..1 = {1}
    OBVIOUS
  <2>. QED
    BY <2>1, <2>2 DEF Held, Single
<1>5. PICK q : q = js[w] \o last
  OBVIOUS
<1>6. q \in Seq(Job) /\ Held(q) = Held(js[w]) \cup {j} /\ Single(q)
  BY <1>1, <1>2, <1>4, <1>5, ConcatHolds
<1>7. q = Append(js[w], j)
  BY <1>1, <1>3, <1>5
<1>8. Held(q) \cap (Names(js) \ Held(js[w])) = {}
  BY <1>6
<1>9. /\ [js EXCEPT ![w] = q] \in Seq(Seq(Job)) /\ Placed([js EXCEPT ![w] = q])
      /\ Names([js EXCEPT ![w] = q]) = (Names(js) \ Held(js[w])) \cup Held(q)
  BY <1>6, <1>8, ReplaceHolds
<1>. QED
  BY <1>2, <1>6, <1>7, <1>9

(* A job taken from one end of a deque. *)
LEMMA TakeHolds ==
  ASSUME NEW js \in Seq(Seq(Job)), Placed(js), NEW w \in 1..Len(js), js[w] # <<>>,
         NEW q, q = Tail(js[w]) \/ q = FrontOf(js[w])
  PROVE  /\ [js EXCEPT ![w] = q] \in Seq(Seq(Job)) /\ Placed([js EXCEPT ![w] = q])
         /\ \E j \in Names(js) : Names([js EXCEPT ![w] = q]) = Names(js) \ {j}
<1>1. js[w] \in Seq(Job) /\ Single(js[w])
  BY DEF Placed
<1>2. Held(js[w]) \subseteq Names(js)
  BY DEF Names
<1>3. PICK j : j \in Held(js[w]) /\ q \in Seq(Job) /\ Held(q) = Held(js[w]) \ {j} /\ Single(q)
  BY <1>1, TailHolds, FrontHolds
<1>4. Held(q) \cap (Names(js) \ Held(js[w])) = {}
  BY <1>3
<1>5. /\ [js EXCEPT ![w] = q] \in Seq(Seq(Job)) /\ Placed([js EXCEPT ![w] = q])
      /\ Names([js EXCEPT ![w] = q]) = (Names(js) \ Held(js[w])) \cup Held(q)
  BY <1>3, <1>4, ReplaceHolds
<1>6. Names([js EXCEPT ![w] = q]) = Names(js) \ {j} /\ j \in Names(js)
  BY <1>2, <1>3, <1>5
<1>. QED
  BY <1>5, <1>6

-----------------------------------------------------------------------------
(* take_job looks at deques that exist, and stops at one that has a job.   *)
LEMMA InRange ==
  ASSUME NEW x \in Nat, NEW n \in Nat \ {0}
  PROVE  (x % n) + 1 \in 1..n /\ x % n \in Nat
OBVIOUS

LEMMA TakenFromIs ==
  ASSUME NEW js \in Seq(Seq(Job)), Len(js) # 0, rr \in Nat
  PROVE  \/ TakenFrom(js) = -1
         \/ \E w \in 1..Len(js) : \E q :
              /\ js[w] # <<>> /\ (q = Tail(js[w]) \/ q = FrontOf(js[w]))
              /\ TakenFrom(js) # -1
              /\ Remaining(js, TakenFrom(js)) = [js EXCEPT ![w] = q]
<1>1. PICK L \in Nat \ {0} : L = Len(js)
  OBVIOUS
<1>2. Own(js) \in 1..L /\ rr % L \in Nat
  BY <1>1, InRange DEF Own
<1>3. \A s \in Nat : Following(js, s) \in 1..L
  <2> SUFFICES ASSUME NEW s \in Nat PROVE Following(js, s) \in 1..L
    OBVIOUS
  <2>1. (rr % L) + s \in Nat
    BY <1>2
  <2>. QED
    BY <1>1, <2>1, InRange DEF Following
<1>4. CASE js[Own(js)] # <<>>
  <2>1. TakenFrom(js) = 0
    BY <1>4 DEF TakenFrom
  <2>2. Remaining(js, 0) = [js EXCEPT ![Own(js)] = Tail(js[Own(js)])]
    BY DEF Remaining
  <2>. QED
    BY <1>1, <1>2, <1>4, <2>1, <2>2
<1>5. CASE js[Own(js)] = <<>> /\ \E s \in 1..Len(js) - 1 : js[Following(js, s)] # <<>>
  <2> DEFINE T == {s \in 1..Len(js) - 1 : js[Following(js, s)] # <<>>}
             First(s) == /\ js[Following(js, s)] # <<>>
                         /\ \A t \in 1..s - 1 : js[Following(js, t)] = <<>>
  <2>0. 1..L - 1 \subseteq Nat /\ Len(js) - 1 = L - 1
    BY <1>1
  <2>1. T \in SUBSET Nat /\ T # {} /\ \A s \in T : s \in 1..L - 1
    <3>1. T \subseteq 1..L - 1
      BY <1>1
    <3>2. T # {}
      BY <1>5
    <3>. QED
      BY <2>0, <3>1, <3>2
  <2>2. PICK x \in T : \A y \in T : ~(y < x)
    BY <2>1, LeastElement
  <2>3. First(x) /\ x \in 1..Len(js) - 1
    <3>1. ASSUME NEW t \in 1..x - 1 PROVE js[Following(js, t)] = <<>>
      <4>1. t \in 1..L - 1 /\ t < x
        BY <1>1, <2>1
      <4>2. t \notin T
        BY <2>2, <4>1
      <4>. QED
        BY <1>1, <4>1, <4>2
    <3>. QED
      BY <3>1
  <2>4. TakenFrom(js) = CHOOSE s \in 1..Len(js) - 1 : First(s)
    BY <1>5 DEF TakenFrom
  <2>5. First(TakenFrom(js)) /\ TakenFrom(js) \in 1..L - 1
    BY <1>1, <2>3, <2>4
  <2>6. PICK s \in 1..L - 1 : s = TakenFrom(js)
    BY <2>5
  <2>7. s \in Nat /\ s # 0 /\ s # -1
    BY <2>6
  <2>8. Remaining(js, s) = [js EXCEPT ![Following(js, s)] = FrontOf(js[Following(js, s)])]
    BY <2>7 DEF Remaining
  <2>9. js[Following(js, s)] # <<>> /\ Following(js, s) \in 1..L
    BY <1>3, <2>5, <2>6, <2>7
  <2>. QED
    BY <1>1, <2>6, <2>7, <2>8, <2>9
<1>6. CASE js[Own(js)] = <<>> /\ ~\E s \in 1..Len(js) - 1 : js[Following(js, s)] # <<>>
  BY <1>6 DEF TakenFrom
<1>. QED
  BY <1>4, <1>5, <1>6

-----------------------------------------------------------------------------
(* Deques: every job is in one place, before and after every step.         *)
Deques ==
  /\ jobs \in Seq(Seq(Job)) /\ Placed(jobs)
  /\ rr \in Nat /\ requested \in Requests \cup {NoRequest}

(* There is always a worker, also when the host changes the number of CPUs *)
(* between the two questions of ensure_workers.                            *)
LEMMA SomeWorker ==
  ASSUME NEW r \in Requests \cup {NoRequest}
  PROVE  WorkerCounts(r) \subseteq Nat \ {0}
<1> SUFFICES ASSUME NEW c \in Cpus, NEW d \in Cpus
             PROVE  Workers(c, Granted(d, r)) \in Nat \ {0}
  BY DEF WorkerCounts
<1>1. Granted(d, r) \in Nat /\ c \in Nat
  BY GrantMath, CpusAssumption, RequestAssumption
<1>. QED
  BY <1>1 DEF Workers, Greatest

LEMMA QueuedIsNames == Queued = Names(jobs) /\ Queued' = Names(jobs')
BY DEF Queued, Names, Held

LEMMA DequesInit == Init => Deques
<1>1. Len(<<>>) = 0 /\ 1..0 = {} /\ <<>> \in Seq(Seq(Job))
  OBVIOUS
<1>2. Placed(<<>>)
  BY <1>1 DEF Placed
<1>. QED
  BY <1>1, <1>2, BoundAssumption DEF Init, Deques

(* What a step does to the deques. *)
Kept   == Names(jobs') = Names(jobs)
Added  == \E j \in Job : Names(jobs') = Names(jobs) \cup {j}
Served == \E j \in Names(jobs) : Names(jobs') = Names(jobs) \ {j}

LEMMA SpawnStep ==
  ASSUME Deques, NEW j \in Job, Spawn(j)
  PROVE  Deques' /\ Added
<1>1. PICK n \in WorkerCounts(requested) :
        jobs' = [Resize(jobs, n) EXCEPT ![1] = Append(Resize(jobs, n)[1], j)]
  BY DEF Spawn
<1>2. n \in Nat \ {0}
  BY <1>1, SomeWorker DEF Deques
<1>3. PICK js : js = Resize(jobs, n)
  OBVIOUS
<1>4. js \in Seq(Seq(Job)) /\ Len(js) = n /\ Placed(js) /\ Names(js) = Names(jobs)
  BY <1>2, <1>3, ResizeHolds DEF Deques
<1>5. 1 \in 1..Len(js) /\ j \notin Names(js)
  BY <1>2, <1>4, QueuedIsNames DEF Spawn
<1>6. jobs' = [js EXCEPT ![1] = Append(js[1], j)]
  BY <1>1, <1>3
<1>7. jobs' \in Seq(Seq(Job)) /\ Placed(jobs') /\ Names(jobs') = Names(js) \cup {j}
  BY <1>4, <1>5, <1>6, AppendHolds
<1>8. rr' = rr /\ requested' = requested
  BY DEF Spawn
<1>. QED
  BY <1>4, <1>7, <1>8 DEF Deques, Added

LEMMA RequestStep ==
  ASSUME Deques, NEW r \in Requests, Request(r)
  PROVE  Deques' /\ Kept
<1>1. PICK n \in WorkerCounts(r) : jobs' = Resize(jobs, n)
  BY DEF Request
<1>2. n \in Nat \ {0}
  BY <1>1, SomeWorker
<1>3. jobs' \in Seq(Seq(Job)) /\ Placed(jobs') /\ Names(jobs') = Names(jobs)
  BY <1>1, <1>2, ResizeHolds DEF Deques
<1>4. rr' = rr /\ requested' = r
  BY DEF Request
<1>. QED
  BY <1>3, <1>4 DEF Deques, Kept

LEMMA StartStep ==
  ASSUME Deques, StartTick
  PROVE  Deques' /\ Kept
<1>1. PICK n \in WorkerCounts(requested) : jobs' = Resize(jobs, n)
  BY DEF StartTick
<1>2. n \in Nat \ {0}
  BY <1>1, SomeWorker DEF Deques
<1>3. jobs' \in Seq(Seq(Job)) /\ Placed(jobs') /\ Names(jobs') = Names(jobs)
  BY <1>1, <1>2, ResizeHolds DEF Deques
<1>4. rr' = rr /\ requested' = requested
  BY DEF StartTick
<1>. QED
  BY <1>3, <1>4 DEF Deques, Kept

LEMMA TakeStep ==
  ASSUME Deques, TakeJob
  PROVE  Deques' /\ ((phase' = "job" /\ Served) \/ (phase' # "job" /\ Kept))
<1>1. PICK n \in WorkerCounts(requested) :
        /\ jobs' = IF TakenFrom(Resize(jobs, n)) = -1 THEN Resize(jobs, n)
                   ELSE Remaining(Resize(jobs, n), TakenFrom(Resize(jobs, n)))
        /\ phase' = IF TakenFrom(Resize(jobs, n)) = -1 THEN "tick" ELSE "job"
  BY DEF TakeJob
<1>2. n \in Nat \ {0}
  BY <1>1, SomeWorker DEF Deques
<1>3. PICK js : js = Resize(jobs, n)
  OBVIOUS
<1>4. js \in Seq(Seq(Job)) /\ Len(js) = n /\ Placed(js) /\ Names(js) = Names(jobs)
  BY <1>2, <1>3, ResizeHolds DEF Deques
<1>5. /\ jobs' = IF TakenFrom(js) = -1 THEN js ELSE Remaining(js, TakenFrom(js))
      /\ phase' = IF TakenFrom(js) = -1 THEN "tick" ELSE "job"
  BY <1>1, <1>3
<1>6. rr' \in Nat /\ requested' = requested
  <2>1. rr + 1 \in Nat /\ Wrap \in Nat \ {0}
    BY BoundAssumption DEF Deques
  <2>. QED
    BY <2>1, InRange DEF TakeJob
<1>7. CASE TakenFrom(js) = -1
  BY <1>4, <1>5, <1>6, <1>7 DEF Deques, Kept
<1>8. CASE TakenFrom(js) # -1
  <2>1. Len(js) # 0 /\ rr \in Nat
    BY <1>2, <1>4 DEF Deques
  <2>2. PICK w \in 1..Len(js) :
          \E q : /\ js[w] # <<>> /\ (q = Tail(js[w]) \/ q = FrontOf(js[w]))
                 /\ Remaining(js, TakenFrom(js)) = [js EXCEPT ![w] = q]
    BY <1>4, <1>8, <2>1, TakenFromIs
  <2>3. PICK q : /\ js[w] # <<>> /\ (q = Tail(js[w]) \/ q = FrontOf(js[w]))
               /\ Remaining(js, TakenFrom(js)) = [js EXCEPT ![w] = q]
    BY <2>2
  <2>4. jobs' = [js EXCEPT ![w] = q] /\ phase' = "job"
    BY <1>5, <1>8, <2>3
  <2>5. /\ jobs' \in Seq(Seq(Job)) /\ Placed(jobs')
        /\ \E j \in Names(js) : Names(jobs') = Names(js) \ {j}
    BY <1>4, <2>3, <2>4, TakeHolds, ZenonT(60)
  <2>. QED
    BY <1>4, <1>6, <2>4, <2>5 DEF Deques, Served
<1>. QED
  BY <1>7, <1>8

LEMMA OtherStep ==
  ASSUME Deques, UNCHANGED <<jobs, rr, requested>>
  PROVE  Deques' /\ Kept
BY DEF Deques, Kept

(* The deques stay in order, and what a step does to them. *)
LEMMA DequesNext ==
  ASSUME Deques, [Next]_vars
  PROVE  /\ Deques'
         /\ \/ Added /\ ~(phase = "lanes" /\ phase' = "job")
            \/ Kept  /\ ~(phase = "lanes" /\ phase' = "job")
            \/ Served /\ phase = "lanes" /\ phase' = "job"
<1> DEFINE started == phase = "lanes" /\ phase' = "job"
<1>1. ASSUME NEW l \in Lane, Register(l) \/ Pull(l) PROVE Deques' /\ Kept /\ ~started
  BY <1>1, OtherStep DEF Register, Pull, control, Running
<1>2. ASSUME NEW j \in Job, Spawn(j) PROVE Deques' /\ Added /\ ~started
  BY <1>2, SpawnStep DEF Spawn, control, Running
<1>3. ASSUME NEW r \in Requests, Request(r) PROVE Deques' /\ Kept /\ ~started
  BY <1>3, RequestStep DEF Request, control, Running
<1>4. ASSUME Send PROVE Deques' /\ Kept /\ ~started
  BY <1>4, OtherStep DEF Send, control, Running
<1>5. ASSUME NEW k \in 0..MaxTicks, BeginRn(k) PROVE Deques' /\ Kept /\ ~started
  BY <1>5, OtherStep DEF BeginRn
<1>6. ASSUME StartTick PROVE Deques' /\ Kept /\ ~started
  BY <1>6, StartStep DEF StartTick
<1>7. ASSUME EnterLane PROVE Deques' /\ Kept /\ ~started
  BY <1>7, OtherStep DEF EnterLane
<1>8. ASSUME TakeJob PROVE Deques' /\ ((Served /\ started) \/ (Kept /\ ~started))
  BY <1>8, TakeStep DEF TakeJob
<1>9. ASSUME EndRn PROVE Deques' /\ Kept /\ ~started
  BY <1>9, OtherStep DEF EndRn
<1>10. ASSUME LeaveLane \/ LeaveJob \/ SliceFault PROVE Deques' /\ Kept /\ ~started
  BY <1>10, OtherStep DEF LeaveLane, LeaveJob, SliceFault
<1>11. ASSUME UNCHANGED vars PROVE Deques' /\ Kept /\ ~started
  BY <1>11, OtherStep DEF vars
<1>. QED
  BY <1>1, <1>2, <1>3, <1>4, <1>5, <1>6, <1>7, <1>8, <1>9, <1>10, <1>11
     DEF Next, Program, Scheduler, SliceEnd

(* A job leaves the deques only to run, one at a time: no rebalancing,     *)
(* steal or fault loses a job or lets it run twice.                        *)
THEOREM JobConservationTheorem == Spec => JobConservation
<1> DEFINE Conserved == LET started == phase = "lanes" /\ phase' = "job" IN
                        /\ (\E j \in Queued : j \notin Queued') => started
                        /\ started => \E j \in Queued : Queued' = Queued \ {j}
<1>1. Init => Deques
  BY DequesInit
<1>2. ASSUME Deques, [Next]_vars PROVE Deques' /\ Conserved
  BY <1>2, DequesNext, QueuedIsNames DEF Added, Kept, Served
<1>. QED
  BY <1>1, <1>2, PTL DEF Spec, JobConservation

-----------------------------------------------------------------------------
(* The snapshot file.  The hypothesis is on how the processes use the      *)
(* path: no two are inside mm at the same time, which one process alone    *)
(* guarantees (Vm runs one word at a time) and two processes do not.       *)

\* No two processes are inside mm at the same time.
OneSaver == \A p, q \in Proc : pc[p] # "idle" /\ pc[q] # "idle" => p = q

Text == Seq(Graph \cup {Cut})

\* The types, with the graphs and texts of a program whose file was whole.
SnapshotTypes ==
    /\ pc \in [Proc -> {"idle", "write", "rename", "dirsync"}]
    /\ graph \in [Proc -> Snapshots] /\ text \in [Proc -> Snapshots]
    /\ fd \in [Proc -> Inode \cup {None}] /\ at \in [Proc -> Nat]
    /\ shown \in [Inode -> Text] /\ disk \in [Inode -> Text]
    /\ tmp \in Inode \cup {None} /\ dest \in Inode \cup {None}
    /\ destDisk \subseteq Inode \cup {None}

\* Whatever dest may be after a power loss is a whole snapshot, on the disk as
\* the system shows it.
Settled ==
    /\ dest \in destDisk
    /\ \A f \in destDisk \ {None} : shown[f] = disk[f] /\ shown[f] \in Snapshots

\* dest.tmp is not one of those files, nor is a file that is being written.
Apart == tmp # None => tmp \notin destDisk

Ready(p) ==
    /\ fd[p] \in Inode /\ fd[p] \notin destDisk
    /\ tmp # None => tmp = fd[p]

\* A file being written holds the lines written so far.
Writing(p) ==
    pc[p] = "write" =>
        /\ Ready(p)
        /\ at[p] <= Len(text[p]) /\ Len(shown[fd[p]]) = at[p]
        /\ \A i \in 1 .. at[p] : shown[fd[p]][i] = text[p][i]

\* A file about to be renamed is whole and on the disk.
Sealed(p) ==
    pc[p] = "rename" => Ready(p) /\ shown[fd[p]] = text[p] /\ disk[fd[p]] = text[p]

\* After the rename dest is the file.
Renamed(p) ==
    pc[p] = "dirsync" => dest \in Inode /\ shown[dest] = text[p]

\* A running mm is one begun after the last that returned, and so is the file
\* that dest may be, or it is that last one's.
Durable ==
    /\ \A p \in Proc : pc[p] # "idle" => text[p] \in begun
    /\ acked # None =>
          /\ None \notin destDisk
          /\ \A f \in destDisk : shown[f] \in {acked} \cup begun

\* The inductive invariant.
SnapshotInv ==
    /\ SnapshotTypes /\ Settled /\ Apart /\ Durable
    /\ \A p \in Proc : Writing(p) /\ Sealed(p) /\ Renamed(p)

-----------------------------------------------------------------------------
(* The operators.                                                          *)

\* A snapshot is a sequence of lines.
LEMMA SnapshotsAreText == Snapshots \subseteq Text
  <1>1. <<>> \in Text
    BY DEF Text
  <1>2. ASSUME NEW g \in Graph PROVE Snapshot(g) \in Text
    <2>1. Snapshot(g) \in [1 .. Lines -> Graph \cup {Cut}]
      BY DEF Snapshot
    <2> QED
      BY <2>1, SnapshotAssumption DEF Text
  <1> QED
    BY <1>1, <1>2 DEF Snapshots

\* Sequences of one length with the same lines are equal.
LEMMA SameLines ==
    ASSUME NEW s \in Text, NEW t \in Text, Len(s) = Len(t),
           \A i \in 1 .. Len(s) : s[i] = t[i]
    PROVE  s = t
  BY DEF Text

\* A line written at the end of a file is appended to it.
LEMMA WrittenAtEnd ==
    ASSUME NEW s \in Text, NEW line \in Graph \cup {Cut}
    PROVE  /\ Written(s, Len(s) + 1, line) \in Text
           /\ Len(Written(s, Len(s) + 1, line)) = Len(s) + 1
           /\ Written(s, Len(s) + 1, line)[Len(s) + 1] = line
           /\ \A i \in 1 .. Len(s) : Written(s, Len(s) + 1, line)[i] = s[i]
  <1>1. Len(s) \in Nat
    BY DEF Text
  <1>2. Written(s, Len(s) + 1, line)
          = [k \in 1 .. Len(s) + 1 |-> IF k = Len(s) + 1 THEN line ELSE s[k]]
    BY <1>1 DEF Written
  <1> DEFINE w == [k \in 1 .. Len(s) + 1 |-> IF k = Len(s) + 1 THEN line ELSE s[k]]
  <1>3. w \in [1 .. Len(s) + 1 -> Graph \cup {Cut}]
    BY <1>1 DEF Text
  <1>4. w \in Seq(Graph \cup {Cut}) /\ Len(w) = Len(s) + 1
    BY <1>1, <1>3
  <1> QED
    BY <1>1, <1>2, <1>4 DEF Text

\* Files with a name or a process, after the action, keep their contents.
LEMMA ReclaimKeeps ==
    ASSUME SnapshotTypes, Reclaim
    PROVE  /\ shown' \in [Inode -> Text] /\ disk' \in [Inode -> Text]
           /\ \A f \in Inode : f \in {tmp', dest'} \cup destDisk' =>
                 shown'[f] = shown[f] /\ disk'[f] = disk[f]
           /\ \A q \in Proc : fd'[q] \in Inode =>
                 shown'[fd'[q]] = shown[fd'[q]] /\ disk'[fd'[q]] = disk[fd'[q]]
  <1>1. <<>> \in Text
    BY DEF Text
  <1> QED
    BY <1>1 DEF SnapshotTypes, Reclaim, Free
-----------------------------------------------------------------------------
(* Each action keeps the invariant.                                        *)

LEMMA InitHolds == SnapshotInit => SnapshotInv
  <1> SUFFICES ASSUME SnapshotInit PROVE SnapshotInv
    OBVIOUS
  <1>1. <<>> \in Text /\ <<>> \in Snapshots
    BY DEF Text, Snapshots
  <1>2. SnapshotTypes
    BY <1>1 DEF SnapshotInit, SnapshotTypes
  <1>3. Settled /\ Apart /\ Durable
    BY SnapshotAssumption DEF SnapshotInit, Settled, Apart, Durable
  <1>4. \A p \in Proc : Writing(p) /\ Sealed(p) /\ Renamed(p)
    BY DEF SnapshotInit, Writing, Sealed, Renamed
  <1> QED
    BY <1>2, <1>3, <1>4 DEF SnapshotInv

LEMMA EditKeeps ==
    ASSUME SnapshotInv, NEW p \in Proc, NEW g \in Graph, Edit(p, g)
    PROVE  SnapshotInv'
  <1>1. Snapshot(g) \in Snapshots
    BY DEF Snapshots
  <1>2. SnapshotTypes'
    BY <1>1 DEF SnapshotInv, SnapshotTypes, Edit, directory
  <1>3. Settled' /\ Apart' /\ Durable'
    BY DEF SnapshotInv, Settled, Apart, Durable, Edit, directory
  <1>4. \A q \in Proc : Writing(q)' /\ Sealed(q)' /\ Renamed(q)'
    BY DEF SnapshotInv, Writing, Sealed, Renamed, Ready, Edit, directory
  <1> QED
    BY <1>2, <1>3, <1>4 DEF SnapshotInv

LEMMA LoadKeeps ==
    ASSUME SnapshotInv, NEW p \in Proc, Load(p)
    PROVE  SnapshotInv'
  <1>1. shown[dest] \in Snapshots
    BY DEF SnapshotInv, Settled, Load
  <1>2. SnapshotTypes'
    BY <1>1 DEF SnapshotInv, SnapshotTypes, Load, directory
  <1>3. Settled' /\ Apart' /\ Durable'
    BY DEF SnapshotInv, Settled, Apart, Durable, Load, directory
  <1>4. \A q \in Proc : Writing(q)' /\ Sealed(q)' /\ Renamed(q)'
    BY DEF SnapshotInv, Writing, Sealed, Renamed, Ready, Load, directory
  <1> QED
    BY <1>2, <1>3, <1>4 DEF SnapshotInv

\* The file is empty, and none of those that dest may be.
LEMMA CreateKeeps ==
    ASSUME SnapshotInv, OneSaver', NEW p \in Proc, Create(p)
    PROVE  SnapshotInv'
  <1>1. PICK f \in IF tmp # None THEN {tmp} ELSE Free :
              /\ tmp' = f
              /\ fd' = [fd EXCEPT ![p] = f]
              /\ shown' = [shown EXCEPT ![f] = <<>>]
    BY DEF Create
  <1>2. f \in Inode /\ f \notin destDisk
    BY <1>1 DEF SnapshotInv, SnapshotTypes, Apart, Free
  <1>3. <<>> \in Text
    BY DEF Text
  <1>4. SnapshotTypes'
    BY <1>1, <1>2, <1>3 DEF SnapshotInv, SnapshotTypes, Create, Goto
  <1>5. \A e \in destDisk : shown'[e] = shown[e]
    BY <1>1, <1>2 DEF SnapshotInv, SnapshotTypes
  <1>6. Settled'
    BY <1>5 DEF SnapshotInv, Settled, Create
  <1>7. Apart'
    BY <1>1, <1>2 DEF Apart, Create
  <1>8. pc'[p] = "write" /\ text'[p] = graph[p] /\ at'[p] = 0 /\ fd'[p] = f
    BY <1>1 DEF SnapshotInv, SnapshotTypes, Create, Goto
  <1>9. \A q \in Proc : q # p => pc'[q] = "idle"
    BY <1>8, <1>4 DEF OneSaver, SnapshotTypes
  <1>10. Durable'
    BY <1>5, <1>8, <1>9 DEF SnapshotInv, Durable, Create
  <1>11. Writing(p)'
    <2>1. shown'[f] = <<>>
      BY <1>1, <1>2 DEF SnapshotInv, SnapshotTypes
    <2>2. text'[p] \in Text
      BY <1>8, SnapshotsAreText DEF SnapshotInv, SnapshotTypes
    <2> QED
      BY <1>1, <1>2, <1>8, <2>1, <2>2 DEF Writing, Ready, Create, Text
  <1>12. \A q \in Proc : Writing(q)' /\ Sealed(q)' /\ Renamed(q)'
    BY <1>8, <1>9, <1>11 DEF Writing, Sealed, Renamed
  <1> QED
    BY <1>4, <1>6, <1>7, <1>10, <1>12 DEF SnapshotInv

\* One line more.
LEMMA WriteKeeps ==
    ASSUME SnapshotInv, OneSaver, NEW p \in Proc, Write(p)
    PROVE  SnapshotInv'
  <1> DEFINE f == fd[p]
             s == shown[f]
             line == text[p][at[p] + 1]
  <1>1. /\ pc[p] = "write" /\ f \in Inode /\ f \notin destDisk
        /\ s \in Text /\ Len(s) = at[p] /\ at[p] \in Nat
        /\ \A i \in 1 .. at[p] : s[i] = text[p][i]
    BY DEF Write, SnapshotInv, SnapshotTypes, Writing, Ready
  <1>2. text[p] \in Text /\ at[p] + 1 \in 1 .. Len(text[p])
    BY <1>1, SnapshotsAreText DEF Write, SnapshotInv, SnapshotTypes, Text
  <1>3. line \in Graph \cup {Cut}
    BY <1>2 DEF Text
  <1> DEFINE w == Written(s, Len(s) + 1, line)
  <1>4. /\ w \in Text /\ Len(w) = at[p] + 1
        /\ \A i \in 1 .. at[p] + 1 : w[i] = text[p][i]
    <2> HIDE DEF s, line
    <2>1. /\ Len(w) = Len(s) + 1 /\ w \in Text /\ w[Len(s) + 1] = line
          /\ \A i \in 1 .. Len(s) : w[i] = s[i]
      BY <1>1, <1>3, WrittenAtEnd
    <2> HIDE DEF w
    <2> QED
      BY <1>1, <2>1 DEF line
  <1>5. shown' = [shown EXCEPT ![f] = w] /\ at' = [at EXCEPT ![p] = at[p] + 1]
    BY <1>1 DEF Write
  <1> HIDE DEF w, s, line
  <1>6. SnapshotTypes'
    BY <1>1, <1>4, <1>5 DEF SnapshotInv, SnapshotTypes, Write, directory
  <1>7. \A e \in destDisk : shown'[e] = shown[e]
    BY <1>1, <1>5 DEF SnapshotInv, SnapshotTypes
  <1>8. Settled' /\ Apart' /\ Durable'
    BY <1>7 DEF SnapshotInv, Settled, Apart, Durable, Write, directory
  <1>9. Writing(p)'
    <2>1. shown'[f] = w /\ at'[p] = at[p] + 1
      BY <1>1, <1>5 DEF SnapshotInv, SnapshotTypes
    <2>2. at'[p] <= Len(text[p])
      BY <2>1, <1>2
    <2> QED
      BY <1>4, <2>1, <2>2 DEF SnapshotInv, Writing, Ready, Write, directory
  <1>10. \A q \in Proc : q # p => pc[q] = "idle"
    BY <1>1 DEF OneSaver, SnapshotInv, SnapshotTypes
  <1>11. \A q \in Proc : Writing(q)' /\ Sealed(q)' /\ Renamed(q)'
    BY <1>1, <1>9, <1>10 DEF Writing, Sealed, Renamed, Write
  <1> QED
    BY <1>6, <1>8, <1>11 DEF SnapshotInv

\* The file is whole and on the disk.
LEMMA SyncKeeps ==
    ASSUME SnapshotInv, OneSaver, NEW p \in Proc, Sync(p)
    PROVE  SnapshotInv'
  <1> DEFINE f == fd[p]
  <1>1. /\ pc[p] = "write" /\ f \in Inode /\ f \notin destDisk /\ Ready(p)
        /\ shown[f] \in Text /\ Len(shown[f]) = Len(text[p])
        /\ \A i \in 1 .. Len(shown[f]) : shown[f][i] = text[p][i]
    BY DEF Sync, Goto, SnapshotInv, SnapshotTypes, Writing, Ready
  <1>2. text[p] \in Text
    BY SnapshotsAreText DEF SnapshotInv, SnapshotTypes
  <1>3. shown[f] = text[p]
    BY <1>1, <1>2, SameLines
  <1>4. /\ disk' = [disk EXCEPT ![f] = shown[f]] /\ pc' = [pc EXCEPT ![p] = "rename"]
        /\ UNCHANGED <<graph, text, fd, at, shown, tmp, dest, destDisk, acked, begun>>
    BY DEF Sync, Goto, directory
  <1>5. SnapshotTypes'
    BY <1>1, <1>4 DEF SnapshotInv, SnapshotTypes
  <1>6. \A e \in destDisk : disk'[e] = disk[e]
    BY <1>1, <1>4 DEF SnapshotInv, SnapshotTypes
  <1>7. Settled' /\ Apart'
    BY <1>4, <1>6 DEF SnapshotInv, Settled, Apart
  <1>8. \A q \in Proc : q # p => pc'[q] = "idle"
    BY <1>1, <1>4 DEF OneSaver, SnapshotInv, SnapshotTypes
  <1>9. Durable'
    BY <1>1, <1>4, <1>8 DEF SnapshotInv, Durable
  <1>10. Sealed(p)'
    BY <1>1, <1>3, <1>4 DEF SnapshotInv, SnapshotTypes, Sealed, Ready
  <1>11. pc'[p] = "rename"
    BY <1>4 DEF SnapshotInv, SnapshotTypes
  <1>12. \A q \in Proc : Writing(q)' /\ Sealed(q)' /\ Renamed(q)'
    BY <1>8, <1>10, <1>11 DEF Writing, Sealed, Renamed
  <1> QED
    BY <1>5, <1>7, <1>9, <1>12 DEF SnapshotInv

\* dest is the file that was synced.
LEMMA RenameKeeps ==
    ASSUME SnapshotInv, OneSaver, NEW p \in Proc, Rename(p)
    PROVE  SnapshotInv'
  <1>1. /\ pc[p] = "rename" /\ tmp = fd[p] /\ tmp \in Inode
        /\ shown[tmp] = text[p] /\ disk[tmp] = text[p] /\ text[p] \in Snapshots
    BY DEF Rename, Goto, SnapshotInv, SnapshotTypes, Sealed, Ready
  <1>2. /\ pc' = [pc EXCEPT ![p] = "dirsync"]
        /\ dest' = tmp /\ tmp' = None /\ destDisk' = destDisk \cup {tmp}
        /\ UNCHANGED <<graph, text, fd, at, shown, disk, acked, begun>>
    BY DEF Rename, Goto
  <1>3. SnapshotTypes'
    BY <1>1, <1>2 DEF SnapshotInv, SnapshotTypes
  <1>4. Settled' /\ Apart'
    BY <1>1, <1>2 DEF SnapshotInv, Settled, Apart
  <1>5. \A q \in Proc : q # p => pc'[q] = "idle"
    BY <1>1, <1>2 DEF OneSaver, SnapshotInv, SnapshotTypes
  <1>6. pc'[p] = "dirsync"
    BY <1>2 DEF SnapshotInv, SnapshotTypes
  <1>7. Durable'
    BY <1>1, <1>2, <1>5, SnapshotAssumption DEF SnapshotInv, Durable
  <1>8. \A q \in Proc : Writing(q)' /\ Sealed(q)' /\ Renamed(q)'
    BY <1>1, <1>2, <1>5, <1>6 DEF Writing, Sealed, Renamed
  <1> QED
    BY <1>3, <1>4, <1>7, <1>8 DEF SnapshotInv
\* What a process that leaves mm without a rename leaves to the others: the
\* entry dest as it was, dest.tmp as it was or gone.
LEMMA LeaveKeeps ==
    ASSUME SnapshotInv, NEW p \in Proc, Leave(p), Reclaim,
           graph' \in [Proc -> Snapshots], tmp' \in {tmp, None},
           UNCHANGED <<dest, destDisk, acked, begun>>
    PROVE  SnapshotInv'
  <1>1. <<>> \in Snapshots
    BY DEF Snapshots
  <1>2. SnapshotTypes
    BY DEF SnapshotInv
  <1>3. /\ shown' \in [Inode -> Text] /\ disk' \in [Inode -> Text]
        /\ \A f \in Inode : f \in destDisk =>
              shown'[f] = shown[f] /\ disk'[f] = disk[f]
    BY <1>2, ReclaimKeeps
  <1>4. \A q \in Proc : fd'[q] \in Inode =>
              shown'[fd'[q]] = shown[fd'[q]] /\ disk'[fd'[q]] = disk[fd'[q]]
    BY <1>2, ReclaimKeeps
  <1>5. SnapshotTypes'
    BY <1>1, <1>3 DEF SnapshotInv, SnapshotTypes, Leave
  <1>6. Settled' /\ Apart'
    BY <1>3 DEF SnapshotInv, SnapshotTypes, Settled, Apart
  <1>7. pc'[p] = "idle"
    BY DEF SnapshotInv, SnapshotTypes, Leave
  <1>8. \A q \in Proc : q # p =>
            pc'[q] = pc[q] /\ text'[q] = text[q] /\ fd'[q] = fd[q] /\ at'[q] = at[q]
    BY DEF SnapshotInv, SnapshotTypes, Leave
  <1>9. Durable'
    <2>1. \A q \in Proc : pc'[q] # "idle" => text'[q] \in begun'
      BY <1>7, <1>8 DEF SnapshotInv, Durable
    <2>2. acked # None => \A f \in destDisk : shown'[f] = shown[f]
      BY <1>3 DEF SnapshotInv, SnapshotTypes, Durable
    <2> QED
      BY <2>1, <2>2 DEF SnapshotInv, Durable
  <1>10. ASSUME NEW q \in Proc, q # p
         PROVE  Writing(q)' /\ Sealed(q)' /\ Renamed(q)'
    <2>1. Ready(q) => Ready(q)'
      BY <1>8, <1>10 DEF Ready
    <2>2. Writing(q)'
      BY <1>4, <1>8, <1>10, <2>1 DEF SnapshotInv, Writing, Ready
    <2>3. Sealed(q)'
      BY <1>4, <1>8, <1>10, <2>1 DEF SnapshotInv, Sealed, Ready
    <2>4. Renamed(q)'
      BY <1>3, <1>8, <1>10 DEF SnapshotInv, Renamed, Settled
    <2> QED
      BY <2>2, <2>3, <2>4
  <1>11. \A q \in Proc : Writing(q)' /\ Sealed(q)' /\ Renamed(q)'
    BY <1>7, <1>10 DEF Writing, Sealed, Renamed
  <1> QED
    BY <1>5, <1>6, <1>9, <1>11 DEF SnapshotInv

LEMMA FailKeeps ==
    ASSUME SnapshotInv, NEW p \in Proc, Fail(p)
    PROVE  SnapshotInv'
  <1>1. graph' \in [Proc -> Snapshots]
    BY DEF Fail, SnapshotInv, SnapshotTypes
  <1> QED
    BY <1>1, LeaveKeeps DEF Fail

LEMMA KillKeeps ==
    ASSUME SnapshotInv, NEW p \in Proc, Kill(p)
    PROVE  SnapshotInv'
  <1>1. <<>> \in Snapshots
    BY DEF Snapshots
  <1>2. graph' \in [Proc -> Snapshots]
    BY <1>1 DEF Kill, SnapshotInv, SnapshotTypes
  <1> QED
    BY <1>2, LeaveKeeps DEF Kill, directory

\* mm returns: dest is its file whatever happens.
LEMMA SyncDirKeeps ==
    ASSUME SnapshotInv, OneSaver, NEW p \in Proc, SyncDir(p)
    PROVE  SnapshotInv'
  <1>1. <<>> \in Snapshots
    BY DEF Snapshots
  <1>2. SnapshotTypes /\ Reclaim /\ Leave(p)
    BY DEF SnapshotInv, SyncDir
  <1>3. /\ destDisk' = {dest} /\ dest \in Inode /\ shown[dest] = text[p]
        /\ acked' = text[p] /\ begun' = {} /\ UNCHANGED <<graph, tmp, dest>>
    BY DEF SyncDir, Synced, SnapshotInv, Renamed
  <1>4. /\ shown' \in [Inode -> Text] /\ disk' \in [Inode -> Text]
        /\ shown'[dest] = shown[dest] /\ disk'[dest] = disk[dest]
    BY <1>2, <1>3, ReclaimKeeps
  <1>5. SnapshotTypes'
    BY <1>1, <1>2, <1>3, <1>4 DEF SnapshotInv, SnapshotTypes, Leave
  <1>6. Settled' /\ Apart'
    BY <1>3, <1>4, SnapshotAssumption DEF SnapshotInv, Settled, Apart
  <1>7. \A q \in Proc : pc'[q] = "idle"
    BY <1>2 DEF SyncDir, OneSaver, SnapshotInv, SnapshotTypes, Leave
  <1>8. Durable'
    BY <1>3, <1>4, <1>7, SnapshotAssumption DEF Durable
  <1>9. \A q \in Proc : Writing(q)' /\ Sealed(q)' /\ Renamed(q)'
    BY <1>7 DEF Writing, Sealed, Renamed
  <1> QED
    BY <1>5, <1>6, <1>8, <1>9 DEF SnapshotInv

\* What may be left of a file is a text.
LEMMA RemainsAreText ==
    ASSUME SnapshotTypes, NEW f \in Inode
    PROVE  Remains(f) \subseteq Text
  <1>1. shown[f] \in Text /\ disk[f] \in Text
    BY DEF SnapshotTypes
  <1>2. ASSUME NEW k \in 0 .. Len(shown[f])
        PROVE  SubSeq(shown[f], 1, k) \in Text /\ Append(SubSeq(shown[f], 1, k), Cut) \in Text
    <2>1. SubSeq(shown[f], 1, k) \in Text
      BY <1>1 DEF Text
    <2> QED
      BY <2>1 DEF Text
  <1> QED
    BY <1>1, <1>2 DEF Remains

\* Each of the files that dest may be was the same on the disk.
LEMMA PowerLossKeeps ==
    ASSUME SnapshotInv, PowerLoss
    PROVE  SnapshotInv'
  <1>1. <<>> \in Snapshots /\ <<>> \in Text
    BY DEF Snapshots, Text
  <1>2. /\ dest' \in destDisk /\ destDisk' = {dest'} /\ tmp' \in {tmp, None}
        /\ pc' = [q \in Proc |-> "idle"] /\ graph' = [q \in Proc |-> <<>>]
        /\ text' = [q \in Proc |-> <<>>] /\ fd' = [q \in Proc |-> None]
        /\ at' = [q \in Proc |-> 0] /\ disk' = shown' /\ UNCHANGED <<acked, begun>>
    BY DEF PowerLoss
  <1>3. PICK s \in [Inode \ Free' -> UNION {Remains(f) : f \in Inode}] :
              /\ \A f \in DOMAIN s : s[f] \in Remains(f)
              /\ shown' = [f \in Inode |-> IF f \in Free' THEN <<>> ELSE s[f]]
    BY DEF PowerLoss
  <1>4. \A f \in Inode \ Free' : s[f] \in Remains(f)
    BY <1>3
  <1>5. shown' \in [Inode -> Text]
    <2>1. \A f \in Inode \ Free' : s[f] \in Text
      BY <1>4, RemainsAreText DEF SnapshotInv
    <2> QED
      BY <1>1, <1>3, <2>1
  <1>6. dest' # None => shown'[dest'] = shown[dest'] /\ shown'[dest'] \in Snapshots
    <2> SUFFICES ASSUME dest' # None
                 PROVE  shown'[dest'] = shown[dest'] /\ shown'[dest'] \in Snapshots
      OBVIOUS
    <2>1. dest' \in Inode \ Free'
      BY <1>2 DEF SnapshotInv, SnapshotTypes, Free
    <2>2. shown[dest'] = disk[dest'] /\ shown[dest'] \in Snapshots
      BY <1>2 DEF SnapshotInv, Settled
    <2>3. s[dest'] = shown[dest']
      BY <1>4, <2>1, <2>2 DEF Remains
    <2> QED
      BY <1>3, <2>1, <2>2, <2>3
  <1>7. SnapshotTypes'
    BY <1>1, <1>2, <1>5 DEF SnapshotInv, SnapshotTypes
  <1>8. Settled' /\ Apart'
    BY <1>2, <1>6 DEF SnapshotInv, Settled, Apart
  <1>9. Durable'
    BY <1>2, <1>6 DEF SnapshotInv, Durable
  <1>10. \A q \in Proc : Writing(q)' /\ Sealed(q)' /\ Renamed(q)'
    BY <1>2 DEF Writing, Sealed, Renamed
  <1> QED
    BY <1>7, <1>8, <1>9, <1>10 DEF SnapshotInv

-----------------------------------------------------------------------------
LEMMA StepKeeps ==
    ASSUME SnapshotInv, OneSaver, OneSaver', [SnapshotNext]_snapshotVars
    PROVE  SnapshotInv'
  <1>1. ASSUME NEW p \in Proc, NEW g \in Graph, Edit(p, g) PROVE SnapshotInv'
    BY <1>1, EditKeeps
  <1>2. ASSUME NEW p \in Proc, Create(p) PROVE SnapshotInv'
    BY <1>2, CreateKeeps
  <1>3. ASSUME NEW p \in Proc, Write(p) PROVE SnapshotInv'
    BY <1>3, WriteKeeps
  <1>4. ASSUME NEW p \in Proc, Sync(p) PROVE SnapshotInv'
    BY <1>4, SyncKeeps
  <1>5. ASSUME NEW p \in Proc, Rename(p) PROVE SnapshotInv'
    BY <1>5, RenameKeeps
  <1>6. ASSUME NEW p \in Proc, SyncDir(p) PROVE SnapshotInv'
    BY <1>6, SyncDirKeeps
  <1>7. ASSUME NEW p \in Proc, Fail(p) PROVE SnapshotInv'
    BY <1>7, FailKeeps
  <1>8. ASSUME NEW p \in Proc, Load(p) PROVE SnapshotInv'
    BY <1>8, LoadKeeps
  <1>9. ASSUME NEW p \in Proc, Kill(p) PROVE SnapshotInv'
    BY <1>9, KillKeeps
  <1>10. CASE PowerLoss
    BY <1>10, PowerLossKeeps
  <1>11. CASE UNCHANGED snapshotVars
    BY <1>11 DEF snapshotVars, SnapshotInv, SnapshotTypes, Settled, Apart, Durable, Writing, Sealed, Renamed, Ready
  <1> QED
    BY <1>1, <1>2, <1>3, <1>4, <1>5, <1>6, <1>7, <1>8, <1>9, <1>10, <1>11 DEF SnapshotNext

LEMMA Invariant == SnapshotSpec /\ []OneSaver => []SnapshotInv
  <1>1. SnapshotInit => SnapshotInv
    BY InitHolds
  <1>2. SnapshotInv /\ OneSaver /\ OneSaver' /\ [SnapshotNext]_snapshotVars => SnapshotInv'
    BY StepKeeps
  <1> QED
    BY <1>1, <1>2, PTL DEF SnapshotSpec

\* While no two processes are inside mm at the same time, dest is never a part
\* of a snapshot: whatever fails, whoever is killed, and whenever power is lost
\* between two system calls of mm.
THEOREM WholeTheorem == SnapshotSpec /\ []OneSaver => []DestIsWhole
  <1>1. SnapshotInv => DestIsWhole
    BY DEF SnapshotInv, Settled, DestIsWhole
  <1> QED
    BY <1>1, Invariant, PTL

\* Under the same hypothesis, what a returned mm saved is there until a later mm
\* replaces it, through every failure, kill and power loss.
THEOREM DurableTheorem == SnapshotSpec /\ []OneSaver => []ReturnedIsDurable
  <1>1. SnapshotInv => ReturnedIsDurable
    BY DEF SnapshotInv, Settled, Durable, ReturnedIsDurable
  <1> QED
    BY <1>1, Invariant, PTL

\* Under the same hypothesis, ml loads only what was saved, though Parses
\* accepts a file that lost its last lines.
THEOREM LoadTheorem == SnapshotSpec /\ []OneSaver => []LoadedWasSaved
  <1>1. SnapshotInv => LoadedWasSaved
    BY DEF SnapshotInv, SnapshotTypes, LoadedWasSaved
  <1> QED
    BY <1>1, Invariant, PTL

\* One process alone needs no hypothesis on how mm is called.
THEOREM OneProcessTheorem ==
    ASSUME \A p, q \in Proc : p = q
    PROVE  SnapshotSpec => [](DestIsWhole /\ ReturnedIsDurable /\ LoadedWasSaved)
  <1>1. OneSaver
    BY DEF OneSaver
  <1> QED
    BY <1>1, WholeTheorem, DurableTheorem, LoadTheorem, PTL
=============================================================================
