--------------------------- MODULE Adapters_proofs ---------------------------
(***************************************************************************)
(* Proofs about the adapters: SpeakerRegions, for every window, region and *)
(* chunk length; SileroVad, for every window, chunk and sequence of        *)
(* verdicts; SherpaEngine, for every sequence of pieces it is given.  Each *)
(* part has the invariant of its adapter, then what follows from it.       *)
(***************************************************************************)
EXTENDS Adapters, FiniteSetTheorems, SequenceTheorems, TLAPS

(* How far the segments have got: the frontend's emission frontier.        *)
Frontier == IF region = None THEN at ELSE region

Disjoint(spans) == \A s, t \in spans : s = t \/ s.end <= t.start \/ t.end <= s.start

Between(spans, low, high) == \A s \in spans : low <= s.start /\ s.start < s.end /\ s.end <= high

LongOnes(spans) == \A s \in spans : Length(s) >= MinRegion \/ Length(s) = Window

Positions ==
  /\ region = None => held = 0 /\ silence = 0
  /\ BufferIsTheTail

IInv == TypeOK /\ Positions /\ Disjoint(segments) /\ Between(segments, 0, Frontier) /\ LongOnes(segments)

-----------------------------------------------------------------------------
(* Windows cut consecutively by _drain_windows do not overlap: the one of a *)
(* larger index starts where the earlier one has ended, or later.          *)
LEMMA Stride ==
  ASSUME NEW i \in Int, NEW j \in Int, i < j
  PROVE  (i + 1) * Window <= j * Window
<1>1. Window \in Nat BY RegionAssumption
<1>2. j * Window - (i + 1) * Window = (j - i - 1) * Window BY <1>1
<1>3. (j - i - 1) * Window >= 0 BY <1>1
<1> QED BY <1>1, <1>2, <1>3

(* _drain_windows cuts `count` samples into whole windows and a remainder  *)
(* shorter than a window.                                                  *)
LEMMA Division ==
  ASSUME NEW count \in Nat
  PROVE  /\ count \div Window \in Nat
         /\ 0 <= Window * (count \div Window)
         /\ Window * (count \div Window) <= count
         /\ count - Window * (count \div Window) < Window
BY RegionAssumption

(* The windows _drain_windows emits tile the samples from `from` to the    *)
(* start of the remainder.                                                 *)
LEMMA WindowsTile ==
  ASSUME NEW from \in Nat, NEW count \in Nat
  PROVE  /\ Windows(from, count) \subseteq Span
         /\ Between(Windows(from, count), from, Rest(from, count).start)
         /\ Disjoint(Windows(from, count))
         /\ \A w \in Windows(from, count) : Length(w) = Window
<1> DEFINE n == count \div Window
<1>1. Window \in Nat /\ Window > 0 /\ n \in Nat BY Division, RegionAssumption
<1>2. \A i \in 0 .. (n - 1) : /\ 0 <= i * Window
                              /\ (i + 1) * Window = i * Window + Window
                              /\ (i + 1) * Window <= n * Window
  <2> SUFFICES ASSUME NEW i \in 0 .. (n - 1)
               PROVE  /\ 0 <= i * Window
                      /\ (i + 1) * Window = i * Window + Window
                      /\ (i + 1) * Window <= n * Window
    OBVIOUS
  <2> HIDE DEF n
  <2>1. i \in Int /\ n \in Int /\ i < n /\ 0 <= i BY <1>1
  <2> QED BY <2>1, <1>1, Stride
<1>3. \A i, j \in 0 .. (n - 1) : i < j => (i + 1) * Window <= j * Window BY <1>1, Stride
<1>4. Rest(from, count).start = from + n * Window
  <2>1. Rest(from, count).start = from + Window * n BY DEF Rest
  <2>2. Window * n = n * Window BY <1>1
  <2> QED BY <2>1, <2>2
<1> DEFINE W(i) == [start |-> from + i * Window, end |-> from + (i + 1) * Window]
<1>5. Windows(from, count) = {W(i) : i \in 0 .. (n - 1)} BY DEF Windows
<1> HIDE DEF n
<1>6. ASSUME NEW i \in 0 .. (n - 1)
      PROVE  W(i) \in Span /\ from <= W(i).start /\ W(i).start < W(i).end
             /\ W(i).end <= from + n * Window /\ W(i).end - W(i).start = Window
  <2>1. i \in Int /\ i * Window \in Int /\ n * Window \in Int BY <1>1
  <2>2. /\ 0 <= i * Window
        /\ (i + 1) * Window = i * Window + Window
        /\ (i + 1) * Window <= n * Window
    BY <1>2
  <2> QED BY <2>1, <2>2, <1>1 DEF Span
<1>7. ASSUME NEW i \in 0 .. (n - 1), NEW j \in 0 .. (n - 1), i < j
      PROVE  W(i).end <= W(j).start
  <2>1. (i + 1) * Window <= j * Window BY <1>3, <1>7
  <2>2. (i + 1) * Window \in Int /\ j * Window \in Int BY <1>1
  <2> QED BY <2>1, <2>2
<1>8. Disjoint(Windows(from, count))
  <2> SUFFICES ASSUME NEW i \in 0 .. (n - 1), NEW j \in 0 .. (n - 1)
               PROVE  W(i) = W(j) \/ W(i).end <= W(j).start \/ W(j).end <= W(i).start
    BY <1>5 DEF Disjoint
  <2>1. i < j \/ j < i \/ i = j BY <1>1
  <2>2. CASE i < j BY <1>7, <2>2
  <2>3. CASE j < i BY <1>7, <2>3
  <2>4. CASE i = j BY <2>4
  <2> HIDE DEF W
  <2> QED BY <2>1, <2>2, <2>3, <2>4
<1> HIDE DEF W
<1> QED BY <1>4, <1>5, <1>6, <1>8 DEF Between, Length

(* The remainder starts where the windows end and is shorter than one.     *)
LEMMA RestIsTheTail ==
  ASSUME NEW from \in Nat, NEW count \in Nat
  PROVE  /\ Rest(from, count) \in Span
         /\ Rest(from, count).end = from + count
         /\ from <= Rest(from, count).start
         /\ Rest(from, count).start <= from + count
         /\ Length(Rest(from, count)) = from + count - Rest(from, count).start
         /\ Length(Rest(from, count)) \in Nat
         /\ Length(Rest(from, count)) < Window
<1> DEFINE n == Window * (count \div Window)
<1>1. n \in Int /\ 0 <= n /\ n <= count /\ count - n < Window BY Division, RegionAssumption
<1>2. Rest(from, count) = [start |-> from + n, end |-> from + count] BY DEF Rest
<1> HIDE DEF n
<1> QED BY <1>1, <1>2, RegionAssumption DEF Span, Length

(* Segments cut after the old frontier leave all the segments disjoint.    *)
LEMMA Extend ==
  ASSUME NEW old, NEW new, old \subseteq Span, new \subseteq Span,
         NEW low \in Nat, NEW high \in Nat, low <= high,
         Disjoint(old), Between(old, 0, low), Disjoint(new), Between(new, low, high)
  PROVE  Disjoint(old \cup new) /\ Between(old \cup new, 0, high)
<1>1. \A s \in old, t \in new : s.end <= t.start
  BY DEF Between, Span
<1>2. Disjoint(old \cup new) BY <1>1 DEF Disjoint
<1>3. Between(old \cup new, 0, high) BY DEF Between, Span
<1> QED BY <1>2, <1>3

-----------------------------------------------------------------------------
(* What a step promises of the samples counted from `from` on.             *)
Cut(from, count) ==
  /\ segments' \subseteq Span
  /\ Disjoint(segments') /\ Between(segments', 0, from + count) /\ LongOnes(segments')
  /\ dropped' \subseteq Span
  /\ held' \in Nat

(* Drain keeps the invariant's parts for the samples it is given.          *)
LEMMA DrainCuts ==
  ASSUME IInv, NEW from \in Nat, NEW count \in Nat, NEW run \in Nat,
         Frontier <= from, Drain(from, count, run)
  PROVE  /\ Cut(from, count)
         /\ Between(segments', 0, region')
         /\ region' \in Nat /\ region' + held' = from + count
         /\ held' < Window /\ silence' = run
<1> DEFINE new == Windows(from, count)
           mid == Rest(from, count).start
<1>1. new \subseteq Span /\ Between(new, from, mid) /\ Disjoint(new) /\ \A w \in new : Length(w) = Window
  BY WindowsTile
<1>2. mid \in Nat /\ from <= mid /\ mid <= from + count /\ Length(Rest(from, count)) = from + count - mid
      /\ Length(Rest(from, count)) \in Nat /\ Length(Rest(from, count)) < Window
  BY RestIsTheTail DEF Span
<1>3. segments \subseteq Span /\ Disjoint(segments) /\ Between(segments, 0, from) /\ LongOnes(segments) /\ dropped \subseteq Span
  <2>1. Frontier \in Nat BY DEF IInv, TypeOK, Frontier
  <2>2. segments \subseteq Span /\ Disjoint(segments) /\ Between(segments, 0, Frontier) BY DEF IInv, TypeOK
  <2>3. Between(segments, 0, from) BY <2>1, <2>2 DEF Between, Span
  <2> QED BY <2>2, <2>3 DEF IInv, TypeOK
<1>4. segments' = segments \cup new /\ region' = mid /\ held' = Length(Rest(from, count)) /\ silence' = run
      /\ dropped' = dropped
  BY DEF Drain
<1> HIDE DEF new, mid
<1>5. Disjoint(segments') /\ Between(segments', 0, mid) BY <1>1, <1>2, <1>3, <1>4, Extend
<1>6. LongOnes(segments') BY <1>1, <1>3, <1>4 DEF LongOnes
<1>7. segments' \subseteq Span BY <1>1, <1>3, <1>4
<1>8. Between(segments', 0, from + count) BY <1>2, <1>5, <1>7 DEF Between, Span
<1> QED BY <1>2, <1>3, <1>4, <1>5, <1>6, <1>7, <1>8 DEF Cut

(* So does Close, whose tail is the last segment if it is long enough.     *)
LEMMA CloseCuts ==
  ASSUME IInv, NEW from \in Nat, NEW count \in Nat, Frontier <= from, Close(from, count)
  PROVE  Cut(from, count) /\ region' = None /\ held' = 0 /\ silence' = 0
<1> DEFINE new == Windows(from, count)
           tail == Rest(from, count)
           kept == IF LongEnough(tail) THEN {tail} ELSE {}
<1>1. new \subseteq Span /\ Between(new, from, tail.start) /\ Disjoint(new) /\ \A w \in new : Length(w) = Window
  BY WindowsTile
<1>2. tail \in Span /\ from <= tail.start /\ tail.start <= from + count /\ tail.end = from + count
      /\ Length(tail) \in Nat /\ Length(tail) = from + count - tail.start
  BY RestIsTheTail
<1>3. segments \subseteq Span /\ Disjoint(segments) /\ Between(segments, 0, from) /\ LongOnes(segments) /\ dropped \subseteq Span
  <2>1. Frontier \in Nat BY DEF IInv, TypeOK, Frontier
  <2>2. segments \subseteq Span /\ Disjoint(segments) /\ Between(segments, 0, Frontier) BY DEF IInv, TypeOK
  <2>3. Between(segments, 0, from) BY <2>1, <2>2 DEF Between, Span
  <2> QED BY <2>2, <2>3 DEF IInv, TypeOK
<1>4. segments' = segments \cup new \cup kept /\ region' = None /\ held' = 0 /\ silence' = 0
      /\ dropped' = IF LongEnough(tail) THEN dropped ELSE dropped \cup {tail}
  BY DEF Close
<1> HIDE DEF new, tail
<1>5. kept \subseteq Span /\ Disjoint(kept) /\ \A s \in kept : s = tail /\ Length(tail) >= MinRegion
  BY <1>2 DEF Disjoint, LongEnough
<1>6. tail.start \in Nat BY <1>2 DEF Span
<1> HIDE DEF kept
<1>7. Between(kept, tail.start, from + count)
  <2> SUFFICES ASSUME NEW s \in kept
               PROVE  tail.start <= s.start /\ s.start < s.end /\ s.end <= from + count
    BY DEF Between
  <2>1. s = tail /\ Length(tail) >= MinRegion /\ MinRegion > 0 BY <1>5, RegionAssumption
  <2>2. from + count - tail.start > 0 BY <1>2, <2>1, RegionAssumption
  <2> QED BY <1>2, <1>6, <2>1, <2>2
<1>8. Disjoint(segments \cup new) /\ Between(segments \cup new, 0, tail.start)
  BY <1>1, <1>2, <1>3, <1>6, Extend
<1>9. segments \cup new \subseteq Span BY <1>1, <1>3
<1>10. Disjoint(segments') /\ Between(segments', 0, from + count)
  <2>1. from + count \in Nat /\ tail.start <= from + count BY <1>2
  <2>2. Disjoint((segments \cup new) \cup kept) /\ Between((segments \cup new) \cup kept, 0, from + count)
    BY <1>5, <1>6, <1>7, <1>8, <1>9, <2>1, Extend
  <2> QED BY <1>4, <2>2
<1>11. LongOnes(segments') BY <1>1, <1>3, <1>4, <1>5 DEF LongOnes
<1>12. segments' \subseteq Span BY <1>4, <1>5, <1>9
<1>13. dropped' \subseteq Span BY <1>2, <1>3, <1>4
<1> QED BY <1>4, <1>10, <1>11, <1>12, <1>13 DEF Cut

-----------------------------------------------------------------------------
LEMMA InitInv == Init => IInv
<1> SUFFICES ASSUME Init PROVE IInv OBVIOUS
<1>1. TypeOK
  <2>1. ended \in BOOLEAN BY Zenon DEF Init
  <2> QED BY <2>1 DEF Init, TypeOK
<1>2. Positions BY DEF Init, Positions, BufferIsTheTail
<1>3. Disjoint(segments) /\ Between(segments, 0, Frontier) /\ LongOnes(segments)
  BY Zenon DEF Init, Disjoint, Between, LongOnes
<1> QED BY <1>1, <1>2, <1>3 DEF IInv

(* A draining step re-establishes the invariant.                           *)
LEMMA DrainInv ==
  ASSUME IInv, at' \in Nat, ended' \in BOOLEAN, spoken' \subseteq Span,
         NEW from \in Nat, NEW count \in Nat, NEW run \in Nat, from + count = at', Frontier <= from,
         run = 0 \/ run < MinSilence, Drain(from, count, run)
  PROVE  IInv'
<1>1. /\ Cut(from, count) /\ Between(segments', 0, region')
      /\ region' \in Nat /\ region' + held' = from + count
      /\ held' < Window /\ silence' = run
  BY DrainCuts
<1>2. region' # None BY <1>1, RegionAssumption
<1>3. TypeOK' BY <1>1 DEF Cut, TypeOK
<1>4. Positions' BY <1>1, <1>2 DEF Positions, BufferIsTheTail
<1>5. Between(segments', 0, Frontier') BY <1>1, <1>2 DEF Frontier
<1> QED BY <1>1, <1>3, <1>4, <1>5 DEF IInv, Cut, Disjoint, Between, LongOnes, Length

(* A closing step does too.                                                *)
LEMMA CloseInv ==
  ASSUME IInv, at' \in Nat, ended' \in BOOLEAN, spoken' \subseteq Span,
         NEW from \in Nat, NEW count \in Nat, from + count = at', Frontier <= from, Close(from, count)
  PROVE  IInv'
<1>1. Cut(from, count) /\ region' = None /\ held' = 0 /\ silence' = 0 BY CloseCuts
<1>2. TypeOK' BY <1>1 DEF Cut, TypeOK
<1>3. Positions' BY <1>1 DEF Positions, BufferIsTheTail
<1>4. Between(segments', 0, Frontier') BY <1>1 DEF Frontier, Cut
<1> QED BY <1>1, <1>2, <1>3, <1>4 DEF IInv, Cut, Disjoint, Between, LongOnes, Length

LEMMA PushInv == ASSUME IInv, NEW d \in Steps, NEW voiced \in BOOLEAN, Push(d, voiced) PROVE IInv'
<1>1. d \in Nat /\ at \in Nat /\ held \in Nat /\ silence \in Nat /\ (region = None \/ region \in Nat)
      /\ ended \in BOOLEAN /\ spoken \subseteq Span
  BY RegionAssumption DEF IInv, TypeOK
<1>2. at' = at + d /\ at' \in Nat /\ ended' \in BOOLEAN BY <1>1 DEF Push
<1>3. spoken' \subseteq Span
  <2>1. [start |-> at, end |-> at + d] \in Span BY <1>1 DEF Span
  <2> QED BY <1>1, <2>1 DEF Push
<1>4. region # None => region \in Nat /\ region + held = at BY <1>1 DEF IInv, Positions, BufferIsTheTail
<1>5. CASE voiced /\ Speech(d)
  <2> DEFINE from == IF region = None THEN OpensAt(at + d, d) ELSE region
  <2>1. from \in Nat /\ held + d \in Nat /\ from + (held + d) = at' /\ Frontier <= from
    <3>1. OpensAt(at + d, d) = at BY <1>1 DEF OpensAt
    <3>2. region = None => held = 0 BY DEF IInv, Positions
    <3> QED BY <1>1, <1>2, <1>4, <3>1, <3>2 DEF Frontier
  <2>2. Close(from, held + d) \/ Drain(from, held + d, 0) BY <1>5 DEF Speech
  <2> HIDE DEF from
  <2>3. 0 \in Nat OBVIOUS
  <2> QED BY <1>2, <1>3, <2>1, <2>2, <2>3, DrainInv, CloseInv
<1>6. CASE region # None /\ Pause(d)
  <2>1. region \in Nat /\ held + d \in Nat /\ silence + d \in Nat /\ region + (held + d) = at' /\ Frontier <= region
    BY <1>1, <1>2, <1>4, <1>6 DEF Frontier
  <2>2. CASE Close(region, held + d) BY <1>2, <1>3, <2>1, <2>2, CloseInv
  <2>3. CASE ~ Breaks(silence + d) /\ Drain(region, held + d, silence + d)
    <3>1. silence + d < MinSilence BY <2>1, <2>3, RegionAssumption DEF Breaks
    <3> QED BY <1>2, <1>3, <2>1, <2>3, <3>1, DrainInv
  <2> QED BY <1>6, <2>2, <2>3 DEF Pause
<1>7. CASE region = None /\ UNCHANGED <<region, held, silence, segments, dropped>>
  <2>1. TypeOK' BY <1>1, <1>2, <1>3, <1>7 DEF IInv, TypeOK
  <2>2. Positions' BY <1>7 DEF IInv, Positions, BufferIsTheTail
  <2>3. Between(segments', 0, Frontier') BY <1>1, <1>2, <1>7 DEF IInv, TypeOK, Between, Frontier, Span
  <2> QED BY <1>7, <2>1, <2>2, <2>3 DEF IInv, Disjoint, Between, LongOnes, Length
<1> QED BY <1>5, <1>6, <1>7 DEF Push

LEMMA FlushInv == ASSUME IInv, Flush PROVE IInv'
<1>1. at \in Nat /\ held \in Nat /\ (region = None \/ region \in Nat) /\ at' = at /\ spoken' = spoken
      /\ ended' \in BOOLEAN /\ spoken \subseteq Span
  BY DEF IInv, TypeOK, Flush
<1>2. CASE region = None
  <2>1. UNCHANGED <<region, held, silence, segments, dropped>> BY <1>2 DEF Flush
  <2> QED BY <1>1, <2>1
     DEF IInv, TypeOK, Positions, BufferIsTheTail, Disjoint, Between, LongOnes, Length, Frontier
<1>3. CASE region # None
  <2>1. Close(region, held) BY <1>3 DEF Flush
  <2>2. region + held = at' /\ Frontier <= region BY <1>1, <1>3 DEF IInv, Positions, BufferIsTheTail, Frontier
  <2> QED BY <1>1, <1>3, <2>1, <2>2, CloseInv
<1> QED BY <1>2, <1>3

LEMMA ResetInv == ASSUME Reset PROVE IInv'
<1>1. at' = 0 /\ region' = None /\ held' = 0 /\ silence' = 0 /\ segments' = {} /\ spoken' = {} /\ dropped' = {}
  BY DEF Reset
<1>2. ended' \in BOOLEAN BY Zenon DEF Reset
<1>3. TypeOK' BY <1>1, <1>2 DEF TypeOK
<1>4. Positions' BY <1>1 DEF Positions, BufferIsTheTail
<1>5. (Disjoint(segments) /\ Between(segments, 0, Frontier) /\ LongOnes(segments))'
  BY <1>1, Zenon DEF Disjoint, Between, LongOnes
<1> QED BY <1>3, <1>4, <1>5 DEF IInv

LEMMA NextInv == IInv /\ [Next]_vars => IInv'
<1> SUFFICES ASSUME IInv, [Next]_vars PROVE IInv' OBVIOUS
<1>1. CASE \E d \in Steps, voiced \in BOOLEAN : Push(d, voiced) BY <1>1, PushInv
<1>2. CASE Flush BY <1>2, FlushInv
<1>3. CASE Reset BY <1>3, ResetInv
<1>4. CASE UNCHANGED vars
  BY <1>4 DEF vars, IInv, TypeOK, Positions, BufferIsTheTail, Disjoint, Between, LongOnes, Length, Frontier
<1> QED BY <1>1, <1>2, <1>3, <1>4 DEF Next

LEMMA Invariant == Spec => []IInv
BY InitInv, NextInv, PTL DEF Spec

-----------------------------------------------------------------------------
(* Every reachable state of the speaker frontend is well typed: a region   *)
(* never starts before the stream does.                                    *)
THEOREM TypeCorrect == Spec => []TypeOK
<1>1. IInv => TypeOK BY DEF IInv
<1> QED BY <1>1, Invariant, PTL

(* The segments handed to the SpeakerTracker never share audio and never   *)
(* claim audio that has not arrived, whatever the window, the chunks and   *)
(* the VAD.                                                                *)
THEOREM Disjointness == Spec => []SegmentsAreDisjoint
<1>1. IInv => SegmentsAreDisjoint
  <2> SUFFICES ASSUME IInv PROVE SegmentsAreDisjoint OBVIOUS
  <2>1. Frontier \in Nat /\ at \in Nat /\ Frontier <= at
    BY DEF IInv, TypeOK, Positions, BufferIsTheTail, Frontier
  <2>2. segments \subseteq Span /\ Disjoint(segments) /\ Between(segments, 0, Frontier) BY DEF IInv, TypeOK
  <2>3. \A s \in segments : s.start < s.end /\ s.end <= at BY <2>1, <2>2 DEF Between, Span
  <2> QED BY <2>2, <2>3 DEF SegmentsAreDisjoint, Disjoint
<1> QED BY <1>1, Invariant, PTL

(* No segment is shorter than the shortest one worth embedding, unless a   *)
(* whole window is.                                                        *)
THEOREM LongSegments == Spec => []SegmentsAreLongEnough
<1>1. IInv => SegmentsAreLongEnough BY DEF IInv, LongOnes, SegmentsAreLongEnough
<1> QED BY <1>1, Invariant, PTL

(* The buffer is bounded by a window between two pushes, and its samples   *)
(* are the last ones of the stream, so no segment's span drifts from the   *)
(* audio it was computed from.                                             *)
THEOREM BoundedBuffer == Spec => []BufferIsTheTail
<1>1. IInv => BufferIsTheTail BY DEF IInv, Positions
<1> QED BY <1>1, Invariant, PTL

-----------------------------------------------------------------------------
(* What is spoken.  A step cuts the samples from the frontier on, those of *)
(* the open region and of the chunk just pushed, and nothing else.         *)
Cuts(from, count) == Close(from, count) \/ Drain(from, count, silence')

Covered(t) == In(t, segments) \/ (region # None /\ region <= t) \/ In(t, dropped)

(* The windows leave no sample out: one before the remainder is in the     *)
(* window of its quotient.                                                 *)
LEMMA WindowsCover ==
  ASSUME NEW from \in Nat, NEW count \in Nat, NEW t \in Nat,
         from <= t, t < Rest(from, count).start
  PROVE  In(t, Windows(from, count))
<1> DEFINE n == count \div Window
           i == (t - from) \div Window
<1>1. Window \in Nat /\ Window > 0 /\ n \in Nat BY Division, RegionAssumption
<1>2. t - from \in Nat OBVIOUS
<1>3. i \in Nat /\ Window * i <= t - from /\ t - from - Window * i < Window BY <1>2, Division
<1>4. t < from + Window * n BY DEF Rest
<1> HIDE DEF n, i
<1>5. i < n
  <2> SUFFICES ASSUME n <= i PROVE FALSE BY <1>1, <1>3
  <2>1. Window * i - Window * n = Window * (i - n) BY <1>1, <1>3
  <2>2. Window * (i - n) >= 0 BY <1>1, <1>3
  <2>3. Window * i \in Int /\ Window * n \in Int BY <1>1, <1>3
  <2> QED BY <1>3, <1>4, <2>1, <2>2, <2>3
<1>6. i * Window = Window * i /\ (i + 1) * Window = Window * i + Window /\ Window * i \in Int BY <1>1, <1>3
<1> DEFINE W(k) == [start |-> from + k * Window, end |-> from + (k + 1) * Window]
<1>7. Windows(from, count) = {W(k) : k \in 0 .. (n - 1)} BY DEF Windows, n
<1>8. W(i).start <= t /\ t < W(i).end BY <1>1, <1>3, <1>6
<1>9. i \in 0 .. (n - 1) BY <1>1, <1>3, <1>5
<1> HIDE DEF W
<1> QED BY <1>7, <1>8, <1>9 DEF In

(* A cut covers every sample it is given, forgets nothing that was covered *)
(* and leaves everything it makes between its ends.                        *)
LEMMA CutCovers ==
  ASSUME NEW from \in Nat, NEW count \in Nat, Cuts(from, count), NEW t \in Nat,
         from <= t, t < from + count
  PROVE  Covered(t)'
<1> DEFINE tail == Rest(from, count)
<1>1. tail.start \in Nat /\ tail.end = from + count BY RestIsTheTail DEF Span
<1>2. CASE t < tail.start
  <2>1. In(t, Windows(from, count)) BY <1>2, WindowsCover
  <2>2. Windows(from, count) \subseteq segments' BY DEF Cuts, Close, Drain
  <2> QED BY <2>1, <2>2 DEF In, Covered
<1>3. CASE tail.start <= t /\ Close(from, count)
  <2>1. tail \in segments' \/ tail \in dropped' BY <1>3 DEF Close
  <2> HIDE DEF tail
  <2> QED BY <1>1, <1>3, <2>1 DEF In, Covered
<1>4. CASE tail.start <= t /\ Drain(from, count, silence')
  <2>1. region' = tail.start BY <1>4 DEF Drain
  <2>2. region' # None BY <1>1, <2>1, RegionAssumption
  <2> HIDE DEF tail
  <2> QED BY <1>4, <2>1, <2>2 DEF Covered
<1> HIDE DEF tail
<1> QED BY <1>1, <1>2, <1>3, <1>4 DEF Cuts

LEMMA CutKeeps ==
  ASSUME NEW from \in Nat, NEW count \in Nat, Cuts(from, count)
  PROVE  /\ segments \subseteq segments' /\ dropped \subseteq dropped'
         /\ \A s \in segments' \ segments : s \in Span /\ from <= s.start /\ s.end <= from + count
         /\ region' # None => from <= region' /\ region' <= from + count
                              /\ Drain(from, count, silence')
<1> DEFINE tail == Rest(from, count)
           new  == Windows(from, count)
<1>1. tail \in Span /\ from <= tail.start /\ tail.start <= from + count /\ tail.end = from + count BY RestIsTheTail
<1>2. new \subseteq Span /\ Between(new, from, tail.start) BY WindowsTile
<1>3. segments \subseteq segments' /\ dropped \subseteq dropped' /\ segments' \subseteq segments \cup new \cup {tail}
  BY DEF Cuts, Close, Drain
<1>4. region' # None => region' = tail.start /\ Drain(from, count, silence')
  BY DEF Cuts, Close, Drain
<1> HIDE DEF tail, new
<1>5. \A s \in segments' \ segments : s \in Span /\ from <= s.start /\ s.end <= from + count
  BY <1>1, <1>2, <1>3 DEF Between, Span
<1> QED BY <1>1, <1>3, <1>4, <1>5

(* What a push does: the silence counts up from the last chunk of speech,  *)
(* and the cut starts at the frontier.                                     *)
Chunk(d) == [start |-> at, end |-> at + d]

LEMMA PushCuts ==
  ASSUME IInv, NEW d \in Steps, NEW voiced \in BOOLEAN, Push(d, voiced)
  PROVE  /\ d \in Nat /\ at' = at + d
         /\ spoken' = IF voiced THEN spoken \cup {Chunk(d)} ELSE spoken
         /\ \/ ~ voiced /\ region = None /\ UNCHANGED <<region, held, silence, segments, dropped>>
            \/ /\ Cuts(Frontier, at' - Frontier)
               /\ region = None => voiced
               /\ region' # None => silence' = IF voiced THEN 0 ELSE silence + d
<1>1. d \in Nat /\ at \in Nat /\ held \in Nat /\ (region = None \/ region \in Nat)
  BY RegionAssumption DEF IInv, TypeOK
<1>2. at' = at + d /\ spoken' = IF voiced THEN spoken \cup {Chunk(d)} ELSE spoken
  BY DEF Push, Chunk
<1>3. Frontier + held = at BY <1>1 DEF IInv, Positions, BufferIsTheTail, Frontier
<1>4. Frontier \in Nat BY <1>1 DEF Frontier
<1>5. at' - Frontier = held + d BY <1>1, <1>2, <1>3, <1>4
<1>6. CASE voiced /\ Speech(d)
  <2>1. (IF region = None THEN OpensAt(at + d, d) ELSE region) = Frontier BY <1>1 DEF OpensAt, Frontier
  <2>2. Close(Frontier, held + d) \/ Drain(Frontier, held + d, 0) BY <1>6, <2>1 DEF Speech
  <2>3. region' # None => silence' = 0 BY <2>2 DEF Close, Drain
  <2>4. Cuts(Frontier, held + d) BY <2>2 DEF Cuts, Drain
  <2> QED BY <1>1, <1>2, <1>5, <1>6, <2>3, <2>4
<1>7. CASE ~ voiced /\ region # None /\ Pause(d)
  <2>1. Close(Frontier, held + d) \/ Drain(Frontier, held + d, silence + d) BY <1>7 DEF Pause, Frontier
  <2>2. region' # None => silence' = silence + d BY <2>1 DEF Close, Drain
  <2>3. Cuts(Frontier, held + d) BY <2>1 DEF Cuts, Drain
  <2> QED BY <1>1, <1>2, <1>5, <1>7, <2>2, <2>3
<1> QED BY <1>1, <1>2, <1>6, <1>7 DEF Push

LEMMA FlushCuts ==
  ASSUME IInv, Flush
  PROVE  /\ UNCHANGED <<at, spoken>> /\ region' = None
         /\ \/ region = None /\ UNCHANGED <<region, held, silence, segments, dropped>>
            \/ Cuts(Frontier, at' - Frontier)
<1>1. at \in Nat /\ held \in Nat /\ (region = None \/ region \in Nat) BY DEF IInv, TypeOK
<1>2. CASE region = None BY <1>2 DEF Flush
<1>3. CASE region # None
  <2>1. Frontier = region /\ at' = at /\ at - region = held
    BY <1>1, <1>3 DEF IInv, Positions, BufferIsTheTail, Frontier, Flush
  <2>2. Close(region, held) /\ UNCHANGED <<at, spoken>> BY <1>3 DEF Flush
  <2> QED BY <2>1, <2>2 DEF Cuts, Close
<1> QED BY <1>2, <1>3

(* Nothing spoken is lost, and nothing is spoken ahead of the stream.      *)
SpeechInv ==
  \A chunk \in spoken : /\ chunk.end <= at
                        /\ \A t \in Nat : chunk.start <= t /\ t < chunk.end => Covered(t)

(* A cut at the frontier keeps what was covered before the stream's        *)
(* position, and covers the rest.                                          *)
LEMMA CutKeepsCovered ==
  ASSUME IInv, at' \in Nat, at <= at', Cuts(Frontier, at' - Frontier), NEW t \in Nat, t < at',
         Covered(t) \/ at <= t
  PROVE  Covered(t)'
<1>1. at \in Nat /\ held \in Nat /\ (region = None \/ region \in Nat) BY DEF IInv, TypeOK
<1>2. Frontier \in Nat /\ Frontier <= at BY <1>1 DEF IInv, Positions, BufferIsTheTail, Frontier
<1>3. at' - Frontier \in Nat /\ Frontier + (at' - Frontier) = at'
  <2> DEFINE now == at'
             from == Frontier
  <2>1. now \in Nat /\ at <= now /\ from \in Nat /\ from <= at /\ at \in Nat BY <1>1, <1>2
  <2> HIDE DEF now, from
  <2>2. now - from \in Nat /\ from + (now - from) = now BY <2>1
  <2> QED BY <2>2 DEF now, from
<1>4. CASE Frontier <= t BY <1>2, <1>3, <1>4, CutCovers
<1>5. CASE In(t, segments) \/ In(t, dropped)
  <2>1. segments \subseteq segments' /\ dropped \subseteq dropped' BY <1>2, <1>3, CutKeeps
  <2> QED BY <1>5, <2>1 DEF In, Covered
<1>6. CASE region # None /\ region <= t BY <1>4, <1>6 DEF Frontier
<1> QED BY <1>1, <1>2, <1>4, <1>5, <1>6 DEF Covered

LEMMA SpeechStep == IInv /\ SpeechInv /\ [Next]_vars => SpeechInv'
<1> SUFFICES ASSUME IInv, SpeechInv, [Next]_vars PROVE SpeechInv' OBVIOUS
<1>0. at \in Nat /\ spoken \subseteq Span BY DEF IInv, TypeOK
<1>1. ASSUME NEW d \in Steps, NEW voiced \in BOOLEAN, Push(d, voiced)
      PROVE  SpeechInv'
  <2>1. /\ d \in Nat /\ at' = at + d /\ spoken' = IF voiced THEN spoken \cup {Chunk(d)} ELSE spoken
        /\ \/ ~ voiced /\ region = None /\ UNCHANGED <<region, held, silence, segments, dropped>>
           \/ Cuts(Frontier, at' - Frontier)
    BY <1>1, PushCuts
  <2>2. CASE ~ voiced /\ UNCHANGED <<region, held, silence, segments, dropped>>
    <3>1. \A t \in Nat : Covered(t) => Covered(t)' BY <2>2 DEF Covered, In
    <3>2. \A chunk \in spoken : chunk.end <= at' BY <1>0, <2>1 DEF SpeechInv, Span
    <3> QED BY <2>1, <2>2, <3>1, <3>2 DEF SpeechInv, Covered, In
  <2>3. CASE Cuts(Frontier, at' - Frontier)
    <3>1. at' \in Nat /\ at <= at' BY <1>0, <2>1
    <3>2. ASSUME NEW chunk \in spoken'
          PROVE  /\ chunk.end <= at'
                 /\ \A t \in Nat : chunk.start <= t /\ t < chunk.end => Covered(t) \/ at <= t
      <4>1. CASE chunk \in spoken BY <1>0, <2>1, <4>1 DEF SpeechInv, Span
      <4>2. CASE chunk = Chunk(d) BY <1>0, <2>1, <4>2 DEF Chunk
      <4> QED BY <2>1, <4>1, <4>2
    <3>3. ASSUME NEW chunk \in spoken', NEW t \in Nat, chunk.start <= t, t < chunk.end
          PROVE  Covered(t)'
      <4>1. chunk.end \in Nat
        <5>1. Chunk(d) \in Span BY <1>0, <2>1 DEF Chunk, Span
        <5> QED BY <1>0, <2>1, <5>1 DEF Span
      <4>2. t < at' /\ (Covered(t) \/ at <= t) BY <3>1, <3>2, <3>3, <4>1
      <4> QED BY <2>3, <3>1, <4>2, CutKeepsCovered
    <3> QED BY <3>2, <3>3 DEF SpeechInv, Covered, In
  <2> QED BY <2>1, <2>2, <2>3
<1>2. CASE Flush
  <2>1. UNCHANGED <<at, spoken>>
        /\ (UNCHANGED <<region, held, silence, segments, dropped>> \/ Cuts(Frontier, at' - Frontier))
    BY <1>2, FlushCuts
  <2>2. ASSUME NEW t \in Nat, t < at, Covered(t)
        PROVE  Covered(t)'
    <3>1. CASE UNCHANGED <<region, segments, dropped>> BY <2>2, <3>1 DEF Covered, In
    <3>2. CASE Cuts(Frontier, at' - Frontier)
      <4>1. at' \in Nat /\ at <= at' /\ t < at' BY <1>0, <2>1, <2>2
      <4> QED BY <2>2, <3>2, <4>1, CutKeepsCovered
    <3> QED BY <2>1, <3>1, <3>2
  <2>3. \A chunk \in spoken : chunk.end \in Nat /\ chunk.end <= at BY <1>0 DEF SpeechInv, Span
  <2>4. ASSUME NEW chunk \in spoken, NEW t \in Nat, t < chunk.end PROVE t < at BY <1>0, <2>3, <2>4
  <2> QED BY <2>1, <2>2, <2>3, <2>4 DEF SpeechInv, Covered, In
<1>3. CASE Reset
  <2>1. spoken' = {} BY <1>3 DEF Reset
  <2> QED BY <2>1 DEF SpeechInv
<1>4. CASE UNCHANGED vars BY <1>4 DEF vars, SpeechInv, Covered, In
<1> QED BY <1>1, <1>2, <1>3, <1>4 DEF Next

(* sherpa.py:105-162.  Whatever the windows, the chunks and the readings of *)
(* the frontend's VAD, no sample it heard as speech is lost: it is in a    *)
(* segment, waits in the buffer, or was in a tail too short to embed.      *)
THEOREM NothingSpokenIsLost == Spec => []SpeechIsAccountedFor
<1>1. Init => SpeechInv BY DEF Init, SpeechInv
<1>2. IInv /\ SpeechInv => SpeechIsAccountedFor
  <2> SUFFICES ASSUME IInv, SpeechInv, NEW chunk \in spoken, NEW t \in chunk.start .. (chunk.end - 1)
               PROVE  Covered(t)
    BY DEF SpeechIsAccountedFor, Covered
  <2>1. chunk.start \in Nat /\ chunk.end \in Nat BY DEF IInv, TypeOK, Span
  <2>2. t \in Nat /\ chunk.start <= t /\ t < chunk.end BY <2>1
  <2> QED BY <2>2 DEF SpeechInv
<1> QED BY <1>1, <1>2, InitInv, NextInv, SpeechStep, PTL DEF Spec

-----------------------------------------------------------------------------
(* Pauses.  Between `low` and `high`, an end of speech and a later start   *)
(* at least MinSilence apart have other speech between them.               *)
Linked(chunks, low, high) ==
  \A c, l \in chunks :
    low < c.end /\ c.end < l.start /\ l.start <= high /\ l.start - c.end >= MinSilence =>
      \E b \in chunks : c.end <= b.start /\ b.start < l.start

(* The chunks of speech share no audio and none is ahead of the stream;    *)
(* and while a region is open, the silence is counted from the end of the  *)
(* last of them.                                                           *)
InOrder ==
  /\ \A c \in spoken : c.start <= c.end /\ c.end <= at
  /\ \A a, b \in spoken : a = b \/ a.end <= b.start \/ b.end <= a.start

SilenceSinceSpeech ==
  region # None => /\ \E c \in spoken : c.end = at - silence
                   /\ \A c \in spoken : c.end <= at - silence

(* A segment ends before the chunk that starts where it ends.              *)
PauseInv ==
  /\ InOrder
  /\ SilenceSinceSpeech
  /\ \A s \in segments : Linked(spoken, s.start, s.end - 1)
  /\ region # None => Linked(spoken, region, at)

(* A stretch within a linked one is linked.                                *)
LEMMA Sublink ==
  ASSUME NEW chunks, chunks \subseteq Span, NEW low \in Nat, NEW high \in Int, NEW from \in Nat, NEW to \in Int,
         Linked(chunks, from, to), from <= low, high <= to
  PROVE  Linked(chunks, low, high)
<1>1. \A c \in chunks : c.start \in Nat /\ c.end \in Nat BY DEF Span
<1> QED BY <1>1 DEF Linked

(* Speech right at the position of the stream, while a region is open:     *)
(* either the silence since the last speech is short, or that speech is a  *)
(* chunk without samples at the same position, and was there before.       *)
LEMMA SpeechLinks ==
  ASSUME IInv, PauseInv, region # None,
         NEW c \in spoken, region < c.end, c.end < at, at - c.end >= MinSilence
  PROVE  \E b \in spoken : c.end <= b.start /\ b.start < at
<1>1. /\ at \in Nat /\ silence \in Nat /\ MinSilence \in Nat /\ (silence = 0 \/ silence < MinSilence)
      /\ \A b \in spoken : b.start \in Nat /\ b.end \in Nat
  BY RegionAssumption DEF IInv, TypeOK, Positions, BufferIsTheTail, Span
<1>2. PICK last \in spoken : last.end = at - silence BY DEF PauseInv, SilenceSinceSpeech
<1>3. c.end <= at - silence BY DEF PauseInv, SilenceSinceSpeech
<1>4. c.end # at - silence BY <1>1
<1>5. c.end <= last.start
  <2>1. c # last /\ c.end < last.end BY <1>1, <1>2, <1>3, <1>4
  <2>2. c.start <= c.end /\ (c.end <= last.start \/ last.end <= c.start) BY <2>1 DEF PauseInv, InOrder
  <2> QED BY <1>1, <2>1, <2>2
<1>6. last.start <= last.end BY DEF PauseInv, InOrder
<1>7. CASE last.start < at BY <1>5, <1>7
<1>8. CASE ~ (last.start < at)
  <2>1. last.start = at BY <1>1, <1>2, <1>6, <1>8
  <2>2. Linked(spoken, region, at) BY DEF PauseInv
  <2> QED BY <1>1, <2>1, <2>2 DEF Linked
<1> QED BY <1>7, <1>8

(* If what is linked reaches from the frontier to the stream's position,   *)
(* so does every segment a cut makes, and what it leaves in the buffer;    *)
(* new speech starts behind every segment there was.                       *)
LEMMA CutLinks ==
  ASSUME IInv, PauseInv, at' \in Nat, at <= at', Cuts(Frontier, at' - Frontier),
         spoken \subseteq spoken', spoken' \subseteq Span,
         \A c \in spoken' \ spoken : c.start = at /\ c.start <= c.end,
         Linked(spoken', Frontier, at')
  PROVE  /\ \A s \in segments' : Linked(spoken', s.start, s.end - 1)
         /\ region' # None => Linked(spoken', region', at')
<1>1. at \in Nat /\ held \in Nat /\ (region = None \/ region \in Nat) /\ segments \subseteq Span
  BY DEF IInv, TypeOK
<1>2. Frontier \in Nat /\ Frontier <= at BY <1>1 DEF IInv, Positions, BufferIsTheTail, Frontier
<1> DEFINE now == at'
           from == Frontier
<1>3. now \in Nat /\ at <= now /\ from \in Nat /\ from <= at BY <1>1, <1>2
<1>4. \A c \in spoken' : c.start \in Nat /\ c.end \in Nat BY DEF Span
<1>5. Cuts(from, now - from) /\ Linked(spoken', from, now) OBVIOUS
<1> HIDE DEF now, from
<1>6. now - from \in Nat /\ from + (now - from) = now BY <1>1, <1>3
<1>7. /\ \A s \in segments' \ segments : s \in Span /\ from <= s.start /\ s.end <= now
      /\ region' # None => from <= region' /\ region' <= now /\ Drain(from, now - from, silence')
  BY <1>3, <1>5, <1>6, CutKeeps
<1>8. ASSUME NEW s \in segments' \ segments
      PROVE  Linked(spoken', s.start, s.end - 1)
  <2>1. s.start \in Nat /\ s.end \in Nat /\ from <= s.start /\ s.end <= now BY <1>7 DEF Span
  <2>2. s.end - 1 \in Int /\ s.end - 1 <= now /\ now \in Int BY <1>3, <2>1
  <2> QED BY <1>3, <1>5, <2>1, <2>2, Sublink
<1>9. ASSUME NEW s \in segments
      PROVE  Linked(spoken', s.start, s.end - 1)
  <2>1. s.start \in Nat /\ s.end \in Nat /\ s.end <= from BY <1>1 DEF IInv, Between, Span, from
  <2>2. Linked(spoken, s.start, s.end - 1) BY DEF PauseInv
  <2> SUFFICES ASSUME NEW c \in spoken', NEW l \in spoken',
                      s.start < c.end, c.end < l.start, l.start <= s.end - 1, l.start - c.end >= MinSilence
               PROVE  \E b \in spoken' : c.end <= b.start /\ b.start < l.start
    BY DEF Linked
  <2>3. l.start < at BY <1>1, <1>3, <1>4, <2>1
  <2>4. c \in spoken /\ l \in spoken BY <1>1, <1>4, <2>3
  <2>5. \E b \in spoken : c.end <= b.start /\ b.start < l.start BY <2>2, <2>4 DEF Linked
  <2> QED BY <2>5
<1>10. ASSUME region' # None
       PROVE  Linked(spoken', region', now)
  <2>1. region' \in Nat
    <3>1. Rest(from, now - from) \in Span BY <1>3, <1>6, RestIsTheTail
    <3> QED BY <1>7, <1>10, <3>1 DEF Drain, Span
  <2>2. from <= region' /\ now \in Int /\ now <= now BY <1>3, <1>7, <1>10
  <2> QED BY <1>3, <1>5, <2>1, <2>2, Sublink
<1> QED BY <1>8, <1>9, <1>10 DEF now

(* Whatever a push hears links the frontier to the new position.           *)
LEMMA PushLinks ==
  ASSUME IInv, PauseInv, NEW d \in Nat, NEW voiced \in BOOLEAN,
         spoken' = IF voiced THEN spoken \cup {Chunk(d)} ELSE spoken, at' = at + d
  PROVE  Linked(spoken', Frontier, at')
<1>1. /\ at \in Nat /\ MinSilence \in Nat
      /\ \A b \in spoken : b.start \in Nat /\ b.end \in Nat /\ b.start <= b.end /\ b.end <= at
  BY RegionAssumption DEF IInv, TypeOK, Span, PauseInv, InOrder
<1>2. Chunk(d).start = at /\ Chunk(d).end = at + d BY DEF Chunk
<1> SUFFICES ASSUME NEW c \in spoken', NEW l \in spoken',
                    Frontier < c.end, c.end < l.start, l.start <= at', l.start - c.end >= MinSilence
             PROVE  \E b \in spoken' : c.end <= b.start /\ b.start < l.start
  BY DEF Linked
<1>3. l.start \in Nat /\ l.start <= at BY <1>1, <1>2
<1>4. c \in spoken /\ c.end \in Nat /\ c.end < at BY <1>1, <1>2, <1>3
<1>5. region # None /\ region < c.end BY <1>1, <1>4 DEF Frontier
<1>6. CASE l \in spoken
  <2>1. \E b \in spoken : c.end <= b.start /\ b.start < l.start
    BY <1>3, <1>4, <1>5, <1>6 DEF PauseInv, Linked
  <2> QED BY <2>1
<1>7. CASE l = Chunk(d)
  <2>1. \E b \in spoken : c.end <= b.start /\ b.start < at BY <1>2, <1>4, <1>5, <1>7, SpeechLinks
  <2> QED BY <1>2, <1>7, <2>1
<1> QED BY <1>6, <1>7

LEMMA PausePush ==
  ASSUME IInv, PauseInv, IInv', NEW d \in Steps, NEW voiced \in BOOLEAN, Push(d, voiced)
  PROVE  PauseInv'
<1>1. /\ d \in Nat /\ at' = at + d /\ spoken' = IF voiced THEN spoken \cup {Chunk(d)} ELSE spoken
      /\ \/ ~ voiced /\ region = None /\ UNCHANGED <<region, held, silence, segments, dropped>>
         \/ /\ Cuts(Frontier, at' - Frontier)
            /\ region = None => voiced
            /\ region' # None => silence' = IF voiced THEN 0 ELSE silence + d
  BY PushCuts
<1>2. /\ at \in Nat /\ silence \in Nat /\ spoken \subseteq Span /\ spoken' \subseteq Span
      /\ \A b \in spoken : b.start \in Nat /\ b.end \in Nat /\ b.start <= b.end /\ b.end <= at
  BY DEF IInv, TypeOK, Span, PauseInv, InOrder
<1>3. Chunk(d).start = at /\ Chunk(d).end = at + d BY DEF Chunk
<1>4. InOrder'
  <2>1. \A c \in spoken' : c.start <= c.end /\ c.end <= at' BY <1>1, <1>2, <1>3
  <2>2. \A a, b \in spoken' : a = b \/ a.end <= b.start \/ b.end <= a.start
    BY <1>1, <1>2, <1>3 DEF PauseInv, InOrder
  <2> QED BY <2>1, <2>2 DEF InOrder
<1>5. CASE ~ voiced /\ region = None /\ UNCHANGED <<region, held, silence, segments, dropped>>
  <2>1. spoken' = spoken BY <1>1, <1>5
  <2> QED BY <1>4, <1>5, <2>1 DEF PauseInv, SilenceSinceSpeech, Linked
<1>6. CASE /\ Cuts(Frontier, at' - Frontier)
           /\ region = None => voiced
           /\ region' # None => silence' = IF voiced THEN 0 ELSE silence + d
  <2>1. SilenceSinceSpeech'
    <3> SUFFICES ASSUME region' # None
                 PROVE  /\ \E c \in spoken' : c.end = at' - silence'
                        /\ \A c \in spoken' : c.end <= at' - silence'
      BY DEF SilenceSinceSpeech
    <3>1. CASE voiced
      <4>1. Chunk(d) \in spoken' /\ at' - silence' = at + d BY <1>1, <1>2, <1>6, <3>1
      <4> QED BY <1>1, <1>2, <1>3, <3>1, <4>1
    <3>2. CASE ~ voiced
      <4>1. spoken' = spoken /\ at' - silence' = at - silence /\ region # None BY <1>1, <1>2, <1>6, <3>2
      <4> QED BY <4>1 DEF PauseInv, SilenceSinceSpeech
    <3> QED BY <3>1, <3>2
  <2>2. Linked(spoken', Frontier, at') BY <1>1, PushLinks
  <2>3. at' \in Nat /\ at <= at' BY <1>1, <1>2
  <2>4. spoken \subseteq spoken' /\ \A c \in spoken' \ spoken : c.start = at /\ c.start <= c.end
    BY <1>1, <1>2, <1>3
  <2>5. /\ \A s \in segments' : Linked(spoken', s.start, s.end - 1)
        /\ region' # None => Linked(spoken', region', at')
    BY <1>2, <1>6, <2>2, <2>3, <2>4, CutLinks
  <2> QED BY <1>4, <2>1, <2>5 DEF PauseInv, Linked
<1> QED BY <1>1, <1>5, <1>6

LEMMA PauseStep == IInv /\ PauseInv /\ [Next]_vars => PauseInv'
<1> SUFFICES ASSUME IInv, PauseInv, [Next]_vars PROVE PauseInv' OBVIOUS
<1>0. IInv' BY NextInv
<1>1. CASE \E d \in Steps, voiced \in BOOLEAN : Push(d, voiced) BY <1>0, <1>1, PausePush
<1>2. CASE Flush
  <2>1. /\ UNCHANGED <<at, spoken>> /\ region' = None
        /\ \/ UNCHANGED <<region, held, silence, segments, dropped>>
           \/ Cuts(Frontier, at' - Frontier)
    BY <1>2, FlushCuts
  <2>2. InOrder' /\ SilenceSinceSpeech' BY <2>1 DEF PauseInv, InOrder, SilenceSinceSpeech
  <2>3. CASE UNCHANGED segments
    BY <2>1, <2>2, <2>3 DEF PauseInv, Linked
  <2>4. CASE Cuts(Frontier, at' - Frontier)
    <3>1. at \in Nat /\ spoken' \subseteq Span BY <1>0 DEF IInv, TypeOK
    <3>2. at' \in Nat /\ at <= at' /\ spoken \subseteq spoken' BY <2>1, <3>1
    <3>3. at = at + 0 /\ 0 \in Nat /\ FALSE \in BOOLEAN BY <3>1
    <3>4. Linked(spoken', Frontier, at')
      <4>1. spoken' = (IF FALSE THEN spoken \cup {Chunk(0)} ELSE spoken) /\ at' = at + 0 BY <2>1, <3>3
      <4> QED BY <3>3, <4>1, PushLinks
    <3>5. \A s \in segments' : Linked(spoken', s.start, s.end - 1)
      BY <2>1, <2>4, <3>1, <3>2, <3>4, CutLinks
    <3> QED BY <2>1, <2>2, <3>5 DEF PauseInv, Linked
  <2> QED BY <2>1, <2>3, <2>4
<1>3. CASE Reset
  <2>1. spoken' = {} /\ segments' = {} /\ region' = None BY <1>3 DEF Reset
  <2> QED BY <2>1 DEF PauseInv, InOrder, SilenceSinceSpeech, Linked
<1>4. CASE UNCHANGED vars BY <1>4 DEF vars, PauseInv, InOrder, SilenceSinceSpeech, Linked
<1> QED BY <1>1, <1>2, <1>3, <1>4 DEF Next

(* sherpa.py:105-126, 151-162.  A region survives only pauses shorter than *)
(* min_silence: no segment, whatever windows it was cut into, has a longer *)
(* one between two neighbouring chunks of speech.                          *)
THEOREM PausesSeparate == Spec => []NoSegmentSpansAPause
<1>1. Init => PauseInv BY DEF Init, PauseInv, InOrder, SilenceSinceSpeech, Linked
<1>2. IInv /\ PauseInv => NoSegmentSpansAPause
  <2> SUFFICES ASSUME IInv, PauseInv, NEW s \in segments, NEW c \in spoken, NEW l \in spoken,
                      s.start < c.end, c.end < l.start, l.start < s.end,
                      ~ \E b \in spoken : c.end <= b.start /\ b.start < l.start
               PROVE  l.start - c.end < MinSilence
    BY DEF NoSegmentSpansAPause
  <2>1. /\ s.end \in Nat /\ l.start \in Nat /\ c.end \in Nat /\ MinSilence \in Nat
    BY RegionAssumption DEF IInv, TypeOK, Span
  <2>2. Linked(spoken, s.start, s.end - 1) BY DEF PauseInv
  <2>3. l.start <= s.end - 1 BY <2>1
  <2>4. ~ (l.start - c.end >= MinSilence) BY <2>2, <2>3 DEF Linked
  <2> QED BY <2>1, <2>4
<1> QED BY <1>1, <1>2, InitInv, NextInv, PauseStep, PTL DEF Spec

-----------------------------------------------------------------------------
(* SileroVad.  push counts the whole windows of what it holds; c \div w is *)
(* the only number of windows of w that fit in c and leave less than one.  *)
LEMMA Quotient ==
  ASSUME NEW c \in Nat, NEW w \in Nat \ {0}
  PROVE  /\ c \div w \in Nat
         /\ w * (c \div w) <= c
         /\ c < w * (c \div w) + w
  OBVIOUS

(* The windows up to the m-th end before the n-th ends, by one at least.   *)
LEMMA Product ==
  ASSUME NEW w \in Nat, NEW m \in Int, NEW n \in Int, m < n
  PROVE  w * m + w <= w * n
<1>1. w * n - (w * m + w) = w * (n - m - 1)
  OBVIOUS
<1>2. w * (n - m - 1) >= 0
  OBVIOUS
<1> QED
  BY <1>1, <1>2

(* Whatever leaves less than a window is the quotient.                     *)
LEMMA OneQuotient ==
  ASSUME NEW c \in Nat, NEW w \in Nat \ {0}, NEW q \in Nat, w * q <= c, c < w * q + w
  PROVE  c \div w = q
<1> DEFINE r == c \div w
<1>1. r \in Nat /\ w * r <= c /\ c < w * r + w
  BY Quotient
<1> HIDE DEF r
<1>2. CASE r < q
  <2>1. w * r + w <= w * q
    BY <1>1, <1>2, Product
  <2>2. w * r \in Nat /\ w * q \in Nat
    BY <1>1
  <2> QED
    BY <1>1, <2>1, <2>2
<1>3. CASE q < r
  <2>1. w * q + w <= w * r
    BY <1>1, <1>3, Product
  <2>2. w * r \in Nat /\ w * q \in Nat
    BY <1>1
  <2> QED
    BY <1>1, <2>1, <2>2
<1> QED
  BY <1>1, <1>2, <1>3 DEF r

(* What is left of c ticks once the whole windows of w are gone, and that *)
(* it makes no difference to cut them off after each chunk.                *)
Left(c, w, left) == left = c - w * (c \div w)

LEMMA Recut ==
  ASSUME NEW c \in Nat, NEW d \in Nat, NEW w \in Nat \ {0}, NEW left, Left(c, w, left)
  PROVE  /\ left \in Nat /\ left < w
         /\ (c + d) \div w = (c \div w) + ((left + d) \div w)
         /\ Left(c + d, w, (left + d) - w * ((left + d) \div w))
<1> DEFINE q == c \div w
           r == (left + d) \div w
<1>0. left = c - w * q
  BY DEF Left
<1>1. q \in Nat /\ w * q \in Nat /\ w * q <= c /\ c < w * q + w
  BY Quotient
<1>2. left \in Nat /\ left < w /\ left + d \in Nat
  <2> HIDE DEF q
  <2> QED
    BY <1>0, <1>1
<1>3. r \in Nat /\ w * r \in Nat /\ w * r <= left + d /\ left + d < w * r + w
  BY <1>2, Quotient
<1> HIDE DEF q, r
<1>4. w * (q + r) = w * q + w * r
  BY <1>1, <1>3
<1>5. q + r \in Nat /\ w * (q + r) <= c + d /\ c + d < w * (q + r) + w /\ c + d \in Nat
  BY <1>0, <1>1, <1>3, <1>4
<1>6. (c + d) \div w = q + r
  BY <1>5, OneQuotient
<1>7. (left + d) - w * r = (c + d) - w * (q + r)
  BY <1>0, <1>1, <1>3, <1>4
<1> QED
  BY <1>2, <1>6, <1>7 DEF Left, q, r
-----------------------------------------------------------------------------
(* The order FoldLeft takes a sequence in: the last of the first n is the  *)
(* n-th, and without it they are n - 1.                                    *)
Top(S) == Max(S)

LEMMA TopOfMany ==
  ASSUME NEW s, NEW n \in Nat, s = 1 .. n, s # {}
  PROVE  /\ n \in 1 .. n /\ n - 1 \in Nat
         /\ Top(s) = n
         /\ s \ {Top(s)} = 1 .. (n - 1)
<1>1. n \in s /\ \A y \in s : n >= y
  OBVIOUS
<1>2. \A x \in s : (\A y \in s : x >= y) => x = n
  BY <1>1
<1>3. Top(s) \in s /\ \A y \in s : Top(s) >= y
  BY <1>1 DEF Top, Max
<1>4. Top(s) = n
  BY <1>2, <1>3
<1> QED
  BY <1>4

-----------------------------------------------------------------------------
(* SileroVad.  After h windows with the verdicts v, the run the last of    *)
(* them is in began with the n-th ...                                      *)
Begins(v, n, h) ==
  /\ n \in 1 .. h
  /\ \A k \in n .. h : v[k] = v[h]
  /\ n > 1 => v[n - 1] # v[n]

(* ... and this is what the VAD keeps of it.                               *)
Judged(v, h, state) ==
  /\ state.started <=> h > 0
  /\ state.speaking = (h > 0 /\ v[h])
  /\ state.slice \in Nat
  /\ h > 0 => \E n \in 1 .. h :
       /\ Begins(v, n, h)
       /\ state.since \in (VadWindow * n) .. (VadWindow * n + state.slice - 1)

VadInv ==
  /\ verdicts \in Vad!Verdicts
  /\ at \in 0 .. VadMaxAt
  /\ Left(at, VadWindow, held)
  /\ given = SubSeq(verdicts, 1, at \div VadWindow)
  /\ Judged(verdicts, at \div VadWindow,
            [speaking |-> speaking, since |-> since, started |-> started, slice |-> slice])

(* One push, p: the windows p.windows completed by a chunk of p.chunk      *)
(* ticks that ends at p.now, after p.from windows before it.               *)
Hear(p, x, state) == Vad!Heard(state, p.windows[x])

HeardTo(p, k, state) ==
  /\ state = [speaking |-> state.speaking, since |-> state.since, started |-> state.started,
              slice |-> state.slice, now |-> p.now, chunk |-> p.chunk]
  /\ Judged(p.verdicts, p.from + k, state)

HeardAll(p, s, state) == \A k \in Nat : s = 1 .. k => HeardTo(p, k, state)

Hearing == INSTANCE Folding WITH Op <- Hear, Pick <- Top, Keeps <- HeardAll

(* The k-th window of a push is the stream's next one, and its end is in   *)
(* the chunk.                                                              *)
Completes(p) ==
  /\ p.from \in Nat /\ p.now \in Nat /\ p.chunk \in Nat
  /\ \A k \in DOMAIN p.windows :
       /\ p.windows[k] = p.verdicts[p.from + k] /\ p.windows[k] \in BOOLEAN
       /\ \A n \in 1 .. (p.from + k) : p.verdicts[n] \in BOOLEAN
       /\ VadWindow * (p.from + k) <= p.now
       /\ p.now < VadWindow * (p.from + k) + p.chunk

(* _feed_window: one verdict more, and what is kept is what DecisionsAre-  *)
(* TheAudios says of one window more.                                      *)
LEMMA HearOne ==
  ASSUME VadWindow \in Nat, NEW p, Completes(p), NEW k \in Nat \ {0}, k \in DOMAIN p.windows,
         NEW state, HeardTo(p, k - 1, state)
  PROVE  HeardTo(p, k, Hear(p, k, state))
<1> DEFINE v == p.verdicts
           h == p.from + k
           after == Hear(p, k, state)
<1>1. /\ h \in Nat /\ h > 0 /\ p.from + (k - 1) = h - 1 /\ h - 1 \in Nat
      /\ p.windows[k] = v[h] /\ v[h] \in BOOLEAN
      /\ VadWindow * h <= p.now /\ p.now < VadWindow * h + p.chunk
      /\ p.now \in Nat /\ p.chunk \in Nat /\ VadWindow * h \in Nat
      /\ h > 1 => v[h - 1] \in BOOLEAN
  BY DEF Completes
<1>2. /\ state = [speaking |-> state.speaking, since |-> state.since, started |-> state.started,
                  slice |-> state.slice, now |-> p.now, chunk |-> p.chunk]
      /\ Judged(v, h - 1, state)
  BY <1>1 DEF HeardTo
<1> SUFFICES /\ after = [speaking |-> after.speaking, since |-> after.since,
                         started |-> after.started, slice |-> after.slice,
                         now |-> p.now, chunk |-> p.chunk]
             /\ Judged(v, h, after)
  BY DEF HeardTo
<1>3. CASE v[h] = state.speaking /\ state.started
  <2>1. after = state
    BY <1>1, <1>3 DEF Hear, Vad!Heard
  <2>2. h - 1 > 0 /\ v[h - 1] = v[h]
    <3>1. h - 1 > 0
      BY <1>1, <1>2, <1>3 DEF Judged
    <3> QED
      <4>1. state.speaking = v[h - 1]
        <5>1. state.speaking = (h - 1 > 0 /\ v[h - 1])
          BY <1>2 DEF Judged
        <5>2. v[h - 1] \in BOOLEAN
          BY <1>1, <3>1
        <5> QED
          BY ONLY <3>1, <5>1, <5>2
      <4> QED
        BY <1>3, <3>1, <4>1
  <2>3. PICK n \in 1 .. (h - 1) :
          /\ Begins(v, n, h - 1)
          /\ state.since \in (VadWindow * n) .. (VadWindow * n + state.slice - 1)
    BY <1>2, <2>2 DEF Judged
  <2>4. n \in 1 .. h /\ Begins(v, n, h)
    BY <1>1, <2>2, <2>3 DEF Begins
  <2> HIDE DEF h, v, after
  <2>5. Judged(v, h, state)
    <3>1. state.started <=> h > 0
      BY <1>1, <1>3, <1>2, <2>2 DEF Judged
    <3>2. state.speaking = (h > 0 /\ v[h])
      BY <1>1, <1>3
    <3>3. state.slice \in Nat
      BY <1>2 DEF Judged
    <3> QED
      BY <2>3, <2>4, <3>1, <3>2, <3>3 DEF Judged
  <2> QED
    BY <1>2, <2>1, <2>5
<1>4. CASE v[h] # state.speaking \/ ~ state.started
  <2>1. after = [state EXCEPT !.speaking = v[h], !.since = state.now, !.started = TRUE,
                              !.slice = state.chunk]
    BY <1>1, <1>4 DEF Hear, Vad!Heard
  <2>2. after = [speaking |-> v[h], since |-> p.now, started |-> TRUE, slice |-> p.chunk,
                 now |-> p.now, chunk |-> p.chunk]
    <3>1. PICK a, b, c, e : state = [speaking |-> a, since |-> b, started |-> c,
                                     slice |-> e, now |-> p.now, chunk |-> p.chunk]
      BY <1>2
    <3> QED
      BY ONLY <2>1, <3>1
  <2>3. Begins(v, h, h)
    <3>1. ASSUME h > 1 PROVE v[h - 1] # v[h]
      <4>1. h - 1 > 0 /\ v[h - 1] \in BOOLEAN
        BY <1>1, <3>1
      <4>2. (state.started <=> h - 1 > 0) /\ state.speaking = (h - 1 > 0 /\ v[h - 1])
        BY <1>2 DEF Judged
      <4>3. state.started /\ state.speaking = v[h - 1]
        BY ONLY <4>1, <4>2, Zenon
      <4> QED
        BY <1>4, <4>3
    <3> QED
      BY <1>1, <3>1 DEF Begins
  <2>4. after.since \in (VadWindow * h) .. (VadWindow * h + after.slice - 1)
    BY <1>1, <2>2
  <2>5. /\ after.speaking = v[h] /\ after.started = TRUE /\ after.slice = p.chunk
        /\ after = [speaking |-> after.speaking, since |-> after.since,
                    started |-> after.started, slice |-> after.slice,
                    now |-> p.now, chunk |-> p.chunk]
    BY <2>2
  <2> HIDE DEF h, v, after
  <2>6. Judged(v, h, after)
    <3>1. h \in 1 .. h
      BY <1>1
    <3> QED
      BY <1>1, <2>3, <2>4, <2>5, <3>1 DEF Judged
  <2> QED
    BY <2>5, <2>6
<1> QED
  BY <1>1, <1>3, <1>4

(* Folding speaks of finite sets in its own name.                          *)
LEMMA FiniteInHearing ==
  ASSUME NEW S, IsFiniteSet(S)
  PROVE  Hearing!IsFiniteSet(S)
  BY DEF IsFiniteSet, Hearing!IsFiniteSet

(* There is always a last one.                                             *)
LEMMA TopIsIn ==
  ASSUME NEW L \in Nat, NEW s \in SUBSET (1 .. L), s # {}
  PROVE  Top(s) \in s /\ \A y \in s : Top(s) >= y
<1>1. IsFiniteSet(1 .. L)
  BY FS_Interval
<1>2. IsFiniteSet(s)
  BY <1>1, FS_Subset
<1> DEFINE R == {z \in s \X s : z[1] < z[2]}
<1>3. \A x, y \in s : <<x, y>> \in R <=> x < y
  OBVIOUS
<1>4. /\ \A x, y \in s : x = y \/ <<x, y>> \in R \/ <<y, x>> \in R
      /\ \A x, y, z \in s : <<x, y>> \in R /\ <<y, z>> \in R => <<x, z>> \in R
  <2> HIDE DEF R
  <2> QED
    BY <1>3
<1> HIDE DEF R
<1>5. Hearing!IsFiniteSet(s) /\ s # {}
  BY <1>2, FiniteInHearing
<1>6. PICK x \in s : \A y \in s : y = x \/ <<y, x>> \in R
  BY ONLY <1>4, <1>5, Hearing!LastMember, ZenonT(60)
<1>7. \A y \in s : x >= y
  <2>1. \A y \in s : y \in Nat
    OBVIOUS
  <2> SUFFICES ASSUME NEW y \in s PROVE x >= y
    OBVIOUS
  <2>2. y = x \/ y < x
    BY <1>3, <1>6
  <2> QED
    BY <2>1, <2>2
<1> QED
  BY <1>7 DEF Top, Max

(* FoldLeft's choice of an element is one Folding can reason about.        *)
LEMMA TopPicks == ASSUME NEW L \in Nat PROVE Hearing!Picks(1 .. L)
<1>1. \A s \in SUBSET (1 .. L) : s # {} => Top(s) \in s
  BY TopIsIn
<1>2. IsFiniteSet(1 .. L)
  BY FS_Interval
<1>3. Hearing!IsFiniteSet(1 .. L)
  BY <1>2, FiniteInHearing
<1> QED
  BY <1>1, <1>3 DEF Hearing!Picks

(* push: all the windows a chunk completes, one after another.             *)
LEMMA HearAll ==
  ASSUME VadWindow \in Nat, NEW p, Completes(p), NEW L \in Nat, DOMAIN p.windows = 1 .. L,
         NEW base, HeardTo(p, 0, base),
         NEW state, state = Vad!FoldLeft(Vad!Heard, base, p.windows)
  PROVE  HeardTo(p, L, state)
<1>1. state = Hearing!Fold(p, base, 1 .. L)
  BY DEF Vad!FoldLeft, Vad!MapThenFoldSet, Vad!Max, Max, Hearing!Fold, Hearing!Folds, Hear, Top
<1>2. HeardAll(p, {}, base)
  <2>1. \A k \in Nat : {} = 1 .. k => k = 0
    OBVIOUS
  <2> QED
    BY <2>1 DEF HeardAll
<1>3. ASSUME NEW acc, NEW s \in SUBSET (1 .. L), s # {}, HeardAll(p, s \ {Top(s)}, acc)
      PROVE  HeardAll(p, s, Hear(p, Top(s), acc))
  <2> SUFFICES ASSUME NEW k \in Nat, s = 1 .. k PROVE HeardTo(p, k, Hear(p, Top(s), acc))
    BY DEF HeardAll
  <2>1. k \in 1 .. k /\ k - 1 \in Nat /\ Top(s) = k /\ s \ {Top(s)} = 1 .. (k - 1)
    BY <1>3, TopOfMany
  <2>2. HeardTo(p, k - 1, acc)
    BY <1>3, <2>1 DEF HeardAll
  <2>3. k \in DOMAIN p.windows
    BY <1>3, <2>1
  <2> QED
    BY <2>1, <2>2, <2>3, HearOne
<1>4. Hearing!Picks(1 .. L)
  BY TopPicks
<1>5. HeardAll(p, 1 .. L, Hearing!Fold(p, base, 1 .. L))
  <2>1. /\ Hearing!Picks(1 .. L) /\ HeardAll(p, {}, base)
        /\ \A acc : \A s \in SUBSET (1 .. L) :
             s # {} /\ HeardAll(p, s \ {Top(s)}, acc) => HeardAll(p, s, Hear(p, Top(s), acc))
    BY <1>2, <1>3, <1>4
  <2> QED
    BY ONLY <2>1, Hearing!FoldKeeps
<1> QED
  BY <1>1, <1>5 DEF HeardAll

(* A reading of a stream of `total` whole windows: SubSeq of the verdicts. *)
LEMMA FirstWindows ==
  ASSUME NEW M \in Nat, NEW v \in [1 .. M -> BOOLEAN], NEW h \in 0 .. M, NEW m \in 0 .. (M - h)
  PROVE  /\ v \in Seq(BOOLEAN) /\ Len(v) = M
         /\ SubSeq(v, 1, h) \in Seq(BOOLEAN) /\ Len(SubSeq(v, 1, h)) = h
         /\ DOMAIN SubSeq(v, h + 1, h + m) = 1 .. m
         /\ \A k \in 1 .. m : SubSeq(v, h + 1, h + m)[k] = v[h + k]
         /\ SubSeq(v, 1, h) \o SubSeq(v, h + 1, h + m) = SubSeq(v, 1, h + m)
<1>1. v \in Seq(BOOLEAN) /\ Len(v) = M
  BY SeqDef
<1>2. /\ SubSeq(v, 1, h) \in Seq(BOOLEAN) /\ Len(SubSeq(v, 1, h)) = h
      /\ \A k \in 1 .. h : SubSeq(v, 1, h)[k] = v[k]
  BY <1>1, SubSeqProperties
<1>3. /\ SubSeq(v, h + 1, h + m) \in Seq(BOOLEAN) /\ Len(SubSeq(v, h + 1, h + m)) = m
      /\ \A k \in 1 .. m : SubSeq(v, h + 1, h + m)[k] = v[h + k]
  BY <1>1, SubSeqProperties
<1>4. /\ SubSeq(v, 1, h + m) \in Seq(BOOLEAN) /\ Len(SubSeq(v, 1, h + m)) = h + m
      /\ \A k \in 1 .. (h + m) : SubSeq(v, 1, h + m)[k] = v[k]
  BY <1>1, SubSeqProperties
<1> DEFINE a == SubSeq(v, 1, h)
           b == SubSeq(v, h + 1, h + m)
           c == SubSeq(v, 1, h + m)
<1>5. a \o b = c
  <2> HIDE DEF a, b, c
  <2>1. a \in Seq(BOOLEAN) /\ b \in Seq(BOOLEAN) /\ c \in Seq(BOOLEAN)
        /\ Len(a) = h /\ Len(b) = m /\ Len(c) = h + m
    BY <1>2, <1>3, <1>4 DEF a, b, c
  <2>2. a \o b \in Seq(BOOLEAN) /\ Len(a \o b) = h + m
    BY <2>1, SMTT(30)
  <2>3. \A k \in 1 .. (h + m) : (a \o b)[k] = c[k]
    <3> SUFFICES ASSUME NEW k \in 1 .. (h + m) PROVE (a \o b)[k] = c[k]
      OBVIOUS
    <3>1. (a \o b)[k] = IF k <= h THEN a[k] ELSE b[k - h]
      BY ONLY <2>1, k \in 1 .. (h + m), ConcatProperties
    <3>2. c[k] = v[k]
      BY <1>4 DEF c
    <3>3. k <= h => a[k] = v[k]
      BY <1>2 DEF a
    <3>4. ~ (k <= h) => b[k - h] = v[k]
      BY <1>3 DEF b
    <3> QED
      BY <3>1, <3>2, <3>3, <3>4
  <2> QED
    BY <2>1, <2>2, <2>3, SeqEqual
<1> QED
  BY <1>1, <1>2, <1>3, <1>5

(* Before any audio nothing has been judged.                               *)
LEMMA VadFresh ==
  ASSUME VadWindow \in Nat \ {0}, NEW v, NEW from
  PROVE  /\ Left(0, VadWindow, 0)
         /\ SubSeq(v, 1, 0 \div VadWindow) = << >>
         /\ Judged(v, 0 \div VadWindow,
                   [speaking |-> FALSE, since |-> from, started |-> FALSE, slice |-> 0])
<1>1. 0 \div VadWindow = 0
  BY OneQuotient
<1>2. SubSeq(v, 1, 0) = << >>
  OBVIOUS
<1>3. Left(0, VadWindow, 0)
  BY <1>1 DEF Left
<1>4. Judged(v, 0, [speaking |-> FALSE, since |-> from, started |-> FALSE, slice |-> 0])
  <2>1. ~ (0 > 0)
    OBVIOUS
  <2>2. (0 > 0) = FALSE /\ (0 > 0 /\ v[0]) = FALSE
    BY ONLY <2>1
  <2> DEFINE state == [speaking |-> FALSE, since |-> from, started |-> FALSE, slice |-> 0]
  <2>3. state.speaking = FALSE /\ state.started = FALSE /\ state.slice = 0
    OBVIOUS
  <2> HIDE DEF state
  <2>4. state.started <=> 0 > 0
    BY ONLY <2>1, <2>3
  <2>5. state.speaking = (0 > 0 /\ v[0])
    BY ONLY <2>1, <2>3
  <2>6. Judged(v, 0, state)
    BY ONLY <2>1, <2>3, <2>4, <2>5 DEF Judged
  <2> QED
    BY <2>6 DEF state
<1> QED
  BY <1>1, <1>2, <1>3, <1>4

(* A VAD that has just been made.                                          *)
LEMMA VadStart == Vad!VadAssumption /\ Vad!Init => VadInv
<1> SUFFICES ASSUME Vad!VadAssumption, Vad!Init PROVE VadInv
  OBVIOUS
<1>1. /\ VadWindow \in Nat \ {0} /\ VadMaxAt \in Nat
      /\ at = 0 /\ held = 0 /\ given = << >> /\ started = FALSE /\ speaking = FALSE /\ slice = 0
      /\ verdicts \in Vad!Verdicts
  BY DEF Vad!VadAssumption, Vad!Init
<1>2. at \in 0 .. VadMaxAt
  BY <1>1
<1> QED
  BY ONLY <1>1, <1>2, VadFresh DEF VadInv

(* push, whatever the chunk: the windows it completes are the stream's     *)
(* next ones, and what it leaves is the stream's remainder.                *)
LEMMA VadPush ==
  ASSUME Vad!VadAssumption, VadInv, NEW d \in VadSteps, Vad!Push(d)
  PROVE  VadInv'
<1> DEFINE h == at \div VadWindow
           m == (held + d) \div VadWindow
           M == VadMaxAt \div VadWindow
           windows == SubSeq(verdicts, Len(given) + 1, Len(given) + Vad!Complete(held + d))
           base == [speaking |-> speaking, since |-> since, started |-> started,
                    slice |-> slice, now |-> at + d, chunk |-> d]
           state == Vad!FoldLeft(Vad!Heard, base, windows)
           p == [windows |-> windows, verdicts |-> verdicts, from |-> h,
                 now |-> at + d, chunk |-> d]
<1>1. /\ VadWindow \in Nat \ {0} /\ d \in Nat /\ VadMaxAt \in Nat /\ at \in Nat
      /\ at + d <= VadMaxAt /\ at' = at + d /\ verdicts' = verdicts
      /\ Left(at, VadWindow, held)
      /\ verdicts \in [1 .. M -> BOOLEAN]
      /\ given = SubSeq(verdicts, 1, h)
  BY DEF Vad!VadAssumption, VadInv, Vad!Push, Vad!Verdicts
<1>2. /\ held \in Nat /\ held < VadWindow
      /\ (at + d) \div VadWindow = h + m
      /\ Left(at + d, VadWindow, (held + d) - VadWindow * m)
  BY ONLY <1>1, Recut
<1>3. h \in Nat /\ m \in Nat /\ M \in Nat /\ h + m <= M
  <2>1. h \in Nat /\ m \in Nat /\ M \in Nat
    <3>1. held + d \in Nat
      BY <1>1, <1>2
    <3> QED
      BY ONLY <1>1, <3>1, Quotient
  <2>2. h + m = (at + d) \div VadWindow /\ at + d \in Nat
    BY <1>1, <1>2
  <2>3. VadWindow * (h + m) <= at + d /\ VadMaxAt < VadWindow * M + VadWindow
    BY <1>1, <2>2, Quotient
  <2>4. ASSUME M < h + m PROVE FALSE
    <3> HIDE DEF h, m, M
    <3>1. VadWindow * M + VadWindow <= VadWindow * (h + m)
      BY <1>1, <2>1, <2>4, Product
    <3>2. VadWindow * M \in Nat /\ VadWindow * (h + m) \in Nat
      BY <1>1, <2>1
    <3> QED
      BY <1>1, <2>3, <3>1, <3>2
  <2> HIDE DEF h, m, M
  <2> QED
    BY <2>1, <2>4
<1>4. /\ windows = SubSeq(verdicts, h + 1, h + m)
      /\ DOMAIN windows = 1 .. m
      /\ \A k \in 1 .. m : windows[k] = verdicts[h + k]
      /\ SubSeq(verdicts, 1, h) \o windows = SubSeq(verdicts, 1, h + m)
  <2> HIDE DEF h, M
  <2>1. h \in 0 .. M /\ m \in 0 .. (M - h) /\ M \in Nat /\ verdicts \in [1 .. M -> BOOLEAN]
    BY ONLY <1>1, <1>3
  <2>2. /\ Len(SubSeq(verdicts, 1, h)) = h
        /\ DOMAIN SubSeq(verdicts, h + 1, h + m) = 1 .. m
        /\ \A k \in 1 .. m : SubSeq(verdicts, h + 1, h + m)[k] = verdicts[h + k]
        /\ SubSeq(verdicts, 1, h) \o SubSeq(verdicts, h + 1, h + m) = SubSeq(verdicts, 1, h + m)
    <3> HIDE DEF m
    <3> QED
      BY ONLY <2>1, FirstWindows, SMT, ZenonT(60)
  <2>3. Len(given) = h
    BY ONLY <1>1, <2>2
  <2>4. windows = SubSeq(verdicts, h + 1, h + m)
    BY ONLY <2>3 DEF Vad!Complete
  <2> QED
    BY ONLY <2>2, <2>4
<1>5. /\ Left(at + d, VadWindow, held')
      /\ given' = given \o windows
      /\ speaking' = state.speaking /\ since' = state.since
      /\ started' = state.started /\ slice' = state.slice
  <2>1. held' = (held + d) - VadWindow * m
    BY DEF Vad!Push, Vad!Kept, Vad!Complete
  <2>2. /\ given' = given \o windows
        /\ speaking' = state.speaking /\ since' = state.since
        /\ started' = state.started /\ slice' = state.slice
    BY Zenon DEF Vad!Push
  <2> QED
    BY ONLY <1>2, <2>1, <2>2
<1>6. Completes(p)
  <2> SUFFICES ASSUME NEW k \in DOMAIN p.windows
      PROVE /\ p.windows[k] = p.verdicts[p.from + k] /\ p.windows[k] \in BOOLEAN
            /\ \A n \in 1 .. (p.from + k) : p.verdicts[n] \in BOOLEAN
            /\ VadWindow * (p.from + k) <= p.now
            /\ p.now < VadWindow * (p.from + k) + p.chunk
    <3>1. p.from \in Nat /\ p.now \in Nat /\ p.chunk \in Nat
      BY <1>1, <1>3
    <3> HIDE DEF p
    <3> QED
      BY <3>1 DEF Completes
  <2>1. k \in 1 .. m /\ h + k \in 1 .. M
    <3>1. k \in 1 .. m
      BY <1>4, Zenon
    <3> HIDE DEF h, m, M
    <3> QED
      BY ONLY <1>3, <3>1
  <2>2. VadWindow * (h + m) <= at + d /\ at < VadWindow * h + VadWindow
    <3>1. at + d \in Nat
      BY <1>1
    <3>2. VadWindow * ((at + d) \div VadWindow) <= at + d
      BY ONLY <1>1, <3>1, Quotient
    <3>3. at < VadWindow * h + VadWindow
      BY ONLY <1>1, Quotient
    <3> QED
      BY ONLY <1>2, <3>2, <3>3
  <2>3. h + k = h + m \/ VadWindow * (h + k) + VadWindow <= VadWindow * (h + m)
    <3> HIDE DEF h, m
    <3> QED
      BY <1>1, <1>3, <2>1, Product
  <2>4. VadWindow * h + VadWindow <= VadWindow * (h + k)
    <3> HIDE DEF h, m
    <3> QED
      BY <1>1, <1>3, <2>1, Product
  <2>5. VadWindow * h \in Nat /\ VadWindow * (h + k) \in Nat /\ VadWindow * (h + m) \in Nat
    <3> HIDE DEF h, m
    <3> QED
      BY <1>1, <1>3, <2>1
  <2>6. VadWindow * (h + k) <= at + d /\ at + d < VadWindow * (h + k) + d
    <3> HIDE DEF h, m
    <3> QED
      BY <1>1, <2>2, <2>3, <2>4, <2>5
  <2>7. windows[k] = verdicts[h + k] /\ \A n \in 1 .. (h + k) : verdicts[n] \in BOOLEAN
    <3> HIDE DEF h, m, M, windows
    <3> QED
      BY <1>1, <1>3, <1>4, <2>1
  <2>8. windows[k] \in BOOLEAN
    <3> HIDE DEF h, m, M, windows
    <3> QED
      BY <1>3, <2>1, <2>7
  <2> HIDE DEF h, m, M, windows
  <2> QED
    BY <2>6, <2>7, <2>8
<1>7. HeardTo(p, 0, base)
  <2>1. Judged(verdicts, h, [speaking |-> speaking, since |-> since,
                             started |-> started, slice |-> slice])
    BY DEF VadInv
  <2>2. Judged(verdicts, h, base)
    BY <2>1 DEF Judged
  <2> HIDE DEF h
  <2> QED
    BY <1>3, <2>2 DEF HeardTo
<1>8. HeardTo(p, m, state)
  <2>1. DOMAIN p.windows = 1 .. m /\ p.windows = windows
    BY <1>4
  <2>2. state = Vad!FoldLeft(Vad!Heard, base, p.windows)
    OBVIOUS
  <2> HIDE DEF p, m, h, windows, base, state
  <2> QED
    BY <1>1, <1>3, <1>6, <1>7, <2>1, <2>2, HearAll
<1>9. Judged(verdicts, h + m, state)
  BY <1>8 DEF HeardTo
<1>10. Judged(verdicts', at' \div VadWindow,
              [speaking |-> speaking', since |-> since', started |-> started', slice |-> slice'])
  <2> HIDE DEF h, m, state
  <2> QED
    BY <1>1, <1>2, <1>5, <1>9 DEF Judged
<1>11. at' \in 0 .. VadMaxAt /\ Left(at', VadWindow, held')
  <2>1. at' \in 0 .. VadMaxAt
    BY <1>1
  <2> QED
    BY ONLY <1>1, <1>5, <2>1
<1>12. given' = SubSeq(verdicts', 1, at' \div VadWindow)
  <2> HIDE DEF h, m, windows
  <2> QED
    BY <1>1, <1>2, <1>4, <1>5
<1> QED
  BY <1>1, <1>10, <1>11, <1>12 DEF VadInv, Vad!Verdicts

(* Any step: a push, the end of a stream, or a reset.                      *)
LEMMA VadStep == Vad!VadAssumption /\ VadInv /\ (Vad!Next \/ UNCHANGED Vad!vars) => VadInv'
<1> SUFFICES ASSUME Vad!VadAssumption, VadInv, Vad!Next \/ UNCHANGED Vad!vars PROVE VadInv'
  OBVIOUS
<1>1. CASE UNCHANGED Vad!vars
  BY <1>1 DEF VadInv, Vad!vars, Vad!Verdicts, Judged, Left
<1>2. CASE \E d \in VadSteps : Vad!Push(d)
  BY <1>2, VadPush
<1>3. CASE Vad!Finish
  BY <1>3 DEF Vad!Finish, VadInv, Vad!Verdicts, Judged, Left
<1>4. CASE Vad!Reset
  <2>1. /\ VadWindow \in Nat \ {0} /\ VadMaxAt \in Nat
        /\ at' = 0 /\ held' = 0 /\ given' = << >>
        /\ started' = FALSE /\ speaking' = FALSE /\ slice' = 0
        /\ verdicts' \in Vad!Verdicts
    BY <1>4 DEF Vad!VadAssumption, Vad!Reset
  <2>2. at' \in 0 .. VadMaxAt
    BY <2>1
  <2> QED
    BY ONLY <2>1, <2>2, VadFresh DEF VadInv, Vad!Verdicts
<1> QED
  BY <1>1, <1>2, <1>3, <1>4 DEF Vad!Next

(* The run DecisionsAreTheAudios finds is the one the VAD is in.           *)
LEMMA VadDecides == Vad!VadAssumption /\ VadInv => Vad!DecisionsAreTheAudios
<1> SUFFICES ASSUME Vad!VadAssumption, VadInv PROVE Vad!DecisionsAreTheAudios
  OBVIOUS
<1> DEFINE h == at \div VadWindow
           runs == {n \in 1 .. h : \A k \in n .. h : verdicts[k] = verdicts[h]}
           first == CHOOSE n \in runs : \A k \in runs : n <= k
<1>1. /\ given = SubSeq(verdicts, 1, h)
      /\ speaking = (h > 0 /\ verdicts[h])
  BY DEF VadInv, Judged
<1>2. ASSUME h > 0 PROVE since \in first * VadWindow .. (first * VadWindow + slice - 1)
  <2>1. PICK n \in 1 .. h :
          /\ Begins(verdicts, n, h)
          /\ since \in (VadWindow * n) .. (VadWindow * n + slice - 1)
    BY <1>2 DEF VadInv, Judged
  <2>2. h \in Nat /\ VadWindow \in Nat
    <3>1. at \in Nat /\ VadWindow \in Nat \ {0}
      BY DEF VadInv, Vad!VadAssumption
    <3> QED
      BY <3>1, Quotient
  <2> HIDE DEF h
  <2>3. n \in runs
    BY <2>1 DEF Begins
  <2>4. ASSUME NEW k \in runs PROVE n <= k
    <3>1. CASE k < n
      <4>1. n - 1 \in k .. h /\ n > 1
        BY <2>1, <2>2, <3>1
      <4>2. verdicts[n - 1] = verdicts[h] /\ verdicts[n] = verdicts[h]
        BY <2>1, <4>1 DEF Begins
      <4> QED
        BY <2>1, <4>1, <4>2 DEF Begins
    <3> QED
      BY <2>1, <2>2, <3>1
  <2>5. first = n
    <3>1. \A k \in runs : k \in Nat
      BY <2>2
    <3>2. \A k \in runs : (\A l \in runs : k <= l) => k = n
      <4> SUFFICES ASSUME NEW k \in runs, \A l \in runs : k <= l PROVE k = n
        OBVIOUS
      <4>1. k <= n /\ n <= k
        BY <2>3, <2>4
      <4> HIDE DEF runs
      <4> QED
        BY <2>3, <3>1, <4>1
    <3> HIDE DEF runs
    <3>3. \E k \in runs : \A l \in runs : k <= l
      BY <2>3, <2>4
    <3>4. first \in runs /\ \A l \in runs : first <= l
      BY <3>3
    <3> HIDE DEF first
    <3> QED
      BY <3>2, <3>4
  <2> HIDE DEF first
  <2>6. VadWindow * n = first * VadWindow
    BY <2>1, <2>2, <2>5
  <2> QED
    BY <2>1, <2>6
<1> HIDE DEF first, h
<1> QED
  BY <1>1, <1>2 DEF Vad!DecisionsAreTheAudios, first, runs, h

(* As long as the device is the VAD.                                       *)
VadHolds == device = "vad" => VadInv

(* SileroVad: the same decisions however the audio is sliced, on this      *)
(* stream and on every one before it.                                      *)
THEOREM SameDecisions == AdaptersSpec => []DecisionsAreTheAudios
<1>1. AdaptersInit => VadHolds
  BY AdaptersAssumption, VadStart DEF AdaptersInit, VadHolds
<1>2. VadHolds /\ [AdaptersNext]_allVars => VadHolds'
  <2> SUFFICES ASSUME VadHolds, [AdaptersNext]_allVars, device' = "vad" PROVE VadInv'
    BY DEF VadHolds
  <2>1. device = "vad" /\ (Vad!Next \/ UNCHANGED Vad!vars)
    BY DEF AdaptersNext, allVars, vadVars, Vad!vars
  <2> QED
    BY <2>1, AdaptersAssumption, VadStep DEF VadHolds
<1>3. VadHolds => DecisionsAreTheAudios
  BY AdaptersAssumption, VadDecides DEF VadHolds, DecisionsAreTheAudios
<1> QED
  BY <1>1, <1>2, <1>3, PTL DEF AdaptersSpec

-----------------------------------------------------------------------------
(* SherpaEngine.  The recognizer numbers its pieces, and dates them in     *)
(* order.                                                                  *)
Numbered(all) == all \in Seq(Sherpa!Piece) /\ \A i \in DOMAIN all : all[i].id = i

DatedInOrder(all) == \A i, j \in DOMAIN all : i <= j => all[i].time <= all[j].time

(* The word made of the pieces after the lo-th, up to the hi-th.           *)
Made(all, lo, hi, w) ==
  /\ w \in Sherpa!Word
  /\ w.ids = [j \in 1 .. (hi - lo) |-> lo + j]
  /\ w.start = all[lo + 1].time /\ w.start <= w.end

(* The first n pieces as complete words, each ending with piece b[i], and  *)
(* the pieces of the pending one.                                          *)
SplitAt(all, n, ws, rest, b) ==
  /\ b \in [0 .. Len(ws) -> 0 .. n] /\ b[0] = 0
  /\ \A i, j \in 0 .. Len(ws) : i < j => b[i] < b[j]
  /\ \A i \in 1 .. Len(ws) :
       /\ Made(all, b[i - 1], b[i], ws[i])
       /\ b[i] < n /\ ws[i].end <= all[b[i] + 1].time
  /\ rest = SubSeq(all, b[Len(ws)] + 1, n)
  /\ n > 0 => b[Len(ws)] < n

Split(all, n, ws, rest) ==
  /\ ws \in Seq(Sherpa!Word)
  /\ \E b : SplitAt(all, n, ws, rest, b)

(* Absorbing p.all, of which the first p.from pieces had become p.words    *)
(* and p.pending: complete words stay, and the pending one keeps its start.*)
Goes(p, state) ==
  LET m == Len(p.words)
  IN  /\ m <= Len(state.words)
      /\ \A i \in 1 .. m : state.words[i] = p.words[i]
      /\ p.pending # << >> =>
           /\ state.pending # << >>
           /\ IF Len(state.words) = m THEN state.pending[1] = p.pending[1]
              ELSE state.words[m + 1].start = p.pending[1].time

Join(p, x, state) == Sherpa!Joined(state, p.fresh[x])

JoinedTo(p, k, state) ==
  /\ state = [words |-> state.words, pending |-> state.pending]
  /\ Split(p.all, p.from + k, state.words, state.pending)
  /\ Goes(p, state)

JoinedAll(p, s, state) == \A k \in Nat : s = 1 .. k => JoinedTo(p, k, state)

Joining == INSTANCE Folding WITH Op <- Join, Pick <- Top, Keeps <- JoinedAll

(* A word is what its pieces are; its end is an estimate within the cap.   *)
LEMMA AssembledIs ==
  ASSUME Sherpa!EngineAssumption, NEW all, Numbered(all), NEW lo \in Nat, NEW hi \in Nat,
         lo < hi, hi <= Len(all), NEW pieces, pieces = SubSeq(all, lo + 1, hi),
         NEW cap \in Nat, NEW w, w = Sherpa!Assembled(pieces, cap)
  PROVE  /\ Made(all, lo, hi, w)
         /\ w.end <= cap \/ w.end <= w.start
<1>1. /\ pieces \in Seq(Sherpa!Piece) /\ Len(pieces) = hi - lo /\ Len(pieces) \in Nat
      /\ \A j \in 1 .. (hi - lo) : pieces[j] = all[lo + j]
  BY SubSeqProperties, SMTT(30) DEF Numbered
<1>2. \A j \in 1 .. (hi - lo) : lo + j \in DOMAIN all /\ pieces[j] \in Sherpa!Piece /\ pieces[j].id = lo + j
  BY <1>1, SMTT(30) DEF Numbered
<1>3. DOMAIN pieces = 1 .. (hi - lo)
  BY <1>1
<1>4. Head(pieces) = pieces[1] /\ Sherpa!Last(pieces) = pieces[hi - lo]
  BY <1>1 DEF Sherpa!Last
<1>5. 1 \in 1 .. (hi - lo) /\ hi - lo \in 1 .. (hi - lo)
  OBVIOUS
<1>6. PICK start, late : /\ start = Head(pieces).time /\ late = Sherpa!Last(pieces).time
                         /\ start \in Nat /\ late \in Nat /\ start = all[lo + 1].time
  BY <1>1, <1>2, <1>4, <1>5 DEF Sherpa!Piece
<1>7. PICK ids : ids = [i \in DOMAIN pieces |-> pieces[i].id]
  OBVIOUS
<1>8. ids = [j \in 1 .. (hi - lo) |-> lo + j] /\ ids \in Seq(Nat)
  <2>1. ids = [j \in 1 .. (hi - lo) |-> lo + j]
    BY <1>2, <1>3, <1>7
  <2>2. hi - lo \in Nat /\ ids \in [1 .. (hi - lo) -> Nat]
    BY <2>1
  <2> QED
    BY <2>1, <2>2, SeqDef
<1>9. PICK end : end = Sherpa!Least(Sherpa!Most(late + TokenTail, start), Sherpa!Most(cap, start))
  OBVIOUS
<1>10. /\ end \in Nat /\ start <= end
       /\ end <= cap \/ end <= start
  BY <1>6, <1>9, SMTT(30) DEF Sherpa!Least, Sherpa!Most, Sherpa!EngineAssumption
<1>11. w = [ids |-> ids, start |-> start, end |-> end]
  BY <1>6, <1>7, <1>9 DEF Sherpa!Assembled
<1>12. w.ids = ids /\ w.start = start /\ w.end = end /\ w \in Sherpa!Word
  <2>1. ids \in Seq(Nat) /\ start \in Nat /\ end \in Nat
    BY ONLY <1>6, <1>8, <1>10
  <2> QED
    BY ONLY <1>11, <2>1 DEF Sherpa!Word
<1> QED
  BY <1>6, <1>8, <1>10, <1>12 DEF Made

(* One more piece: it begins a word, and completes the pending one ...     *)
LEMMA JoinOpens ==
  ASSUME Sherpa!EngineAssumption, NEW all, Numbered(all), DatedInOrder(all),
         NEW n \in 1 .. Len(all), NEW ws, NEW rest, rest # << >>, Split(all, n - 1, ws, rest),
         NEW w, w = Sherpa!Assembled(rest, all[n].time)
  PROVE  /\ Split(all, n, Append(ws, w), <<all[n]>>)
         /\ w.start = rest[1].time
<1> DEFINE m == Len(ws)
<1>1. PICK b : SplitAt(all, n - 1, ws, rest, b)
  BY DEF Split
<1> DEFINE lo == b[m]
<1>2. ws \in Seq(Sherpa!Word) /\ m \in Nat /\ n \in Nat /\ n - 1 \in Nat
      /\ all \in Seq(Sherpa!Piece) /\ Len(all) \in Nat
  BY DEF Split, Numbered
<1>3. lo \in 0 .. (n - 1) /\ rest = SubSeq(all, lo + 1, n - 1)
  BY <1>1, <1>2 DEF SplitAt
<1>4. lo < n - 1
  <2>1. ASSUME lo = n - 1 PROVE FALSE
    <3>1. n - 1 < lo + 1
      BY <1>2, <2>1
    <3> HIDE DEF lo
    <3>2. rest = << >>
      BY <1>2, <1>3, <3>1, SubSeqEmpty
    <3> QED
      BY <3>2
  <2> HIDE DEF lo
  <2> QED
    BY <1>2, <1>3, <2>1
<1>5. \A i \in 1 .. Len(all) : all[i].time \in Nat
  <2>1. \A i \in 1 .. Len(all) : all[i] \in Sherpa!Piece
    BY ONLY <1>2
  <2> QED
    BY ONLY <2>1 DEF Sherpa!Piece
<1>6. /\ Made(all, lo, n - 1, w)
      /\ w.end <= all[n].time \/ w.end <= w.start
  <2> HIDE DEF lo
  <2>1. lo \in Nat /\ n - 1 <= Len(all) /\ all[n].time \in Nat
    BY <1>2, <1>3, <1>5
  <2> QED
    BY <1>2, <1>3, <1>4, <2>1, AssembledIs
<1>7. w \in Sherpa!Word /\ w.start = all[lo + 1].time /\ w.start \in Nat /\ w.end \in Nat
  BY <1>6 DEF Made, Sherpa!Word
<1>8. w.end <= all[n].time
  <2> HIDE DEF lo
  <2>1. lo + 1 \in DOMAIN all /\ n \in DOMAIN all /\ lo + 1 <= n
    BY <1>2, <1>3, <1>4
  <2>2. all[lo + 1].time <= all[n].time /\ all[n].time \in Nat
    BY <1>5, <2>1 DEF DatedInOrder
  <2> QED
    BY <1>6, <1>7, <2>2
<1> DEFINE more == Append(ws, w)
           c == [i \in 0 .. (m + 1) |-> IF i <= m THEN b[i] ELSE n - 1]
<1>9. /\ more \in Seq(Sherpa!Word) /\ Len(more) = m + 1
      /\ \A i \in 1 .. m : more[i] = ws[i]
      /\ more[m + 1] = w
  BY <1>2, <1>7
<1>10. c[m + 1] = n - 1 /\ \A i \in 0 .. m : c[i] = b[i]
  BY <1>2
<1>11. SplitAt(all, n, more, <<all[n]>>, c)
  <2>1. c \in [0 .. Len(more) -> 0 .. n] /\ c[0] = 0
    BY <1>1, <1>2, <1>9 DEF SplitAt
  <2> HIDE DEF c
  <2>2. \A i, j \in 0 .. Len(more) : i < j => c[i] < c[j]
    <3> SUFFICES ASSUME NEW i \in 0 .. (m + 1), NEW j \in 0 .. (m + 1), i < j PROVE c[i] < c[j]
      BY <1>9
    <3>1. CASE j <= m
      BY <1>1, <1>2, <1>10, <3>1 DEF SplitAt
    <3>2. CASE j = m + 1
      <4>1. i \in 0 .. m /\ c[i] = b[i] /\ c[j] = n - 1
        BY <1>2, <1>10, <3>2
      <4>2. i = m \/ b[i] < lo
        BY <1>1, <1>2, <4>1 DEF SplitAt
      <4>3. b[i] \in Nat /\ lo \in Nat
        <5>1. b \in [0 .. m -> 0 .. (n - 1)]
          BY <1>1 DEF SplitAt
        <5>2. b[i] \in 0 .. (n - 1)
          BY ONLY <4>1, <5>1
        <5> HIDE DEF lo
        <5> QED
          BY ONLY <1>2, <1>3, <5>2
      <4> QED
        BY <1>2, <1>4, <4>1, <4>2, <4>3
    <3> QED
      BY <1>2, <3>1, <3>2
  <2>3. ASSUME NEW i \in 1 .. Len(more)
        PROVE  /\ Made(all, c[i - 1], c[i], more[i])
               /\ c[i] < n /\ more[i].end <= all[c[i] + 1].time
    <3>1. CASE i <= m
      <4>1. i \in 1 .. m /\ i - 1 \in 0 .. m /\ i \in 0 .. m
        BY <1>2, <1>9, <2>3, <3>1
      <4>2. c[i - 1] = b[i - 1] /\ c[i] = b[i] /\ more[i] = ws[i]
        BY <1>9, <1>10, <4>1
      <4>3. /\ Made(all, b[i - 1], b[i], ws[i])
            /\ b[i] < n - 1 /\ ws[i].end <= all[b[i] + 1].time /\ b[i] \in Nat
        BY <1>1, <4>1, SMTT(30) DEF SplitAt
      <4> QED
        BY ONLY <1>2, <4>2, <4>3
    <3>2. CASE i = m + 1
      <4>1. c[i - 1] = lo /\ c[i] = n - 1 /\ more[i] = w
        BY <1>2, <1>9, <1>10, <3>2
      <4>2. (n - 1) + 1 = n /\ n - 1 < n
        BY <1>2
      <4> QED
        BY <1>6, <1>8, <4>1, <4>2
    <3> QED
      BY <1>2, <1>9, <2>3, <3>1, <3>2
  <2>4. <<all[n]>> = SubSeq(all, c[Len(more)] + 1, n) /\ c[Len(more)] < n
    <3>1. c[Len(more)] = n - 1 /\ (n - 1) + 1 = n
      BY <1>2, <1>9, <1>10
    <3>2. SubSeq(all, n, n) = <<all[n]>>
      <4>1. SubSeq(all, n, n) = << all[n] >> \o SubSeq(all, n + 1, n)
        BY <1>2, SubSeqRecursiveFirst
      <4>2. SubSeq(all, n + 1, n) = << >>
        BY <1>2, SubSeqEmpty
      <4>3. << all[n] >> \in Seq(Sherpa!Piece)
        BY <1>2
      <4> QED
        BY ONLY <4>1, <4>2, <4>3, ConcatEmptySeq
    <3> QED
      BY <1>2, <3>1, <3>2
  <2> HIDE DEF more
  <2> QED
    BY <2>1, <2>2, <2>3, <2>4 DEF SplitAt
<1>12. w.start = rest[1].time
  <2> HIDE DEF lo
  <2>1. rest[1] = all[lo + 1]
    BY <1>2, <1>3, <1>4, SubSeqProperties
  <2> QED
    BY <1>7, <2>1
<1> QED
  BY <1>9, <1>11, <1>12 DEF Split

(* ... or it goes on with the pending one.                                 *)
LEMMA JoinContinues ==
  ASSUME NEW all, Numbered(all), NEW n \in 1 .. Len(all), NEW ws, NEW rest,
         Split(all, n - 1, ws, rest)
  PROVE  /\ Split(all, n, ws, Append(rest, all[n]))
         /\ rest # << >> => Append(rest, all[n])[1] = rest[1]
         /\ Append(rest, all[n]) # << >>
<1> DEFINE m == Len(ws)
<1>1. PICK b : SplitAt(all, n - 1, ws, rest, b)
  BY DEF Split
<1> DEFINE lo == b[m]
<1>2. ws \in Seq(Sherpa!Word) /\ m \in Nat /\ n \in Nat /\ n - 1 \in Nat
      /\ all \in Seq(Sherpa!Piece) /\ Len(all) \in Nat /\ all[n] \in Sherpa!Piece
  BY DEF Split, Numbered
<1>3. lo \in 0 .. (n - 1) /\ rest = SubSeq(all, lo + 1, n - 1)
  BY <1>1, <1>2 DEF SplitAt
<1> HIDE DEF lo
<1>4. rest \in Seq(Sherpa!Piece)
  BY <1>2, <1>3, SubSeqProperties
<1>5. SubSeq(all, lo + 1, n) = Append(rest, all[n])
  <2>1. lo + 1 \in 1 .. Len(all) /\ n \in (lo + 1) .. Len(all)
    BY <1>2, <1>3
  <2>2. SubSeq(all, lo + 1, n) = SubSeq(all, lo + 1, n - 1) \o << all[n] >>
    BY ONLY <1>2, <2>1, SubSeqRecursiveSecond
  <2>3. Append(rest, all[n]) = rest \o << all[n] >>
    BY ONLY <1>2, <1>4, AppendIsConcat
  <2> QED
    BY <1>3, <2>2, <2>3
<1>6. SplitAt(all, n, ws, Append(rest, all[n]), b)
  <2>1. b \in [0 .. m -> 0 .. n] /\ b[0] = 0
    <3>1. b \in [0 .. m -> 0 .. (n - 1)] /\ b[0] = 0
      BY <1>1 DEF SplitAt
    <3> HIDE DEF m
    <3>2. \A x \in 0 .. (n - 1) : x \in 0 .. n
      BY <1>2
    <3> QED
      BY ONLY <3>1, <3>2
  <2>2. \A i \in 1 .. m : Made(all, b[i - 1], b[i], ws[i])
          /\ b[i] < n /\ ws[i].end <= all[b[i] + 1].time
    <3> SUFFICES ASSUME NEW i \in 1 .. m
                 PROVE  Made(all, b[i - 1], b[i], ws[i])
                        /\ b[i] < n /\ ws[i].end <= all[b[i] + 1].time
      OBVIOUS
    <3>1. Made(all, b[i - 1], b[i], ws[i])
          /\ b[i] < n - 1 /\ ws[i].end <= all[b[i] + 1].time
      BY <1>1 DEF SplitAt
    <3>2. b[i] \in 0 .. n
      BY <1>2, <2>1
    <3>3. b[i] < n
      BY ONLY <1>2, <3>1, <3>2
    <3> QED
      BY ONLY <3>1, <3>3
  <2>3. b[m] < n
    BY <1>2, <1>3 DEF lo
  <2>4. \A i, j \in 0 .. Len(ws) : i < j => b[i] < b[j]
    BY <1>1 DEF SplitAt
  <2>5. Append(rest, all[n]) = SubSeq(all, b[m] + 1, n)
    BY <1>5 DEF lo
  <2> QED
    BY ONLY <2>1, <2>2, <2>3, <2>4, <2>5 DEF SplitAt
<1>7. rest # << >> => Append(rest, all[n])[1] = rest[1]
  <2>1. rest # << >> => 1 \in 1 .. Len(rest)
    BY <1>4
  <2>2. \A i \in 1 .. Len(rest) : Append(rest, all[n])[i] = rest[i]
    BY ONLY <1>2, <1>4, AppendProperties
  <2> QED
    BY <2>1, <2>2
<1>8. Append(rest, all[n]) # << >>
  BY ONLY <1>2, <1>4, AppendProperties
<1> QED
  BY <1>2, <1>6, <1>7, <1>8 DEF Split

(* A push or a flush: the pieces p.fresh that come after the first p.from. *)
Absorbs(p) ==
  /\ Numbered(p.all) /\ DatedInOrder(p.all)
  /\ p.from \in Nat
  /\ p.words \in Seq(Sherpa!Word)
  /\ \A k \in DOMAIN p.fresh : p.fresh[k] = p.all[p.from + k] /\ p.from + k \in 1 .. Len(p.all)

(* _drain, one piece: whichever of the two it does.                        *)
LEMMA JoinOne ==
  ASSUME Sherpa!EngineAssumption, NEW p, Absorbs(p), NEW k \in Nat \ {0}, k \in DOMAIN p.fresh,
         NEW state, JoinedTo(p, k - 1, state)
  PROVE  JoinedTo(p, k, Join(p, k, state))
<1> DEFINE all == p.all
           n == p.from + k
           ws == state.words
           rest == state.pending
           m == Len(p.words)
           after == Join(p, k, state)
<1>1. /\ n \in 1 .. Len(all) /\ n - 1 = p.from + (k - 1) /\ p.fresh[k] = all[n]
      /\ Numbered(all) /\ DatedInOrder(all) /\ p.words \in Seq(Sherpa!Word) /\ m \in Nat
  BY DEF Absorbs
<1>2. /\ state = [words |-> ws, pending |-> rest]
      /\ Split(all, n - 1, ws, rest) /\ Goes(p, state) /\ ws \in Seq(Sherpa!Word)
  BY <1>1 DEF JoinedTo, Split
<1>3. ASSUME after = [words |-> after.words, pending |-> after.pending],
             Split(all, n, after.words, after.pending), Goes(p, after)
      PROVE  JoinedTo(p, k, after)
  BY ONLY <1>3 DEF JoinedTo
<1>4. CASE all[n].opens /\ rest # << >>
  <2>1. PICK w : w = Sherpa!Assembled(rest, all[n].time)
    OBVIOUS
  <2>2. Split(all, n, Append(ws, w), <<all[n]>>) /\ w.start = rest[1].time
    <3> HIDE DEF all, n, ws, rest
    <3> QED
      BY ONLY Sherpa!EngineAssumption, <1>1, <1>2, <1>4, <2>1, JoinOpens
  <2>3. after = [words |-> Append(ws, w), pending |-> <<all[n]>>]
    BY <1>1, <1>4, <2>1 DEF Join, Sherpa!Joined
  <2>4. Append(ws, w) \in Seq(Sherpa!Word)
    BY <2>2 DEF Split
  <2>5. /\ Len(Append(ws, w)) = Len(ws) + 1 /\ Len(ws) \in Nat
        /\ \A i \in 1 .. Len(ws) : Append(ws, w)[i] = ws[i]
        /\ Append(ws, w)[Len(ws) + 1] = w
    <3> HIDE DEF ws
    <3> QED
      BY ONLY <1>2
  <2>6. /\ after.words = Append(ws, w) /\ after.pending = <<all[n]>>
        /\ after = [words |-> after.words, pending |-> after.pending]
    BY ONLY <2>3
  <2>7. <<all[n]>> # << >>
    OBVIOUS
  <2>8. /\ m <= Len(ws) /\ \A i \in 1 .. m : ws[i] = p.words[i]
        /\ p.pending # << >> =>
             IF Len(ws) = m THEN rest[1] = p.pending[1]
             ELSE ws[m + 1].start = p.pending[1].time
    BY ONLY <1>2 DEF Goes
  <2>9. Goes(p, after)
    <3>1. m <= Len(after.words) /\ Len(after.words) # m
      BY ONLY <1>1, <2>5, <2>6, <2>8
    <3>2. \A i \in 1 .. m : after.words[i] = p.words[i]
      BY ONLY <1>1, <2>5, <2>6, <2>8
    <3>3. p.pending # << >> => after.words[m + 1].start = p.pending[1].time
      <4>1. CASE Len(ws) = m
        BY ONLY <2>2, <2>5, <2>6, <2>8, <4>1
      <4>2. CASE Len(ws) # m
        <5>1. m + 1 \in 1 .. Len(ws)
          BY ONLY <1>1, <2>5, <2>8, <4>2
        <5>2. after.words[m + 1] = ws[m + 1]
          BY ONLY <2>5, <2>6, <5>1
        <5> QED
          BY ONLY <2>8, <4>2, <5>2
      <4> QED
        BY ONLY <4>1, <4>2
    <3> QED
      BY ONLY <2>6, <2>7, <3>1, <3>2, <3>3 DEF Goes
  <2> QED
    BY ONLY <1>3, <2>2, <2>6, <2>9
<1>5. CASE ~ (all[n].opens /\ rest # << >>)
  <2>1. after = [words |-> ws, pending |-> Append(rest, all[n])]
    <3>1. after = [state EXCEPT !.pending = Append(@, all[n])]
      BY <1>1, <1>5 DEF Join, Sherpa!Joined
    <3> HIDE DEF after, all, n
    <3>2. PICK a, b : state = [words |-> a, pending |-> b]
      BY ONLY <1>2
    <3>3. a = ws /\ b = rest
      BY ONLY <3>2
    <3>4. after = [words |-> a, pending |-> Append(b, all[n])]
      BY ONLY <3>1, <3>2
    <3> QED
      BY ONLY <3>3, <3>4
  <2>2. /\ Split(all, n, ws, Append(rest, all[n]))
        /\ rest # << >> => Append(rest, all[n])[1] = rest[1]
        /\ Append(rest, all[n]) # << >>
    <3> HIDE DEF all, n, ws, rest
    <3> QED
      BY ONLY <1>1, <1>2, JoinContinues
  <2>3. /\ after.words = ws /\ after.pending = Append(rest, all[n])
        /\ after = [words |-> after.words, pending |-> after.pending]
    BY ONLY <2>1
  <2>4. Goes(p, after)
    BY ONLY <1>2, <2>2, <2>3 DEF Goes
  <2> QED
    BY ONLY <1>3, <2>2, <2>3, <2>4
<1> QED
  BY <1>4, <1>5

(* As FiniteInHearing.                                                     *)
LEMMA FiniteInJoining ==
  ASSUME NEW S, IsFiniteSet(S)
  PROVE  Joining!IsFiniteSet(S)
  BY DEF IsFiniteSet, Joining!IsFiniteSet

(* _drain: all the new pieces, one after another.                          *)
LEMMA JoinAll ==
  ASSUME Sherpa!EngineAssumption, NEW p, Absorbs(p), NEW L \in Nat, DOMAIN p.fresh = 1 .. L,
         NEW base, JoinedTo(p, 0, base),
         NEW state, state = Sherpa!FoldLeft(Sherpa!Joined, base, p.fresh)
  PROVE  JoinedTo(p, L, state)
<1>1. state = Joining!Fold(p, base, 1 .. L)
  BY DEF Sherpa!FoldLeft, Sherpa!MapThenFoldSet, Sherpa!Max, Max, Joining!Fold, Joining!Folds,
         Join, Top
<1>2. JoinedAll(p, {}, base)
  <2>1. \A k \in Nat : {} = 1 .. k => k = 0
    OBVIOUS
  <2> QED
    BY <2>1 DEF JoinedAll
<1>3. ASSUME NEW acc, NEW s \in SUBSET (1 .. L), s # {}, JoinedAll(p, s \ {Top(s)}, acc)
      PROVE  JoinedAll(p, s, Join(p, Top(s), acc))
  <2> SUFFICES ASSUME NEW k \in Nat, s = 1 .. k PROVE JoinedTo(p, k, Join(p, Top(s), acc))
    BY DEF JoinedAll
  <2>1. k \in 1 .. k /\ k - 1 \in Nat /\ Top(s) = k /\ s \ {Top(s)} = 1 .. (k - 1)
    BY <1>3, TopOfMany
  <2>2. JoinedTo(p, k - 1, acc)
    BY <1>3, <2>1 DEF JoinedAll
  <2>3. k \in DOMAIN p.fresh
    BY <1>3, <2>1
  <2> QED
    BY <2>1, <2>2, <2>3, JoinOne
<1>4. Joining!Picks(1 .. L)
  <2>1. IsFiniteSet(1 .. L)
    BY FS_Interval
  <2>2. Joining!IsFiniteSet(1 .. L)
    BY <2>1, FiniteInJoining
  <2>3. \A s \in SUBSET (1 .. L) : s # {} => Top(s) \in s
    BY TopIsIn
  <2> QED
    BY <2>2, <2>3 DEF Joining!Picks
<1>5. JoinedAll(p, 1 .. L, Joining!Fold(p, base, 1 .. L))
  <2>1. /\ Joining!Picks(1 .. L) /\ JoinedAll(p, {}, base)
        /\ \A acc : \A s \in SUBSET (1 .. L) :
             s # {} /\ JoinedAll(p, s \ {Top(s)}, acc) => JoinedAll(p, s, Join(p, Top(s), acc))
    BY <1>2, <1>3, <1>4
  <2> QED
    BY ONLY <2>1, Joining!FoldKeeps
<1> QED
  BY <1>1, <1>5 DEF JoinedAll

-----------------------------------------------------------------------------
(* What is heard: the pieces, cut into words one after another.            *)
LastWord(rest, cap) == IF rest = << >> THEN << >> ELSE <<Sherpa!Assembled(rest, cap)>>

CutAt(all, heard, cap, b) ==
  /\ b \in [0 .. Len(heard) -> 0 .. Len(all)] /\ b[0] = 0 /\ b[Len(heard)] = Len(all)
  /\ \A i, j \in 0 .. Len(heard) : i < j => b[i] < b[j]
  /\ \A i \in 1 .. Len(heard) :
       /\ Made(all, b[i - 1], b[i], heard[i])
       /\ IF i = Len(heard) THEN heard[i].end <= cap \/ heard[i].end <= heard[i].start
          ELSE heard[i].end <= all[b[i] + 1].time

Spoken(all, heard, cap) ==
  /\ heard \in Seq(Sherpa!Word)
  /\ \E b : CutAt(all, heard, cap, b)

(* _hypothesis: the complete words and the pending one are all the pieces. *)
LEMMA Speaks ==
  ASSUME Sherpa!EngineAssumption, NEW all, Numbered(all), NEW ws, NEW rest,
         Split(all, Len(all), ws, rest), NEW cap \in Nat,
         NEW heard, heard = ws \o LastWord(rest, cap)
  PROVE  Spoken(all, heard, cap)
<1> DEFINE m == Len(ws)
           n == Len(all)
<1>1. PICK b : SplitAt(all, n, ws, rest, b)
  BY DEF Split
<1> DEFINE lo == b[m]
<1>2. ws \in Seq(Sherpa!Word) /\ m \in Nat /\ n \in Nat /\ all \in Seq(Sherpa!Piece)
  BY DEF Split, Numbered
<1>3. lo \in 0 .. n /\ rest = SubSeq(all, lo + 1, n)
  BY <1>1, <1>2 DEF SplitAt
<1>4. /\ b \in [0 .. m -> 0 .. n] /\ b[0] = 0
      /\ \A i, j \in 0 .. m : i < j => b[i] < b[j]
      /\ \A i \in 1 .. m : Made(all, b[i - 1], b[i], ws[i]) /\ ws[i].end <= all[b[i] + 1].time
      /\ n > 0 => lo < n
  BY <1>1 DEF SplitAt
<1>5. CASE rest = << >>
  <2>1. n = 0
    <3> SUFFICES ASSUME n > 0 PROVE FALSE
      BY <1>2
    <3>1. lo + 1 <= n /\ lo + 1 \in Int
      BY <1>2, <1>3, <1>4
    <3>2. Len(rest) = n - (lo + 1) + 1
      <4> HIDE DEF lo, n
      <4>1. \A i \in (lo + 1) .. n : all[i] \in Sherpa!Piece
        BY <1>2, <1>3 DEF n
      <4> QED
        BY ONLY <1>2, <1>3, <3>1, <4>1, SubSeqProperties
    <3> HIDE DEF lo, n
    <3> QED
      BY <1>2, <1>5, <3>1, <3>2
  <2>2. m = 0
    <3> SUFFICES ASSUME m > 0 PROVE FALSE
      BY <1>2
    <3>1. b[0] < b[m] /\ b[m] \in 0 .. n
      BY <1>2, <1>4
    <3> QED
      BY ONLY <1>4, <2>1, <3>1
  <2>3. heard = << >>
    BY <1>2, <1>5, <2>2 DEF LastWord
  <2>4. Len(heard) = 0 /\ heard \in Seq(Sherpa!Word)
    BY <2>3
  <2>5. CutAt(all, heard, cap, b)
    <3>1. b \in [0 .. 0 -> 0 .. n] /\ b[0] = 0 /\ b[0] = n
      BY <1>4, <2>1, <2>2
    <3> QED
      BY ONLY <2>1, <2>4, <3>1 DEF CutAt
  <2> QED
    BY <2>4, <2>5 DEF Spoken
<1>6. CASE rest # << >>
  <2>1. PICK w : w = Sherpa!Assembled(rest, cap)
    OBVIOUS
  <2>2. lo < n
    <3> HIDE DEF lo
    <3>1. n = 0 => rest = << >>
      <4>1. n = 0 => n < lo + 1
        BY <1>2, <1>3
      <4> QED
        BY ONLY <1>2, <1>3, <4>1, SubSeqEmpty
    <3> QED
      BY ONLY <1>2, <1>4, <1>6, <3>1
  <2>3. Made(all, lo, n, w) /\ (w.end <= cap \/ w.end <= w.start)
    <3> HIDE DEF lo
    <3>1. lo \in Nat /\ n <= Len(all)
      BY <1>2, <1>3
    <3> QED
      BY <1>2, <1>3, <2>1, <2>2, <3>1, AssembledIs
  <2>4. heard = Append(ws, w)
    <3>1. w \in Sherpa!Word
      BY <2>3 DEF Made
    <3>2. heard = ws \o <<w>>
      BY <1>6, <2>1 DEF LastWord
    <3> QED
      BY ONLY <1>2, <3>1, <3>2, AppendIsConcat
  <2>5. /\ heard \in Seq(Sherpa!Word) /\ Len(heard) = m + 1
        /\ \A i \in 1 .. m : heard[i] = ws[i]
        /\ heard[m + 1] = w
    <3>1. w \in Sherpa!Word
      BY <2>3 DEF Made
    <3> QED
      BY ONLY <1>2, <2>4, <3>1, AppendProperties
  <2> DEFINE c == [i \in 0 .. (m + 1) |-> IF i <= m THEN b[i] ELSE n]
  <2>6. c[m + 1] = n /\ \A i \in 0 .. m : c[i] = b[i]
    BY <1>2
  <2>7. c \in [0 .. (m + 1) -> 0 .. n] /\ c[0] = 0
    BY <1>2, <1>4
  <2> HIDE DEF c
  <2>8. \A i, j \in 0 .. (m + 1) : i < j => c[i] < c[j]
    <3> SUFFICES ASSUME NEW i \in 0 .. (m + 1), NEW j \in 0 .. (m + 1), i < j PROVE c[i] < c[j]
      OBVIOUS
    <3>1. CASE j <= m
      BY ONLY <1>2, <1>4, <2>6, <3>1, i \in 0 .. (m + 1), j \in 0 .. (m + 1), i < j, SMTT(30)
    <3>2. CASE j = m + 1
      <4>1. i \in 0 .. m /\ m \in 0 .. m /\ c[i] = b[i] /\ c[j] = n
        BY <1>2, <2>6, <3>2
      <4>2. i = m \/ b[i] < lo
        BY <1>2, <1>4, <4>1
      <4>3. b[i] \in Nat /\ lo \in Nat
        <5>1. b[i] \in 0 .. n /\ b[m] \in 0 .. n
          BY ONLY <1>4, <4>1
        <5> QED
          BY <5>1
      <4> QED
        BY ONLY <1>2, <2>2, <4>1, <4>2, <4>3
    <3> QED
      BY <1>2, <3>1, <3>2
  <2>9. ASSUME NEW i \in 1 .. (m + 1)
        PROVE  /\ Made(all, c[i - 1], c[i], heard[i])
               /\ IF i = m + 1 THEN heard[i].end <= cap \/ heard[i].end <= heard[i].start
                  ELSE heard[i].end <= all[c[i] + 1].time
    <3>1. CASE i <= m
      <4>1. i \in 1 .. m /\ i - 1 \in 0 .. m /\ i \in 0 .. m /\ i # m + 1
        BY <1>2, <3>1
      <4>2. c[i - 1] = b[i - 1] /\ c[i] = b[i] /\ heard[i] = ws[i]
        BY <2>5, <2>6, <4>1
      <4> QED
        BY ONLY <1>4, <4>1, <4>2
    <3>2. CASE i = m + 1
      <4>1. c[i - 1] = lo /\ c[i] = n /\ heard[i] = w
        BY <1>2, <2>5, <2>6, <3>2
      <4> QED
        BY ONLY <2>3, <3>2, <4>1
    <3>3. i <= m \/ i = m + 1
      BY <1>2
    <3> QED
      BY ONLY <3>1, <3>2, <3>3
  <2>10. CutAt(all, heard, cap, c)
    BY ONLY <2>5, <2>6, <2>7, <2>8, <2>9 DEF CutAt
  <2> QED
    BY <2>5, <2>10 DEF Spoken
<1> QED
  BY <1>5, <1>6

(* The pieces of a stream cut into words are, one word after another, the  *)
(* pieces.                                                                 *)
Boundaries(b, N) ==
  /\ N \in Nat /\ b \in [0 .. N -> Nat] /\ b[0] = 0
  /\ \A i \in 1 .. N : b[i - 1] < b[i]

Pieces(b, N) == [i \in 1 .. N |-> [j \in 1 .. (b[i] - b[i - 1]) |-> b[i - 1] + j]]

LEMMA InOnePiece ==
  ASSUME NEW b, NEW N, Boundaries(b, N), NEW seqs, seqs = Pieces(b, N)
  PROVE  Sherpa!FlattenSeq(seqs) = [k \in 1 .. b[N] |-> k]
<1>1. /\ N \in Nat /\ b[0] = 0
      /\ \A i \in 0 .. N : b[i] \in Nat
      /\ \A i \in 1 .. N : i - 1 \in 0 .. N /\ i \in 0 .. N /\ b[i - 1] < b[i]
  BY DEF Boundaries
<1>2. /\ seqs \in Seq(Seq(Nat)) /\ Len(seqs) = N
      /\ \A i \in 1 .. N : seqs[i] = [j \in 1 .. (b[i] - b[i - 1]) |-> b[i - 1] + j]
  <2>1. \A i \in 1 .. N : seqs[i] = [j \in 1 .. (b[i] - b[i - 1]) |-> b[i - 1] + j]
    BY DEF Pieces
  <2>2. \A i \in 1 .. N : seqs[i] \in Seq(Nat)
    <3> SUFFICES ASSUME NEW i \in 1 .. N PROVE seqs[i] \in Seq(Nat)
      OBVIOUS
    <3>1. b[i] - b[i - 1] \in Nat /\ b[i - 1] \in Nat
      BY <1>1
    <3>2. seqs[i] \in [1 .. (b[i] - b[i - 1]) -> Nat]
      <4>1. \A j \in 1 .. (b[i] - b[i - 1]) : b[i - 1] + j \in Nat
        BY ONLY <3>1
      <4> QED
        BY ONLY <2>1, <4>1
    <3> QED
      BY ONLY <3>1, <3>2, SeqDef
  <2>3. seqs = [i \in 1 .. N |-> seqs[i]]
    BY DEF Pieces
  <2>4. seqs \in [1 .. N -> Seq(Nat)]
    BY ONLY <2>2, <2>3
  <2> QED
    BY ONLY <1>1, <2>1, <2>4, SeqDef
<1> DEFINE Flat(f) == f = [i \in 1 .. Len(seqs) |-> IF i = 1 THEN seqs[i] ELSE f[i - 1] \o seqs[i]]
           upto(i) == [k \in 1 .. b[i] |-> k]
           g == [i \in 1 .. N |-> upto(i)]
<1>3. ASSUME NEW i \in 1 .. N, i # 1 PROVE upto(i) = upto(i - 1) \o seqs[i]
  <2>1. PICK lo, hi : lo = b[i - 1] /\ hi = b[i] /\ lo \in Nat /\ hi \in Nat /\ lo < hi
    BY <1>1
  <2> DEFINE u == [k \in 1 .. lo |-> k]
             v == [j \in 1 .. (hi - lo) |-> lo + j]
             w == [k \in 1 .. hi |-> k]
  <2>2. seqs[i] = v /\ upto(i - 1) = u /\ upto(i) = w
    BY <1>2, <2>1
  <2>3. hi - lo \in Nat /\ u \in [1 .. lo -> Nat] /\ v \in [1 .. (hi - lo) -> Nat] /\ w \in [1 .. hi -> Nat]
    BY <2>1
  <2> HIDE DEF u, v, w
  <2>4. /\ u \in Seq(Nat) /\ Len(u) = lo /\ v \in Seq(Nat) /\ Len(v) = hi - lo
        /\ w \in Seq(Nat) /\ Len(w) = hi
    <3>1. ASSUME NEW n \in Nat, NEW s \in [1 .. n -> Nat] PROVE s \in Seq(Nat) /\ Len(s) = n
      BY ONLY n \in Nat, s \in [1 .. n -> Nat], SeqDef
    <3> QED
      BY ONLY <2>1, <2>3, <3>1
  <2>5. u \o v \in Seq(Nat) /\ Len(u \o v) = hi
    <3>1. u \o v \in Seq(Nat) /\ Len(u \o v) = Len(u) + Len(v)
      BY ONLY <2>4, ConcatProperties
    <3> QED
      BY ONLY <2>1, <2>4, <3>1
  <2>6. \A k \in 1 .. hi : (u \o v)[k] = w[k]
    <3> SUFFICES ASSUME NEW k \in 1 .. hi PROVE (u \o v)[k] = w[k]
      OBVIOUS
    <3>1. k \in 1 .. (Len(u) + Len(v))
      BY <2>1, <2>4
    <3>2. (u \o v)[k] = IF k <= lo THEN u[k] ELSE v[k - lo]
      BY ONLY <2>4, <3>1, ConcatProperties
    <3>3. k <= lo => u[k] = k
      BY <2>1 DEF u
    <3>4. ~ (k <= lo) => v[k - lo] = k
      BY <2>1, SMTT(30) DEF v
    <3>5. w[k] = k
      BY DEF w
    <3> QED
      BY ONLY <3>2, <3>3, <3>4, <3>5
  <2>7. u \o v = w
    BY ONLY <2>4, <2>5, <2>6, SeqEqual
  <2> HIDE DEF upto
  <2> QED
    BY ONLY <2>2, <2>7
<1>4. ASSUME NEW i \in 1 .. N, i = 1 PROVE upto(i) = seqs[i]
  <2>1. i - 1 = 0 /\ b[1] \in Nat
    BY <1>1, <1>4
  <2>2. seqs[i] = [j \in 1 .. (b[1] - 0) |-> 0 + j]
    BY <1>1, <1>2, <1>4, <2>1
  <2>3. b[1] - 0 = b[1] /\ \A j \in 1 .. b[1] : 0 + j = j
    BY <2>1
  <2> QED
    BY <1>4, <2>2, <2>3
<1> HIDE DEF upto
<1>5. Flat(g)
  <2>1. \A i \in 1 .. N : g[i] = upto(i)
    OBVIOUS
  <2>2. ASSUME NEW i \in 1 .. N PROVE upto(i) = IF i = 1 THEN seqs[i] ELSE g[i - 1] \o seqs[i]
    <3>1. i # 1 => i - 1 \in 1 .. N
      BY <1>1
    <3> HIDE DEF g
    <3> QED
      BY <1>3, <1>4, <2>1, <3>1
  <2>3. g = [i \in 1 .. N |-> IF i = 1 THEN seqs[i] ELSE g[i - 1] \o seqs[i]]
    BY ONLY <2>2
  <2> HIDE DEF g
  <2> QED
    BY <1>2, <2>3
<1>6. CASE N = 0
  <2>1. Sherpa!FlattenSeq(seqs) = seqs
    BY <1>2, <1>6 DEF Sherpa!FlattenSeq
  <2>2. seqs = << >>
    BY <1>2, <1>6
  <2>3. 1 .. b[N] = {}
    BY <1>1, <1>6
  <2>4. [k \in 1 .. b[N] |-> k] = << >>
    BY <2>3
  <2> QED
    BY <2>1, <2>2, <2>4
<1>7. CASE N # 0
  <2> DEFINE f == CHOOSE h : Flat(h)
  <2>1. Flat(f)
    BY <1>5
  <2>2. Sherpa!FlattenSeq(seqs) = f[N]
    BY <1>2, <1>7 DEF Sherpa!FlattenSeq
  <2> HIDE DEF f
  <2> DEFINE S == {i \in 0 .. N : i # 0 => f[i] = g[i]}
  <2>3. \A i \in 1 .. N : /\ f[i] = (IF i = 1 THEN seqs[i] ELSE f[i - 1] \o seqs[i])
                          /\ g[i] = (IF i = 1 THEN seqs[i] ELSE g[i - 1] \o seqs[i])
    <3> HIDE DEF g
    <3> QED
      BY <1>2, <1>5, <2>1
  <2> HIDE DEF g
  <2>4. 0 \in S
    BY <1>1
  <2>5. ASSUME NEW i \in 0 .. (N - 1), i \in S PROVE i + 1 \in S
    <3>1. i + 1 \in 1 .. N /\ i + 1 \in 0 .. N /\ (i + 1) - 1 = i /\ (i # 0 => i + 1 # 1) /\ (i = 0 => i + 1 = 1)
      BY <1>1
    <3>2. i # 0 => f[i] = g[i]
      BY <2>5
    <3>3. f[i + 1] = g[i + 1]
      BY ONLY <2>3, <3>1, <3>2
    <3> QED
      BY <3>1, <3>3
  <2>6. N \in S
    <3> HIDE DEF S
    <3>1. \A i \in 0 .. (N - 1) : i \in S => i + 1 \in S
      BY <2>5
    <3>2. N \in 0 .. N
      BY <1>1
    <3> QED
      BY ONLY <1>1, <2>4, <3>1, <3>2, Joining!Upto
  <2>7. f[N] = g[N]
    BY <1>7, <2>6
  <2>8. g[N] = [k \in 1 .. b[N] |-> k]
    BY <1>1, <1>7 DEF g, upto
  <2> QED
    BY <2>2, <2>7, <2>8, SMTT(30)
<1> QED
  BY <1>6, <1>7

-----------------------------------------------------------------------------
(* More pieces of the same stream: what was made of the first ones stays.  *)
Grows(all, more) == Len(all) <= Len(more) /\ \A i \in 1 .. Len(all) : more[i] = all[i]

DatedBy(all, cap) == \A i \in DOMAIN all : all[i].time <= cap

(* The words already made are still made of the same pieces.               *)
LEMMA SplitStays ==
  ASSUME NEW all, Numbered(all), NEW more, Numbered(more), Grows(all, more),
         NEW ws, NEW rest, Split(all, Len(all), ws, rest)
  PROVE  Split(more, Len(all), ws, rest)
<1> DEFINE n == Len(all)
           m == Len(ws)
<1>1. PICK b : SplitAt(all, n, ws, rest, b)
  BY DEF Split
<1>2. /\ ws \in Seq(Sherpa!Word) /\ m \in Nat /\ n \in Nat
      /\ all \in Seq(Sherpa!Piece) /\ more \in Seq(Sherpa!Piece)
      /\ Len(more) \in Nat /\ n <= Len(more)
      /\ \A i \in 1 .. n : more[i] = all[i]
  BY DEF Split, Numbered, Grows
<1>3. /\ b \in [0 .. m -> 0 .. n] /\ b[0] = 0
      /\ \A i, j \in 0 .. m : i < j => b[i] < b[j]
      /\ \A i \in 1 .. m : Made(all, b[i - 1], b[i], ws[i]) /\ b[i] < n
                             /\ ws[i].end <= all[b[i] + 1].time
      /\ rest = SubSeq(all, b[m] + 1, n)
      /\ n > 0 => b[m] < n
  BY <1>1 DEF SplitAt
<1>4. ASSUME NEW i \in 1 .. m
      PROVE  Made(more, b[i - 1], b[i], ws[i]) /\ b[i] < n /\ ws[i].end <= more[b[i] + 1].time
  <2>1. i - 1 \in 0 .. m /\ i \in 0 .. m /\ i - 1 < i
    BY <1>2
  <2>2. b[i - 1] \in 0 .. n /\ b[i] \in 0 .. n /\ b[i - 1] < b[i]
    BY ONLY <1>3, <2>1
  <2>3. b[i - 1] + 1 \in 1 .. n /\ b[i] + 1 \in 1 .. n
    BY <1>2, <1>3, <2>2
  <2>4. more[b[i - 1] + 1] = all[b[i - 1] + 1] /\ more[b[i] + 1] = all[b[i] + 1]
    BY ONLY <1>2, <2>3
  <2>5. Made(all, b[i - 1], b[i], ws[i]) /\ b[i] < n /\ ws[i].end <= all[b[i] + 1].time
    BY <1>3
  <2> QED
    BY ONLY <2>4, <2>5 DEF Made
<1>5. rest = SubSeq(more, b[m] + 1, n)
  <2>1. PICK lo \in 0 .. n : lo = b[m]
    BY <1>2, <1>3
  <2> DEFINE u == SubSeq(all, lo + 1, n)
             v == SubSeq(more, lo + 1, n)
             L == IF lo + 1 <= n THEN n - (lo + 1) + 1 ELSE 0
  <2>2. \A i \in (lo + 1) .. n : all[i] \in Sherpa!Piece /\ more[i] \in Sherpa!Piece /\ more[i] = all[i]
    BY <1>2, <2>1
  <2>3. /\ lo + 1 \in Int /\ n \in Int
        /\ \A i \in (lo + 1) .. n : all[i] \in Sherpa!Piece
        /\ \A i \in (lo + 1) .. n : more[i] \in Sherpa!Piece
    BY ONLY <1>2, <2>1, <2>2
  <2>4. /\ u \in Seq(Sherpa!Piece) /\ Len(u) = L
        /\ \A i \in 1 .. n - (lo + 1) + 1 : u[i] = all[(lo + 1) + i - 1]
    <3>1. lo + 1 \in Int /\ n \in Int /\ \A i \in (lo + 1) .. n : all[i] \in Sherpa!Piece
      BY ONLY <2>3
    <3> QED
      BY ONLY <3>1, SubSeqProperties
  <2>5. /\ v \in Seq(Sherpa!Piece) /\ Len(v) = L
        /\ \A i \in 1 .. n - (lo + 1) + 1 : v[i] = more[(lo + 1) + i - 1]
    <3>1. lo + 1 \in Int /\ n \in Int /\ \A i \in (lo + 1) .. n : more[i] \in Sherpa!Piece
      BY ONLY <2>3
    <3> QED
      BY ONLY <3>1, SubSeqProperties
  <2>6. \A i \in 1 .. L : u[i] = v[i]
    <3> SUFFICES ASSUME NEW i \in 1 .. L PROVE u[i] = v[i]
      OBVIOUS
    <3>1. i \in 1 .. n - (lo + 1) + 1 /\ (lo + 1) + i - 1 \in (lo + 1) .. n
      BY <1>2, <2>1, SMTT(30)
    <3> HIDE DEF u, v, L
    <3> QED
      BY ONLY <2>2, <2>4, <2>5, <3>1
  <2>7. u = v
    <3> HIDE DEF u, v, L
    <3> QED
      BY ONLY <2>4, <2>5, <2>6, SeqEqual
  <2> QED
    BY <1>3, <2>1, <2>7
<1>6. SplitAt(more, n, ws, rest, b)
  BY ONLY <1>3, <1>4, <1>5 DEF SplitAt
<1> QED
  BY <1>2, <1>6 DEF Split

(* The recognizer decodes n more pieces, by `fed`.                         *)
Decoded(all, n, times, opens) ==
  all \o [i \in 1 .. n |-> [id |-> Len(all) + i, time |-> times[i], opens |-> opens[i]]]

LEMMA Decoding ==
  ASSUME NEW all, Numbered(all), DatedInOrder(all), NEW fed \in Nat, DatedBy(all, fed),
         NEW n \in Nat, NEW low,
         low = IF all = << >> THEN 0 ELSE Sherpa!Last(all).time,
         NEW times \in [1 .. n -> low .. fed], NEW opens \in [1 .. n -> BOOLEAN],
         \A i \in 2 .. n : times[i - 1] <= times[i],
         NEW more, more = Decoded(all, n, times, opens)
  PROVE  /\ Numbered(more) /\ DatedInOrder(more) /\ DatedBy(more, fed) /\ Grows(all, more)
         /\ Len(more) = Len(all) + n
<1> DEFINE L == Len(all)
           new == [i \in 1 .. n |-> [id |-> L + i, time |-> times[i], opens |-> opens[i]]]
<1>1. all \in Seq(Sherpa!Piece) /\ L \in Nat /\ \A i \in 1 .. L : all[i] \in Sherpa!Piece /\ all[i].id = i
  BY DEF Numbered
<1>2. \A i \in 1 .. L : all[i].time \in Nat /\ all[i].time <= fed
  BY <1>1 DEF Sherpa!Piece, DatedBy
<1>3. low \in Nat /\ \A i \in 1 .. L : all[i].time <= low
  <2>1. CASE all = << >>
    BY <1>1, <2>1
  <2>2. CASE all # << >>
    <3>1. L \in 1 .. L
      BY <1>1, <2>2
    <3>2. low = all[L].time
      BY <2>2 DEF Sherpa!Last
    <3>3. \A i \in 1 .. L : i <= L /\ i \in DOMAIN all
      BY <1>1
    <3> QED
      BY <1>2, <3>1, <3>2, <3>3 DEF DatedInOrder
  <2> QED
    BY <2>1, <2>2
<1>4. \A i \in 1 .. n : times[i] \in Nat /\ low <= times[i] /\ times[i] <= fed
  BY <1>3
<1>5. \A i, j \in 1 .. n : i <= j => times[i] <= times[j]
  <2> SUFFICES ASSUME NEW i \in 1 .. n PROVE \A j \in 1 .. n : i <= j => times[i] <= times[j]
    OBVIOUS
  <2> DEFINE S == {j \in 0 .. n : i <= j => times[i] <= times[j]}
  <2>1. 0 \in S
    BY <1>4
  <2>2. ASSUME NEW j \in 0 .. (n - 1), j \in S PROVE j + 1 \in S
    <3>1. j + 1 \in 1 .. n /\ j + 1 \in 0 .. n /\ (j + 1) - 1 = j
      BY <2>2
    <3>2. CASE i = j + 1
      BY <1>4, <3>1, <3>2
    <3>3. CASE i <= j
      <4>1. j \in 1 .. n /\ j + 1 \in 2 .. n /\ times[i] <= times[j]
        BY <2>2, <3>3
      <4>2. times[j] <= times[j + 1]
        BY <3>1, <4>1
      <4>3. times[i] <= times[j + 1]
        BY ONLY <1>4, <3>1, <4>1, <4>2, i \in 1 .. n
      <4> QED
        BY <3>1, <4>3
    <3>4. CASE j + 1 < i
      BY <3>1, <3>4
    <3> QED
      BY <2>2, <3>2, <3>3, <3>4
  <2> HIDE DEF S
  <2>3. \A j \in 0 .. (n - 1) : j \in S => j + 1 \in S
    BY <2>2
  <2>4. \A j \in 0 .. n : j \in S
    BY ONLY <2>1, <2>3, n \in Nat, Joining!Upto
  <2> QED
    BY <2>4 DEF S
<1>6. new \in Seq(Sherpa!Piece) /\ Len(new) = n
  <2>1. new \in [1 .. n -> Sherpa!Piece]
    <3>1. ASSUME NEW i \in 1 .. n
          PROVE  [id |-> L + i, time |-> times[i], opens |-> opens[i]] \in Sherpa!Piece
      <4>1. L + i \in Nat /\ times[i] \in Nat /\ opens[i] \in BOOLEAN
        BY <1>1, <1>4
      <4> QED
        BY ONLY <4>1 DEF Sherpa!Piece
    <3> HIDE DEF L
    <3> QED
      BY <3>1
  <2> HIDE DEF new
  <2> QED
    BY ONLY <2>1, n \in Nat, SeqDef
<1>7. /\ \A i \in 1 .. n : new[i].id = L + i /\ new[i].time = times[i]
  OBVIOUS
<1>8. more = all \o new
  BY DEF Decoded
<1> HIDE DEF new
<1>9. /\ more \in Seq(Sherpa!Piece) /\ Len(more) = L + n
      /\ \A i \in 1 .. (L + n) : more[i] = IF i <= L THEN all[i] ELSE new[i - L]
  BY ONLY <1>1, <1>6, <1>8, ConcatProperties
<1>10. ASSUME NEW i \in 1 .. (L + n), ~ (i <= L)
       PROVE  i - L \in 1 .. n /\ more[i].id = i /\ more[i].time = times[i - L]
  <2>1. i - L \in 1 .. n /\ L + (i - L) = i
    BY <1>1, <1>10
  <2> HIDE DEF L
  <2> QED
    BY ONLY <1>7, <1>9, <1>10, <2>1
<1>11. \A i \in 1 .. (L + n) : i <= L => i \in 1 .. L /\ more[i] = all[i]
  BY <1>1, <1>9
<1>12. DOMAIN more = 1 .. (L + n)
  BY <1>9
<1> HIDE DEF L
<1>13. Numbered(more)
  BY ONLY <1>1, <1>9, <1>10, <1>11, <1>12 DEF Numbered
<1>14. DatedBy(more, fed)
  BY ONLY <1>2, <1>4, <1>10, <1>11, <1>12 DEF DatedBy
<1>15. DatedInOrder(more)
  <2> SUFFICES ASSUME NEW i \in 1 .. (L + n), NEW j \in 1 .. (L + n), i <= j
               PROVE  more[i].time <= more[j].time
    BY <1>12 DEF DatedInOrder
  <2>1. CASE j <= L
    <3>1. i <= L
      BY <1>1, <2>1
    <3>2. i \in DOMAIN all /\ j \in DOMAIN all
      BY <1>1, <1>11, <2>1, <3>1 DEF L
    <3> QED
      BY <1>11, <2>1, <3>1, <3>2 DEF DatedInOrder
  <2>2. CASE ~ (j <= L) /\ i <= L
    <3>1. more[i].time \in Nat /\ more[i].time <= low
      BY <1>2, <1>3, <1>11, <2>2
    <3>2. low <= more[j].time /\ more[j].time \in Nat
      BY <1>4, <1>10, <2>2
    <3> QED
      BY <1>3, <3>1, <3>2
  <2>3. CASE ~ (i <= L)
    <3>1. ~ (j <= L) /\ i - L <= j - L
      BY <1>1, <2>3
    <3> QED
      BY <1>5, <1>10, <2>3, <3>1
  <2> QED
    BY <2>1, <2>2, <2>3
<1>16. Grows(all, more)
  <2>1. Len(all) = L /\ L <= L + n /\ \A i \in 1 .. L : i \in 1 .. (L + n) /\ i <= L
    BY <1>1 DEF L
  <2> QED
    BY ONLY <1>9, <1>11, <2>1 DEF Grows
<1> QED
  BY <1>9, <1>13, <1>14, <1>15, <1>16 DEF L

-----------------------------------------------------------------------------
(* One Absorb: every new piece is in a word, and the old ones stay.        *)
Keeping(old, new) ==
  LET m == Len(old.words)
  IN  /\ m <= Len(new.words)
      /\ \A i \in 1 .. m : new.words[i] = old.words[i]
      /\ old.pending # << >> =>
           /\ new.pending # << >>
           /\ IF Len(new.words) = m THEN new.pending[1] = old.pending[1]
              ELSE new.words[m + 1].start = old.pending[1].time

Now == [words |-> words, pending |-> pending]

(* _drain and _hypothesis, after the recognizer has decoded more.          *)
LEMMA Absorbing ==
  ASSUME Sherpa!EngineAssumption, Numbered(decoded), Numbered(decoded'), DatedInOrder(decoded'),
         Grows(decoded, decoded'), Split(decoded, Len(decoded), words, pending),
         seen = Len(decoded), NEW final, Sherpa!Absorb(final)
  PROVE  /\ seen' = Len(decoded') /\ Split(decoded', Len(decoded'), words', pending')
         /\ said' = Sherpa!Hypothesis(Now', at', final)
         /\ Keeping(Now, Now')
<1> DEFINE new == SubSeq(decoded', seen + 1, Len(decoded'))
           state == Sherpa!FoldLeft(Sherpa!Joined, Now, new)
           p == [fresh |-> new, all |-> decoded', from |-> seen, words |-> words, pending |-> pending]
           L == Len(decoded') - seen
<1>1. /\ decoded' \in Seq(Sherpa!Piece) /\ Len(decoded') \in Nat /\ seen \in Nat
      /\ L \in Nat /\ seen + L = Len(decoded')
      /\ words \in Seq(Sherpa!Word) /\ Len(words) \in Nat
  BY DEF Numbered, Grows, Split
<1>2. /\ seen' = Len(decoded') /\ words' = state.words /\ pending' = state.pending
      /\ said' = Sherpa!Hypothesis(state, at', final)
  BY DEF Sherpa!Absorb, Sherpa!Drained, Now
<1>3. /\ DOMAIN new = 1 .. L
      /\ \A k \in 1 .. L : new[k] = decoded'[seen + k] /\ seen + k \in 1 .. Len(decoded')
  <2> DEFINE lo == seen + 1
             hi == Len(decoded')
  <2>1. lo \in Int /\ hi \in Int /\ \A i \in lo .. hi : decoded'[i] \in Sherpa!Piece
    BY <1>1
  <2> HIDE DEF lo, hi
  <2>2. /\ SubSeq(decoded', lo, hi) \in Seq(Sherpa!Piece)
        /\ Len(SubSeq(decoded', lo, hi)) = IF lo <= hi THEN hi - lo + 1 ELSE 0
        /\ \A i \in 1 .. hi - lo + 1 : SubSeq(decoded', lo, hi)[i] = decoded'[lo + i - 1]
    BY ONLY <2>1, SubSeqProperties
  <2>3. hi - lo + 1 = L /\ (IF lo <= hi THEN hi - lo + 1 ELSE 0) = L
    <3>1. hi - lo + 1 = L
      BY <1>1 DEF lo, hi
    <3>2. L \in Nat /\ lo \in Int /\ hi \in Int
      BY <1>1 DEF lo, hi
    <3> HIDE DEF L
    <3> QED
      BY ONLY <3>1, <3>2
  <2>4. new = SubSeq(decoded', lo, hi)
    BY DEF lo, hi
  <2> HIDE DEF new
  <2>5. DOMAIN new = 1 .. L
    BY ONLY <2>2, <2>3, <2>4
  <2>6. \A k \in 1 .. L : lo + k - 1 = seen + k /\ seen + k \in 1 .. Len(decoded')
    BY <1>1 DEF lo
  <2> QED
    BY ONLY <2>2, <2>3, <2>4, <2>5, <2>6
<1> HIDE DEF new, L
<1>4. Absorbs(p)
  BY <1>1, <1>3 DEF Absorbs
<1>5. JoinedTo(p, 0, Now)
  <2>1. Split(decoded', Len(decoded), words, pending)
    BY SplitStays
  <2>2. p.all = decoded' /\ p.from + 0 = Len(decoded) /\ p.words = words /\ p.pending = pending
    BY <1>1
  <2>3. Now.words = words /\ Now.pending = pending /\ Now = [words |-> Now.words, pending |-> Now.pending]
    BY DEF Now
  <2> HIDE DEF p
  <2>4. Goes(p, Now)
    BY ONLY <1>1, <2>2, <2>3 DEF Goes
  <2> QED
    BY ONLY <2>1, <2>2, <2>3, <2>4 DEF JoinedTo
<1>6. JoinedTo(p, L, state)
  <2>1. DOMAIN p.fresh = 1 .. L /\ state = Sherpa!FoldLeft(Sherpa!Joined, Now, p.fresh)
    BY <1>3
  <2> HIDE DEF p, state
  <2> QED
    BY ONLY Sherpa!EngineAssumption, <1>1, <1>4, <1>5, <2>1, JoinAll
<1>7. p.all = decoded' /\ p.from + L = Len(decoded') /\ p.words = words /\ p.pending = pending
  BY <1>1
<1> HIDE DEF p, state
<1>8. Now' = state
  BY ONLY <1>2, <1>6 DEF JoinedTo, Now
<1>9. Split(decoded', Len(decoded'), words', pending')
  BY ONLY <1>2, <1>6, <1>7 DEF JoinedTo
<1>10. Keeping(Now, Now')
  <2>1. Goes(p, state)
    BY <1>6 DEF JoinedTo
  <2>2. Now.words = words /\ Now.pending = pending
    BY DEF Now
  <2>3. Keeping(Now, state)
    BY ONLY <1>7, <2>1, <2>2 DEF Goes, Keeping
  <2> QED
    BY ONLY <1>8, <2>3
<1> QED
  BY ONLY <1>2, <1>8, <1>9, <1>10

(* The invariant of the engine.                                            *)
Fed == at + (IF ended THEN Padding ELSE 0)

SherpaInv ==
  /\ at \in Nat /\ ended \in BOOLEAN
  /\ Numbered(decoded) /\ DatedInOrder(decoded) /\ DatedBy(decoded, Fed)
  /\ seen = Len(decoded)
  /\ Split(decoded, Len(decoded), words, pending)
  /\ \E cap \in 0 .. at : said = Sherpa!Hypothesis(Now, cap, ended)

(* A push (final = FALSE) that decodes something, or a flush.              *)
LEMMA SherpaAbsorbs ==
  ASSUME Sherpa!EngineAssumption, SherpaInv, ~ ended, NEW n \in Nat, NEW final \in BOOLEAN,
         at' \in Nat, at <= at', ended' = final, Sherpa!Decodes(n, Fed'), Sherpa!Absorb(final)
  PROVE  SherpaInv' /\ Keeping(Now, Now') /\ Grows(decoded, decoded')
<1>1. at \in Nat /\ Padding \in Nat /\ Fed = at /\ Fed' \in Nat /\ Fed <= Fed'
  <2>1. at \in Nat /\ Padding \in Nat
    BY DEF SherpaInv, Sherpa!EngineAssumption
  <2>2. Fed = at
    BY ONLY <2>1, ~ ended DEF Fed
  <2>3. Fed' = at' \/ Fed' = at' + Padding
    <3>1. CASE ended'
      BY ONLY <2>1, at' \in Nat, <3>1 DEF Fed
    <3>2. CASE ~ ended'
      <4>1. Fed' = at' + 0
        BY ONLY <3>2 DEF Fed
      <4>2. PICK x \in Nat : x = at'
        OBVIOUS
      <4>3. x + 0 = x
        OBVIOUS
      <4>4. Fed' = at'
        BY ONLY <4>1, <4>2, <4>3
      <4> QED
        BY ONLY <4>4
    <3> QED
      BY ONLY <3>1, <3>2
  <2> QED
    BY ONLY <2>1, <2>2, <2>3, at' \in Nat, at <= at'
<1>2. DatedBy(decoded, Fed')
  <2>1. \A i \in DOMAIN decoded : decoded[i].time \in Nat /\ decoded[i].time <= Fed
    <3>1. \A i \in DOMAIN decoded : decoded[i] \in Sherpa!Piece
      BY DEF SherpaInv, Numbered
    <3>2. DatedBy(decoded, Fed)
      BY DEF SherpaInv
    <3> QED
      BY ONLY <3>1, <3>2 DEF DatedBy, Sherpa!Piece
  <2> QED
    BY <1>1, <2>1 DEF DatedBy
<1>3. Numbered(decoded) /\ DatedInOrder(decoded)
  BY DEF SherpaInv
<1>4. PICK times \in [1 .. n -> Sherpa!LastTime .. Fed'], opens \in [1 .. n -> BOOLEAN] :
        /\ \A i \in 2 .. n : times[i - 1] <= times[i]
        /\ decoded' = decoded \o [i \in 1 .. n |->
                        [id |-> Len(decoded) + i, time |-> times[i], opens |-> opens[i]]]
  BY DEF Sherpa!Decodes
<1>5. /\ Numbered(decoded') /\ DatedInOrder(decoded') /\ DatedBy(decoded', Fed')
      /\ Grows(decoded, decoded')
  <2>1. decoded' = Decoded(decoded, n, times, opens)
    BY <1>4 DEF Decoded
  <2>2. Sherpa!LastTime = IF decoded = << >> THEN 0 ELSE Sherpa!Last(decoded).time
    BY DEF Sherpa!LastTime
  <2>3. \A i \in 2 .. n : times[i - 1] <= times[i]
    BY <1>4
  <2> QED
    BY ONLY <1>1, <1>2, <1>3, <2>1, <2>2, <2>3, n \in Nat,
            times \in [1 .. n -> Sherpa!LastTime .. Fed'], opens \in [1 .. n -> BOOLEAN], Decoding
<1>6. /\ seen' = Len(decoded') /\ Split(decoded', Len(decoded'), words', pending')
      /\ said' = Sherpa!Hypothesis(Now', at', final)
      /\ Keeping(Now, Now')
  <2>1. seen = Len(decoded) /\ Split(decoded, Len(decoded), words, pending)
    BY DEF SherpaInv
  <2> QED
    BY <1>3, <1>5, <2>1, Absorbing
<1>7. \E cap \in 0 .. at' : said' = Sherpa!Hypothesis(Now', cap, ended')
  <2>1. at' \in 0 .. at'
    OBVIOUS
  <2> QED
    BY <1>6, <2>1
<1>8. ended' \in BOOLEAN
  OBVIOUS
<1> QED
  BY ONLY <1>5, <1>6, <1>7, <1>8, at' \in Nat DEF SherpaInv

-----------------------------------------------------------------------------
(* The words follow one another, and what dates them is the pieces.        *)
LEMMA SpokenFollows ==
  ASSUME NEW all, Numbered(all), DatedInOrder(all), NEW fed \in Nat, DatedBy(all, fed),
         NEW cap \in Nat, NEW heard, Spoken(all, heard, cap)
  PROVE  /\ Stream!Follow(heard)
         /\ \A i \in 1 .. Len(heard) :
              /\ heard[i].start \in Nat /\ heard[i].end \in Nat /\ heard[i].start <= fed
              /\ i = Len(heard) => heard[i].end <= cap \/ heard[i].end <= fed
              /\ i # Len(heard) => i + 1 \in 1 .. Len(heard) /\ heard[i].end <= heard[i + 1].start
<1> DEFINE L == Len(heard)
           n == Len(all)
<1>1. PICK b : CutAt(all, heard, cap, b)
  BY DEF Spoken
<1>2. /\ heard \in Seq(Sherpa!Word) /\ L \in Nat /\ n \in Nat /\ DOMAIN all = 1 .. n
      /\ DOMAIN heard = 1 .. L
      /\ \A i \in 1 .. n : all[i] \in Sherpa!Piece
  BY DEF Spoken, Numbered
<1>3. \A i \in 1 .. n : all[i].time \in Nat /\ all[i].time <= fed
  BY <1>2 DEF Sherpa!Piece, DatedBy
<1>4. /\ b \in [0 .. L -> 0 .. n]
      /\ \A i, j \in 0 .. L : i < j => b[i] < b[j]
      /\ \A i \in 1 .. L :
           /\ Made(all, b[i - 1], b[i], heard[i])
           /\ IF i = L THEN heard[i].end <= cap \/ heard[i].end <= heard[i].start
              ELSE heard[i].end <= all[b[i] + 1].time
  BY <1>1 DEF CutAt
<1>5. \A i, j \in 1 .. n : i <= j => all[i].time <= all[j].time
  BY <1>2 DEF DatedInOrder
<1> HIDE DEF L, n
<1>6. ASSUME NEW i \in 1 .. L
      PROVE  /\ b[i - 1] \in Nat /\ b[i - 1] + 1 \in 1 .. n
             /\ heard[i].start = all[b[i - 1] + 1].time
             /\ heard[i].start \in Nat /\ heard[i].end \in Nat
             /\ heard[i].start <= heard[i].end /\ heard[i].start <= fed
  <2>1. i - 1 \in 0 .. L /\ i \in 0 .. L /\ i - 1 < i
    BY <1>2
  <2>2. b[i - 1] \in 0 .. n /\ b[i] \in 0 .. n /\ b[i - 1] < b[i]
    BY ONLY <1>4, <2>1
  <2>3. b[i - 1] \in Nat /\ b[i - 1] + 1 \in 1 .. n
    BY ONLY <1>2, <2>2
  <2>4. /\ heard[i] \in Sherpa!Word /\ heard[i].start = all[b[i - 1] + 1].time
        /\ heard[i].start <= heard[i].end
    BY <1>4 DEF Made
  <2>5. heard[i].start \in Nat /\ heard[i].end \in Nat
    BY ONLY <2>4 DEF Sherpa!Word
  <2> QED
    BY ONLY <1>3, <2>3, <2>4, <2>5
<1>7. ASSUME NEW i \in 1 .. L, NEW j \in 1 .. L, i < j PROVE heard[i].end <= heard[j].start
  <2>1. i # L /\ i \in 0 .. L /\ j - 1 \in 0 .. L /\ (i < j - 1 \/ i = j - 1)
    BY <1>2, <1>7
  <2>2. heard[i].end <= all[b[i] + 1].time
    BY ONLY <1>4, <2>1, i \in 1 .. L
  <2>3. b[i] \in 0 .. n /\ b[j - 1] \in 0 .. n /\ b[i] <= b[j - 1]
    <3>1. b[i] \in 0 .. n /\ b[j - 1] \in 0 .. n
      BY ONLY <1>4, <2>1
    <3>2. b[i] < b[j - 1] \/ b[i] = b[j - 1]
      BY ONLY <1>4, <2>1
    <3> QED
      BY ONLY <1>2, <3>1, <3>2
  <2>4. b[j - 1] + 1 \in 1 .. n /\ heard[j].start = all[b[j - 1] + 1].time
    BY <1>6
  <2>5. b[i] + 1 \in 1 .. n /\ b[i] + 1 <= b[j - 1] + 1
    BY ONLY <1>2, <2>3, <2>4
  <2>6. all[b[i] + 1].time <= all[b[j - 1] + 1].time
    BY ONLY <1>5, <2>4, <2>5
  <2>7. heard[i].end \in Nat
    BY <1>6
  <2> QED
    BY ONLY <1>3, <2>2, <2>4, <2>5, <2>6, <2>7
<1>8. Stream!Follow(heard)
  <2> SUFFICES ASSUME NEW i \in 1 .. L, NEW j \in 1 .. L
      PROVE heard[i].start <= heard[i].end /\ (i < j => heard[i].end <= heard[j].start)
    BY <1>2 DEF Stream!Follow
  <2> QED
    BY <1>6, <1>7
<1>9. ASSUME NEW i \in 1 .. L
      PROVE  /\ i = L => heard[i].end <= cap \/ heard[i].end <= fed
             /\ i # L => i + 1 \in 1 .. L /\ heard[i].end <= heard[i + 1].start
  <2>1. CASE i = L
    <3>1. heard[i].end <= cap \/ heard[i].end <= heard[i].start
      BY <1>4, <2>1
    <3> QED
      BY <1>6, <2>1, <3>1
  <2>2. CASE i # L
    <3>1. i + 1 \in 1 .. L /\ i < i + 1
      BY <1>2, <2>2
    <3> QED
      BY <1>7, <2>2, <3>1
  <2> QED
    BY <2>1, <2>2
<1> QED
  BY <1>6, <1>8, <1>9 DEF L

(* The last word begins where the pending pieces begin.                    *)
LEMMA HeardIs ==
  ASSUME NEW all, Numbered(all), NEW ws, NEW rest, Split(all, Len(all), ws, rest),
         NEW cap, NEW heard, heard = ws \o LastWord(rest, cap)
  PROVE  /\ Len(ws) \in Nat
         /\ DOMAIN heard = 1 .. (Len(ws) + IF rest = << >> THEN 0 ELSE 1)
         /\ Len(heard) = Len(ws) + IF rest = << >> THEN 0 ELSE 1
         /\ \A i \in 1 .. Len(ws) : heard[i] = ws[i]
         /\ rest # << >> => heard[Len(ws) + 1].start = rest[1].time
<1>1. ws \in Seq(Sherpa!Word) /\ Len(ws) \in Nat
  BY DEF Split
<1>2. rest \in Seq(Sherpa!Piece)
  <2>1. PICK b : SplitAt(all, Len(all), ws, rest, b)
    BY DEF Split
  <2>2. PICK lo \in 0 .. Len(all) : rest = SubSeq(all, lo + 1, Len(all))
    <3>1. b[Len(ws)] \in 0 .. Len(all)
      BY <1>1, <2>1 DEF SplitAt
    <3> QED
      BY <2>1, <3>1 DEF SplitAt
  <2>3. lo + 1 \in Int /\ Len(all) \in Int /\ \A i \in (lo + 1) .. Len(all) : all[i] \in Sherpa!Piece
    BY DEF Numbered
  <2> QED
    BY ONLY <2>2, <2>3, SubSeqProperties
<1>3. CASE rest = << >>
  <2>1. heard = ws
    BY <1>1, <1>3, ConcatEmptySeq DEF LastWord
  <2> QED
    BY <1>1, <1>3, <2>1
<1>4. CASE rest # << >>
  <2>1. PICK w : w = Sherpa!Assembled(rest, cap)
    OBVIOUS
  <2>2. heard = ws \o <<w>>
    BY <1>4, <2>1 DEF LastWord
  <2>3. ws \in Seq(Sherpa!Word \cup {w}) /\ <<w>> \in Seq(Sherpa!Word \cup {w})
    BY <1>1
  <2>4. /\ heard \in Seq(Sherpa!Word \cup {w}) /\ Len(heard) = Len(ws) + 1
        /\ \A i \in 1 .. (Len(ws) + Len(<<w>>)) :
             heard[i] = IF i <= Len(ws) THEN ws[i] ELSE <<w>>[i - Len(ws)]
    BY ONLY <2>2, <2>3, ConcatProperties
  <2>5. DOMAIN heard = 1 .. (Len(ws) + 1)
    BY <2>4
  <2>6. \A i \in 1 .. Len(ws) : heard[i] = ws[i]
    <3>1. \A i \in 1 .. Len(ws) : i <= Len(ws) /\ i \in 1 .. (Len(ws) + Len(<<w>>))
      BY <1>1
    <3> QED
      BY ONLY <2>4, <3>1
  <2>7. heard[Len(ws) + 1] = w
    <3>1. PICK k : k = Len(ws) + 1
      OBVIOUS
    <3>2. k \in 1 .. (Len(ws) + Len(<<w>>)) /\ ~ (k <= Len(ws)) /\ k - Len(ws) = 1
      BY <1>1, <3>1
    <3>3. heard[k] = <<w>>[1]
      BY ONLY <2>4, <3>2
    <3> QED
      BY <3>1, <3>3
  <2>8. w.start = rest[1].time
    <3>1. w.start = Head(rest).time
      BY <2>1 DEF Sherpa!Assembled
    <3>2. Head(rest) = rest[1]
      BY <1>2, <1>4
    <3> QED
      BY <3>1, <3>2
  <2> QED
    BY <1>1, <1>4, <2>4, <2>5, <2>6, <2>7, <2>8
<1> QED
  BY <1>3, <1>4

(* In any state: what is heard, and what of it is stable.                  *)
Hearable(cap) ==
  /\ cap \in 0 .. at
  /\ Sherpa!Heard = words \o LastWord(pending, cap)
  /\ Spoken(decoded, Sherpa!Heard, cap)
  /\ said.stable = IF ended THEN Sherpa!Heard ELSE words
  /\ ended => said.tentative = << >>

(* ... whichever call it was that said it.                                 *)
IsHeard == \E cap : Hearable(cap)

LEMMA Hears == Sherpa!EngineAssumption /\ SherpaInv => IsHeard
<1> SUFFICES ASSUME Sherpa!EngineAssumption, SherpaInv PROVE \E cap : Hearable(cap)
  BY DEF IsHeard
<1>1. /\ Numbered(decoded) /\ Split(decoded, Len(decoded), words, pending)
      /\ at \in Nat /\ ended \in BOOLEAN
  BY DEF SherpaInv
<1>2. PICK cap \in 0 .. at : said = Sherpa!Hypothesis(Now, cap, ended)
  BY DEF SherpaInv
<1> DEFINE tail == LastWord(pending, cap)
           all == words \o tail
<1>3. Spoken(decoded, all, cap)
  <2>1. cap \in Nat
    BY <1>1
  <2> QED
    BY <1>1, <2>1, Speaks
<1>4. all \in Seq(Sherpa!Word)
  BY <1>3 DEF Spoken
<1>5. said = IF ended THEN [stable |-> all, tentative |-> << >>]
             ELSE [stable |-> words, tentative |-> tail]
  BY <1>2 DEF Sherpa!Hypothesis, Now, LastWord
<1> HIDE DEF tail
<1>6. CASE ended
  <2>1. said.stable = all /\ said.tentative = << >>
    BY <1>5, <1>6
  <2>2. all \o << >> = all
    <3> HIDE DEF all
    <3> QED
      BY ONLY <1>4, ConcatEmptySeq
  <2>3. Sherpa!Heard = all
    BY <2>1, <2>2 DEF Sherpa!Heard
  <2> QED
    BY <1>3, <1>6, <2>1, <2>3 DEF Hearable, tail
<1>7. CASE ~ ended
  <2>1. said.stable = words /\ said.tentative = tail
    BY <1>5, <1>7
  <2>2. Sherpa!Heard = all
    BY <2>1 DEF Sherpa!Heard
  <2> QED
    BY <1>3, <1>7, <2>1, <2>2 DEF Hearable, tail
<1> QED
  BY <1>1, <1>6, <1>7

(* Every piece decoded is in the hypothesis, once and in order.            *)
LEMMA SherpaSaysAll == Sherpa!EngineAssumption /\ SherpaInv => Sherpa!EveryPieceIsSaid
<1> SUFFICES ASSUME Sherpa!EngineAssumption, SherpaInv PROVE Sherpa!EveryPieceIsSaid
  OBVIOUS
<1>1. PICK cap : Hearable(cap)
  BY Hears DEF IsHeard
<1> DEFINE heard == Sherpa!Heard
           L == Len(heard)
           n == Len(decoded)
<1>2. PICK b : CutAt(decoded, heard, cap, b)
  BY <1>1 DEF Hearable, Spoken
<1>3. heard \in Seq(Sherpa!Word) /\ L \in Nat /\ DOMAIN heard = 1 .. L
  BY <1>1 DEF Hearable, Spoken
<1>4. n \in Nat /\ DOMAIN decoded = 1 .. n /\ \A i \in 1 .. n : decoded[i].id = i
  BY DEF SherpaInv, Numbered
<1>5. /\ b \in [0 .. L -> 0 .. n] /\ b[0] = 0 /\ b[L] = n
      /\ \A i, j \in 0 .. L : i < j => b[i] < b[j]
      /\ \A i \in 1 .. L : heard[i].ids = [j \in 1 .. (b[i] - b[i - 1]) |-> b[i - 1] + j]
  BY <1>2 DEF CutAt, Made
<1> HIDE DEF heard, L, n
<1>6. Boundaries(b, L)
  <2>1. \A i \in 1 .. L : i - 1 \in 0 .. L /\ i \in 0 .. L /\ i - 1 < i
    BY <1>3
  <2>2. b \in [0 .. L -> Nat]
    <3>1. \A x \in 0 .. n : x \in Nat
      BY <1>4
    <3> QED
      BY ONLY <1>5, <3>1
  <2> QED
    BY ONLY <1>3, <1>5, <2>1, <2>2 DEF Boundaries
<1>7. PICK seqs : seqs = [i \in DOMAIN heard |-> heard[i].ids]
  OBVIOUS
<1>8. seqs = Pieces(b, L)
  BY ONLY <1>3, <1>5, <1>7 DEF Pieces
<1>9. Sherpa!FlattenSeq(seqs) = [k \in 1 .. n |-> k]
  <2>1. Sherpa!FlattenSeq(seqs) = [k \in 1 .. b[L] |-> k]
    BY <1>6, <1>8, InOnePiece
  <2> QED
    BY <1>5, <2>1
<1>10. [i \in DOMAIN decoded |-> decoded[i].id] = [k \in 1 .. n |-> k]
  BY <1>4, SMTT(30)
<1> QED
  BY <1>7, <1>9, <1>10 DEF Sherpa!EveryPieceIsSaid, heard

(* No word ends after the audio, but for what flush dates in its padding.  *)
LEMMA SherpaEndsInTime == Sherpa!EngineAssumption /\ SherpaInv => Sherpa!EndsWithinTheAudio
<1> SUFFICES ASSUME Sherpa!EngineAssumption, SherpaInv PROVE Sherpa!EndsWithinTheAudio
  OBVIOUS
<1>1. PICK cap : Hearable(cap)
  BY Hears DEF IsHeard
<1>2. /\ at \in Nat /\ ended \in BOOLEAN /\ Padding \in Nat
      /\ Numbered(decoded) /\ DatedInOrder(decoded) /\ DatedBy(decoded, Fed)
  BY DEF SherpaInv, Sherpa!EngineAssumption
<1>3. Fed \in Nat /\ Fed <= at + Padding /\ at <= Fed /\ (~ ended => Fed = at)
  BY <1>2 DEF Fed
<1>4. cap \in Nat /\ cap <= at /\ Spoken(decoded, Sherpa!Heard, cap)
  BY <1>1, <1>2 DEF Hearable
<1>5. DOMAIN Sherpa!Heard = 1 .. Len(Sherpa!Heard) /\ Len(Sherpa!Heard) \in Nat
  BY <1>4 DEF Spoken
<1> DEFINE heard == Sherpa!Heard
           L == Len(heard)
<1>6. \A i \in 1 .. L :
        /\ heard[i].start \in Nat /\ heard[i].end \in Nat /\ heard[i].start <= Fed
        /\ i = L => heard[i].end <= cap \/ heard[i].end <= Fed
        /\ i # L => i + 1 \in 1 .. L /\ heard[i].end <= heard[i + 1].start
  BY ONLY <1>2, <1>3, <1>4, SpokenFollows
<1> HIDE DEF heard, L
<1>7. ASSUME NEW i \in 1 .. L
      PROVE  /\ heard[i].end > at => ended /\ (i = L \/ heard[i + 1].start > at)
             /\ heard[i].end <= at + Padding
  <2>1. CASE i = L
    BY ONLY <1>2, <1>3, <1>4, <1>6, <2>1, i \in 1 .. L
  <2>2. CASE i # L
    <3>1. /\ heard[i].end \in Nat /\ heard[i].end <= heard[i + 1].start
          /\ heard[i + 1].start \in Nat /\ heard[i + 1].start <= Fed
      BY ONLY <1>6, <2>2, i \in 1 .. L
    <3> QED
      BY ONLY <1>2, <1>3, <3>1
  <2> QED
    BY <2>1, <2>2
<1> QED
  BY <1>5, <1>7 DEF Sherpa!EndsWithinTheAudio, heard, L

-----------------------------------------------------------------------------
(* From one hypothesis to the next.                                        *)
LEMMA PrefixIs ==
  ASSUME NEW S, NEW s \in Seq(S), NEW t \in Seq(S), Len(s) <= Len(t),
         \A i \in 1 .. Len(s) : t[i] = s[i]
  PROVE  Stream!IsPrefix(s, t)
<1> DEFINE n == Len(s)
<1>1. n \in Nat /\ n <= Len(t) /\ Len(t) \in Nat
  OBVIOUS
<1>2. SubSeq(s, 1, n) = s
  BY SubSeqFull
<1>3. SubSeq(t, 1, n) = s
  <2>1. 1 \in Int /\ n \in Int /\ \A i \in 1 .. n : t[i] \in S
    BY <1>1
  <2> HIDE DEF n
  <2>2. /\ SubSeq(t, 1, n) \in Seq(S)
        /\ Len(SubSeq(t, 1, n)) = IF 1 <= n THEN n - 1 + 1 ELSE 0
        /\ \A i \in 1 .. n - 1 + 1 : SubSeq(t, 1, n)[i] = t[1 + i - 1]
    BY ONLY <2>1, SubSeqProperties
  <2>3. Len(SubSeq(t, 1, n)) = n
    BY ONLY <1>1, <2>2
  <2>4. \A i \in 1 .. n : i \in 1 .. n - 1 + 1 /\ 1 + i - 1 = i
    BY <1>1
  <2>5. \A i \in 1 .. n : SubSeq(t, 1, n)[i] = s[i]
    <3>1. \A i \in 1 .. n : t[i] = s[i]
      BY DEF n
    <3> QED
      BY ONLY <2>2, <2>4, <3>1
  <2>6. Len(s) = n
    BY DEF n
  <2> QED
    BY ONLY <2>2, <2>3, <2>5, <2>6, s \in Seq(S), SeqEqual
<1> QED
  BY <1>1, <1>2, <1>3 DEF Stream!IsPrefix

(* Keeping the words keeps the starts that have been said ...              *)
LEMMA KeptStarts ==
  ASSUME Sherpa!EngineAssumption, SherpaInv, SherpaInv', Keeping(Now, Now')
  PROVE  Sherpa!StartsKept
<1>1. PICK cap : Hearable(cap)
  BY Hears DEF IsHeard
<1>2. (Sherpa!EngineAssumption /\ SherpaInv => IsHeard)'
  BY Hears, PTL
<1>3. PICK cap2 : Hearable(cap2)'
  BY <1>2 DEF IsHeard
<1> DEFINE old == Sherpa!Heard
           new == Sherpa!Heard'
           m == Len(words)
<1>4. /\ m \in Nat
      /\ DOMAIN old = 1 .. (m + IF pending = << >> THEN 0 ELSE 1)
      /\ \A i \in 1 .. m : old[i] = words[i]
      /\ pending # << >> => old[m + 1].start = pending[1].time
  <2>1. Numbered(decoded) /\ Split(decoded, Len(decoded), words, pending)
    BY DEF SherpaInv
  <2>2. old = words \o LastWord(pending, cap)
    BY <1>1 DEF Hearable
  <2> HIDE DEF old
  <2> QED
    BY <2>1, <2>2, HeardIs
<1>5. /\ Len(words') \in Nat
      /\ DOMAIN new = 1 .. (Len(words') + IF pending' = << >> THEN 0 ELSE 1)
      /\ \A i \in 1 .. Len(words') : new[i] = words'[i]
      /\ pending' # << >> => new[Len(words') + 1].start = pending'[1].time
  <2>1. Numbered(decoded') /\ Split(decoded', Len(decoded'), words', pending')
    BY DEF SherpaInv
  <2>2. new = words' \o LastWord(pending', cap2)
    BY <1>3 DEF Hearable
  <2> HIDE DEF new
  <2> QED
    BY <2>1, <2>2, HeardIs
<1>6. /\ m <= Len(words')
      /\ \A i \in 1 .. m : words'[i] = words[i]
      /\ pending # << >> =>
           /\ pending' # << >>
           /\ IF Len(words') = m THEN pending'[1] = pending[1]
              ELSE words'[m + 1].start = pending[1].time
  BY DEF Keeping, Now
<1> HIDE DEF old, new, m
<1>7. ASSUME NEW i \in DOMAIN old PROVE i \in DOMAIN new /\ new[i].start = old[i].start
  <2>1. CASE i \in 1 .. m
    <3>1. i \in 1 .. Len(words') /\ i \in DOMAIN new
      BY <1>4, <1>5, <1>6, <2>1
    <3> QED
      BY ONLY <1>4, <1>5, <1>6, <2>1, <3>1
  <2>2. CASE i \notin 1 .. m
    <3>1. i = m + 1 /\ pending # << >>
      BY <1>4, <2>2
    <3>2. CASE Len(words') = m
      <4>1. i \in DOMAIN new
        BY <1>5, <1>6, <3>1, <3>2
      <4>2. new[m + 1].start = pending'[1].time /\ pending'[1] = pending[1]
        BY ONLY <1>5, <1>6, <3>1, <3>2
      <4> QED
        BY ONLY <1>4, <3>1, <4>1, <4>2
    <3>3. CASE Len(words') # m
      <4>1. i \in 1 .. Len(words') /\ i \in DOMAIN new
        BY <1>4, <1>5, <1>6, <3>1, <3>3
      <4>2. new[i] = words'[m + 1] /\ words'[m + 1].start = pending[1].time
        BY ONLY <1>5, <1>6, <3>1, <3>3, <4>1
      <4> QED
        BY ONLY <1>4, <3>1, <4>1, <4>2
    <3> QED
      BY <3>2, <3>3
  <2> QED
    BY <2>1, <2>2
<1> QED
  BY <1>7 DEF Sherpa!StartsKept, old, new

(* What HypothesisStream asks of the words last returned.                  *)
LEMMA SaidFollows ==
  Sherpa!EngineAssumption /\ SherpaInv =>
    /\ Stream!Follow(Stream!Words(said))
    /\ ended => said.tentative = << >>
    /\ ~ ended => \A i \in DOMAIN Stream!Words(said) : Stream!Words(said)[i].end <= at
<1> SUFFICES ASSUME Sherpa!EngineAssumption, SherpaInv
             PROVE  /\ Stream!Follow(Stream!Words(said))
                    /\ ended => said.tentative = << >>
                    /\ ~ ended => \A i \in DOMAIN Stream!Words(said) : Stream!Words(said)[i].end <= at
  OBVIOUS
<1>1. PICK cap : Hearable(cap)
  BY Hears DEF IsHeard
<1>2. Stream!Words(said) = Sherpa!Heard
  BY DEF Stream!Words, Sherpa!Heard
<1>3. /\ at \in Nat /\ ended \in BOOLEAN /\ Padding \in Nat
      /\ Numbered(decoded) /\ DatedInOrder(decoded) /\ DatedBy(decoded, Fed)
  BY DEF SherpaInv, Sherpa!EngineAssumption
<1>4. Fed \in Nat /\ (~ ended => Fed = at)
  BY <1>3 DEF Fed
<1>5. cap \in Nat /\ cap <= at /\ Spoken(decoded, Sherpa!Heard, cap)
  BY <1>1, <1>3 DEF Hearable
<1>6. /\ Stream!Follow(Sherpa!Heard)
      /\ \A i \in 1 .. Len(Sherpa!Heard) :
           /\ Sherpa!Heard[i].start \in Nat /\ Sherpa!Heard[i].end \in Nat
           /\ Sherpa!Heard[i].start <= Fed
           /\ i = Len(Sherpa!Heard) => Sherpa!Heard[i].end <= cap \/ Sherpa!Heard[i].end <= Fed
           /\ i # Len(Sherpa!Heard) =>
                i + 1 \in 1 .. Len(Sherpa!Heard) /\ Sherpa!Heard[i].end <= Sherpa!Heard[i + 1].start
  BY ONLY <1>3, <1>4, <1>5, SpokenFollows
<1>7. DOMAIN Sherpa!Heard = 1 .. Len(Sherpa!Heard)
  BY <1>5 DEF Spoken
<1> DEFINE heard == Sherpa!Heard
<1> HIDE DEF heard
<1>8. ASSUME ~ ended, NEW i \in DOMAIN heard PROVE heard[i].end <= at
  <2>1. i \in 1 .. Len(heard)
    BY <1>7 DEF heard
  <2>2. /\ heard[i].start \in Nat /\ heard[i].end \in Nat
        /\ i = Len(heard) => heard[i].end <= cap \/ heard[i].end <= Fed
        /\ i # Len(heard) => i + 1 \in 1 .. Len(heard) /\ heard[i].end <= heard[i + 1].start
    BY <1>6, <2>1 DEF heard
  <2>3. \A j \in 1 .. Len(heard) : heard[j].start \in Nat /\ heard[j].start <= Fed
    BY <1>6 DEF heard
  <2> QED
    BY ONLY <1>3, <1>4, <1>5, <1>8, <2>2, <2>3
<1> QED
  BY <1>1, <1>2, <1>6, <1>8 DEF Hearable, heard

(* ... and it is an answer engines/base.py allows.                         *)
LEMMA KeptAnswers ==
  ASSUME Sherpa!EngineAssumption, SherpaInv, SherpaInv', Keeping(Now, Now'), ~ ended, at <= at'
  PROVE  Stream!Answer
<1>1. PICK cap : Hearable(cap)
  BY Hears DEF IsHeard
<1>2. (Sherpa!EngineAssumption /\ SherpaInv => IsHeard)'
  BY Hears, PTL
<1>3. PICK cap2 : Hearable(cap2)'
  BY <1>2 DEF IsHeard
<1>4. /\ words \in Seq(Sherpa!Word) /\ Len(words) \in Nat
      /\ Numbered(decoded') /\ Split(decoded', Len(decoded'), words', pending')
      /\ words' \in Seq(Sherpa!Word)
  BY DEF SherpaInv, Split
<1>5. Len(words) <= Len(words') /\ \A i \in 1 .. Len(words) : words'[i] = words[i]
  BY DEF Keeping, Now
<1>6. Stream!IsPrefix(said.stable, said'.stable)
  <2>1. said.stable = words
    BY <1>1 DEF Hearable
  <2>2. Stream!IsPrefix(words, words')
    BY ONLY <1>4, <1>5, PrefixIs
  <2>3. Stream!IsPrefix(words, Sherpa!Heard')
    <3> DEFINE new == Sherpa!Heard'
    <3>1. new = words' \o LastWord(pending', cap2) /\ new \in Seq(Sherpa!Word)
      BY <1>3 DEF Hearable, Spoken
    <3> HIDE DEF new
    <3>2. /\ Len(words') \in Nat
          /\ Len(new) = Len(words') + IF pending' = << >> THEN 0 ELSE 1
          /\ \A i \in 1 .. Len(words') : new[i] = words'[i]
      <4>1. Numbered(decoded') /\ Split(decoded', Len(decoded'), words', pending')
        BY <1>4
      <4>2. new = words' \o LastWord(pending', cap2)
        BY <3>1
      <4> QED
        BY <4>1, <4>2, HeardIs
    <3>3. Len(words) <= Len(new)
      BY <1>4, <1>5, <3>2
    <3>4. \A i \in 1 .. Len(words) : new[i] = words[i]
      <4>1. \A i \in 1 .. Len(words) : i \in 1 .. Len(words')
        BY <1>4, <1>5, <3>2
      <4> QED
        BY ONLY <1>5, <3>2, <4>1
    <3>5. Stream!IsPrefix(words, new)
      BY ONLY <1>4, <3>1, <3>3, <3>4, PrefixIs
    <3> QED
      BY <3>5 DEF new
  <2>4. said'.stable = Sherpa!Heard' \/ said'.stable = words'
    BY <1>3 DEF Hearable
  <2> QED
    BY <2>1, <2>2, <2>3, <2>4
<1>7. (Sherpa!EngineAssumption /\ SherpaInv =>
         /\ Stream!Follow(Stream!Words(said))
         /\ ended => said.tentative = << >>
         /\ ~ ended => \A i \in DOMAIN Stream!Words(said) : Stream!Words(said)[i].end <= at)'
  BY SaidFollows, PTL
<1> QED
  BY <1>6, <1>7 DEF Stream!Answer

-----------------------------------------------------------------------------
(* Before any audio nothing has been said.                                 *)
LEMMA NothingYet ==
  /\ Numbered(<< >>) /\ DatedInOrder(<< >>) /\ \A cap : DatedBy(<< >>, cap)
  /\ Split(<< >>, Len(<< >>), << >>, << >>)
  /\ Sherpa!Hypothesis([words |-> << >>, pending |-> << >>], 0, FALSE) = Sherpa!Silent
<1>1. Numbered(<< >>) /\ DatedInOrder(<< >>) /\ \A cap : DatedBy(<< >>, cap)
  BY DEF Numbered, DatedInOrder, DatedBy
<1>2. Split(<< >>, Len(<< >>), << >>, << >>)
  <2> DEFINE b == [i \in 0 .. 0 |-> 0]
             e == << >>
  <2>1. /\ Len(e) = 0 /\ e \in Seq(Sherpa!Word)
        /\ b \in [0 .. 0 -> 0 .. 0] /\ b[0] = 0
        /\ SubSeq(e, 1, 0) = e
    OBVIOUS
  <2> HIDE DEF b, e
  <2>2. SplitAt(e, Len(e), e, e, b)
    <3>1. \A i, j \in 0 .. 0 : ~ (i < j)
      OBVIOUS
    <3>2. 1 .. 0 = {} /\ 0 + 1 = 1 /\ ~ (0 > 0)
      OBVIOUS
    <3> QED
      BY ONLY <2>1, <3>1, <3>2 DEF SplitAt
  <2>3. Split(e, Len(e), e, e)
    BY ONLY <2>1, <2>2 DEF Split
  <2> QED
    BY <2>3 DEF e
<1>3. Sherpa!Hypothesis([words |-> << >>, pending |-> << >>], 0, FALSE) = Sherpa!Silent
  BY DEF Sherpa!Hypothesis, Sherpa!Silent
<1> QED
  BY <1>1, <1>2, <1>3

(* An engine that has just been made.                                      *)
LEMMA SherpaStart == Sherpa!Init => SherpaInv
<1> SUFFICES ASSUME Sherpa!Init PROVE SherpaInv
  OBVIOUS
<1>1. /\ decoded = << >> /\ seen = 0 /\ words = << >> /\ pending = << >>
      /\ at = 0 /\ said = Sherpa!Silent /\ ended = FALSE
  BY DEF Sherpa!Init
<1>2. 0 \in 0 .. at /\ at \in Nat /\ ended \in BOOLEAN /\ seen = Len(decoded)
  <2>1. 0 \in 0 .. 0 /\ 0 \in Nat /\ FALSE \in BOOLEAN /\ Len(<< >>) = 0
    OBVIOUS
  <2> QED
    BY ONLY <1>1, <2>1
<1>3. said = Sherpa!Hypothesis(Now, 0, ended)
  BY <1>1, NothingYet DEF Now
<1> QED
  BY ONLY <1>1, <1>2, <1>3, NothingYet DEF SherpaInv

(* push, which says nothing new when nothing was decoded.                  *)
LEMMA SherpaPush ==
  ASSUME Sherpa!EngineAssumption, SherpaInv, NEW d \in SherpaSteps, NEW n \in 0 .. MaxNew,
         Sherpa!Push(d, n)
  PROVE  SherpaInv' /\ Keeping(Now, Now') /\ ~ ended /\ at <= at'
<1>1. /\ at \in Nat /\ d \in Nat /\ n \in Nat /\ ~ ended /\ ended = FALSE /\ Padding \in Nat
  BY DEF SherpaInv, Sherpa!Push, Sherpa!EngineAssumption
<1>2. /\ at' = at + d /\ ended' = ended /\ Sherpa!Decodes(n, at')
      /\ IF n = 0 THEN UNCHANGED <<seen, words, pending, said>> ELSE Sherpa!Absorb(FALSE)
  BY DEF Sherpa!Push
<1>3. at' \in Nat /\ at <= at' /\ ended' = FALSE
  BY ONLY <1>1, <1>2
<1>4. Fed = at /\ Fed' = at'
  <2>1. Fed = at + 0 /\ Fed' = at' + 0
    BY ONLY <1>1, <1>3 DEF Fed
  <2>2. PICK x \in Nat, y \in Nat : x = at /\ y = at' /\ x + 0 = x /\ y + 0 = y
    BY ONLY <1>1, <1>3
  <2> QED
    BY ONLY <2>1, <2>2
<1>5. CASE n = 0
  <2>1. PICK times, opens :
          decoded' = decoded \o [i \in 1 .. n |->
                       [id |-> Len(decoded) + i, time |-> times[i], opens |-> opens[i]]]
    BY <1>2 DEF Sherpa!Decodes
  <2>2. decoded \in Seq(Sherpa!Piece) /\ DatedBy(decoded, at)
    BY <1>4 DEF SherpaInv, Numbered
  <2>3. decoded' = decoded
    <3>1. [i \in 1 .. n |-> [id |-> Len(decoded) + i, time |-> times[i], opens |-> opens[i]]] = << >>
      BY <1>5
    <3> QED
      BY ONLY <2>1, <2>2, <3>1, ConcatEmptySeq
  <2>4. DatedBy(decoded, at')
    <3>1. \A i \in DOMAIN decoded : decoded[i].time \in Nat /\ decoded[i].time <= at
      <4>1. \A i \in DOMAIN decoded : decoded[i] \in Sherpa!Piece
        BY <2>2
      <4> QED
        BY ONLY <2>2, <4>1 DEF DatedBy, Sherpa!Piece
    <3> QED
      BY ONLY <1>1, <1>3, <3>1 DEF DatedBy
  <2>5. PICK cap \in 0 .. at : said = Sherpa!Hypothesis(Now, cap, ended)
    BY DEF SherpaInv
  <2>6. Now' = Now /\ seen' = seen /\ said' = said /\ words' = words /\ pending' = pending
    BY <1>2, <1>5 DEF Now
  <2>7. cap \in 0 .. at' /\ said' = Sherpa!Hypothesis(Now', cap, ended')
    BY <1>1, <1>2, <1>3, <2>5, <2>6
  <2>8. SherpaInv'
    <3>1. Numbered(decoded) /\ DatedInOrder(decoded) /\ seen = Len(decoded)
          /\ Split(decoded, Len(decoded), words, pending)
      BY DEF SherpaInv
    <3>2. ended' \in BOOLEAN
      BY <1>3
    <3> QED
      BY ONLY <1>3, <1>4, <2>3, <2>4, <2>6, <2>7, <3>1, <3>2 DEF SherpaInv
  <2>9. Keeping(Now, Now')
    <3>1. Len(Now.words) \in Nat
      BY DEF Now, SherpaInv, Split
    <3> QED
      BY ONLY <2>6, <3>1 DEF Keeping
  <2> QED
    BY <1>1, <1>3, <2>8, <2>9
<1>6. CASE n # 0
  <2>1. Sherpa!Absorb(FALSE) /\ Sherpa!Decodes(n, Fed')
    BY <1>2, <1>4, <1>6
  <2>2. FALSE \in BOOLEAN
    OBVIOUS
  <2>3. SherpaInv' /\ Keeping(Now, Now')
    BY <1>1, <1>3, <2>1, <2>2, SherpaAbsorbs
  <2> QED
    BY <1>1, <1>3, <2>3
<1> QED
  BY <1>5, <1>6

(* flush, which dates its words in the padding.                            *)
LEMMA SherpaFlush ==
  ASSUME Sherpa!EngineAssumption, SherpaInv, NEW n \in 0 .. MaxNew, Sherpa!Flush(n)
  PROVE  SherpaInv' /\ Keeping(Now, Now') /\ ~ ended /\ at <= at'
<1>1. /\ at \in Nat /\ n \in Nat /\ ~ ended /\ Padding \in Nat
  BY DEF SherpaInv, Sherpa!Flush, Sherpa!EngineAssumption
<1>2. /\ at' = at /\ ended' = TRUE /\ Sherpa!Decodes(n, at + Padding) /\ Sherpa!Absorb(TRUE)
  BY DEF Sherpa!Flush
<1>3. at' \in Nat /\ at <= at' /\ TRUE \in BOOLEAN
  BY ONLY <1>1, <1>2
<1>4. Fed' = at + Padding
  BY ONLY <1>2 DEF Fed
<1>5. Sherpa!Decodes(n, Fed')
  BY ONLY <1>2, <1>4
<1>6. SherpaInv' /\ Keeping(Now, Now')
  BY <1>1, <1>2, <1>3, <1>5, SherpaAbsorbs
<1> QED
  BY <1>1, <1>3, <1>6

(* A new stream has no piece of the old one, so it has none to keep.       *)
LEMMA SherpaReset ==
  ASSUME Sherpa!EngineAssumption, SherpaInv, Sherpa!Reset
  PROVE  SherpaInv' /\ Sherpa!StartsKept /\ Stream!Restart
<1>1. /\ decoded' = << >> /\ seen' = 0 /\ words' = << >> /\ pending' = << >>
      /\ at' = 0 /\ said' = Sherpa!Silent /\ ended' = FALSE /\ ended
  BY DEF Sherpa!Reset
<1>2. 0 \in 0 .. at' /\ at' \in Nat /\ ended' \in BOOLEAN /\ seen' = Len(decoded')
  <2>1. 0 \in 0 .. 0 /\ 0 \in Nat /\ FALSE \in BOOLEAN /\ Len(<< >>) = 0
    OBVIOUS
  <2> QED
    BY ONLY <1>1, <2>1
<1>3. said' = Sherpa!Hypothesis(Now', 0, ended')
  BY <1>1, NothingYet DEF Now
<1>4. SherpaInv'
  BY ONLY <1>1, <1>2, <1>3, NothingYet DEF SherpaInv
<1>5. ASSUME Sherpa!IsPrefix(decoded, decoded') PROVE DOMAIN Sherpa!Heard = {}
  <2>1. Len(decoded) = 0
    <3>1. Len(decoded) <= 0 /\ Len(decoded) \in Nat
      BY <1>1, <1>5 DEF Sherpa!IsPrefix, SherpaInv, Numbered
    <3> QED
      BY <3>1
  <2>2. PICK cap : Hearable(cap)
    BY Hears DEF IsHeard
  <2> DEFINE heard == Sherpa!Heard
             L == Len(heard)
  <2>3. PICK b : CutAt(decoded, heard, cap, b)
    BY <2>2 DEF Hearable, Spoken
  <2>4. heard \in Seq(Sherpa!Word) /\ L \in Nat /\ DOMAIN heard = 1 .. L
    BY <2>2 DEF Hearable, Spoken
  <2>5. /\ b[0] = 0 /\ b[L] = 0
        /\ \A i, j \in 0 .. L : i < j => b[i] < b[j]
    BY <2>1, <2>3 DEF CutAt
  <2> HIDE DEF heard, L
  <2>6. L = 0
    <3> SUFFICES ASSUME L # 0 PROVE FALSE
      OBVIOUS
    <3>1. 0 \in 0 .. L /\ L \in 0 .. L /\ 0 < L
      BY <2>4
    <3>2. b[0] < b[L]
      BY ONLY <2>5, <3>1
    <3> QED
      BY ONLY <2>5, <3>2
  <2>7. DOMAIN heard = {}
    BY <2>4, <2>6
  <2> QED
    BY <2>7 DEF heard
<1>6. Sherpa!StartsKept
  BY <1>5 DEF Sherpa!StartsKept
<1>7. Stream!Restart
  BY <1>1 DEF Stream!Restart, Stream!Silent, Sherpa!Silent
<1> QED
  BY <1>4, <1>6, <1>7

(* Any step.                                                               *)
LEMMA SherpaStep ==
  ASSUME Sherpa!EngineAssumption, SherpaInv, Sherpa!Next \/ UNCHANGED Sherpa!vars
  PROVE  /\ SherpaInv'
         /\ Sherpa!StartsKept
         /\ Stream!Answer \/ Stream!Restart \/ UNCHANGED Stream!vars
<1>1. ASSUME SherpaInv', Keeping(Now, Now'), ~ ended, at <= at'
      PROVE  Sherpa!StartsKept /\ Stream!Answer
  BY <1>1, KeptStarts, KeptAnswers
<1>2. CASE UNCHANGED Sherpa!vars
  <2>1. UNCHANGED <<decoded, seen, words, pending, at, said, ended>>
    BY <1>2 DEF Sherpa!vars
  <2>2. Sherpa!StartsKept
    BY <2>1 DEF Sherpa!StartsKept, Sherpa!Heard
  <2>3. SherpaInv'
    BY <2>1 DEF SherpaInv, Fed, Now
  <2> QED
    BY <2>1, <2>2, <2>3 DEF Stream!vars
<1>3. CASE \E d \in SherpaSteps, n \in 0 .. MaxNew : Sherpa!Push(d, n)
  BY <1>1, <1>3, SherpaPush
<1>4. CASE \E n \in 0 .. MaxNew : Sherpa!Flush(n)
  BY <1>1, <1>4, SherpaFlush
<1>5. CASE Sherpa!Reset
  BY <1>5, SherpaReset
<1> QED
  BY <1>2, <1>3, <1>4, <1>5 DEF Sherpa!Next

(* As long as the device is the engine.                                    *)
SherpaHolds == device = "sherpa" => SherpaInv

(* In any session of that device, from its first state on.                 *)
LEMMA SherpaRuns ==
  /\ AdaptersInit => SherpaHolds
  /\ SherpaHolds /\ [AdaptersNext]_allVars =>
       /\ SherpaHolds'
       /\ device = "sherpa" =>
            /\ Sherpa!StartsKept
            /\ [Stream!Answer \/ Stream!Restart]_(Stream!vars)
<1>1. AdaptersInit => SherpaHolds
  BY SherpaStart DEF AdaptersInit, SherpaHolds
<1>2. ASSUME SherpaHolds, [AdaptersNext]_allVars, device = "sherpa"
      PROVE  Sherpa!Next \/ UNCHANGED Sherpa!vars
  BY <1>2 DEF AdaptersNext, allVars, sherpaVars, Sherpa!vars
<1>3. ASSUME SherpaHolds, [AdaptersNext]_allVars PROVE device' = device
  BY <1>3 DEF AdaptersNext, allVars
<1>4. ASSUME SherpaHolds, [AdaptersNext]_allVars, device = "sherpa"
      PROVE  /\ SherpaInv' /\ Sherpa!StartsKept
             /\ [Stream!Answer \/ Stream!Restart]_(Stream!vars)
  <2>1. SherpaInv
    BY <1>4 DEF SherpaHolds
  <2> QED
    BY <1>2, <1>4, <2>1, AdaptersAssumption, SherpaStep
<1> QED
  BY <1>1, <1>3, <1>4 DEF SherpaHolds

(* SherpaEngine: _drain loses no piece, takes none twice and keeps their   *)
(* order: the words of the hypothesis last returned are made of all that   *)
(* the recognizer has decoded, whatever begins a word and however the      *)
(* pieces came.                                                            *)
THEOREM SaysEveryPiece == AdaptersSpec => []EveryPieceIsSaid
<1>1. SherpaHolds => EveryPieceIsSaid
  BY AdaptersAssumption, SherpaSaysAll DEF SherpaHolds, EveryPieceIsSaid
<1> QED
  BY <1>1, SherpaRuns, PTL DEF AdaptersSpec

(* SherpaEngine: _assemble's estimate of an end claims no audio that has   *)
(* not arrived, but for what flush dates in its padding.                   *)
THEOREM EndsInTime == AdaptersSpec => []EndsWithinTheAudio
<1>1. SherpaHolds => EndsWithinTheAudio
  BY AdaptersAssumption, SherpaEndsInTime DEF SherpaHolds, EndsWithinTheAudio
<1> QED
  BY <1>1, SherpaRuns, PTL DEF AdaptersSpec

(* SherpaEngine: a word once tentative has the same start in every later   *)
(* hypothesis of the stream, in the same place.                            *)
THEOREM KeepsStarts == AdaptersSpec => StartsAreFinal
  BY SherpaRuns, PTL DEF AdaptersSpec, StartsAreFinal

-----------------------------------------------------------------------------
(* WhisperEngine.  Words that follow one another in the audio up to `now`.  *)
Timely(ws, now) ==
  /\ ws \in Seq(Whisper!Word)
  /\ Stream!Follow(ws)
  /\ \A n \in DOMAIN ws : ws[n].end <= now

LEMMA CardinalIs == ASSUME NEW S PROVE Whisper!Cardinality(S) = Cardinality(S)
  BY DEF Whisper!Cardinality, Cardinality

(* What follows one another is sorted.                                     *)
LEMMA SortedIs ==
  ASSUME NEW ws \in Seq(Whisper!Word), Stream!Follow(ws)
  PROVE  Whisper!Sorted(ws) = ws
<1> DEFINE L == Len(ws)
           notAfter(n) == {m \in DOMAIN ws :
                             \/ ws[m].start < ws[n].start
                             \/ (ws[m].start = ws[n].start /\ m <= n)}
<1>1. /\ L \in Nat /\ DOMAIN ws = 1 .. L
      /\ \A n \in 1 .. L : ws[n].start \in Nat /\ ws[n].end \in Nat
  <2>1. L \in Nat /\ DOMAIN ws = 1 .. L /\ \A n \in 1 .. L : ws[n] \in Whisper!Word
    OBVIOUS
  <2> QED
    BY <2>1 DEF Whisper!Word
<1>2. \A m, n \in 1 .. L : ws[m].start <= ws[m].end /\ (m < n => ws[m].end <= ws[n].start)
  BY <1>1 DEF Stream!Follow
<1> HIDE DEF L
<1>3. ASSUME NEW n \in 1 .. L PROVE notAfter(n) = 1 .. n
  <2>1. ASSUME NEW m \in 1 .. L PROVE m \in notAfter(n) <=> m <= n
    <3>1. ws[m].start <= ws[m].end /\ ws[n].start <= ws[n].end
          /\ (m < n => ws[m].end <= ws[n].start) /\ (n < m => ws[n].end <= ws[m].start)
      BY <1>2
    <3> QED
      BY <1>1, <3>1
  <2>2. \A m \in notAfter(n) : m \in 1 .. L
    BY <1>1
  <2> HIDE DEF notAfter
  <2>3. \A m : m \in notAfter(n) <=> m \in 1 .. L /\ m <= n
    BY ONLY <2>1, <2>2
  <2>4. \A m : m \in 1 .. n <=> m \in 1 .. L /\ m <= n
    BY <1>1
  <2> QED
    BY ONLY <2>3, <2>4
<1>4. ASSUME NEW n \in 1 .. L PROVE Whisper!Cardinality(notAfter(n)) = n
  <2>1. Cardinality(1 .. n) = n
    BY <1>1, FS_Interval
  <2> QED
    BY <1>3, <2>1, CardinalIs
<1>5. ASSUME NEW k \in 1 .. L
      PROVE  (CHOOSE n \in 1 .. L : Whisper!Cardinality(notAfter(n)) = k) = k
  <2>1. \A n \in 1 .. L : Whisper!Cardinality(notAfter(n)) = k <=> n = k
    BY <1>4
  <2> HIDE DEF notAfter
  <2> QED
    BY <2>1
<1>6. Whisper!Sorted(ws) = [k \in 1 .. L |->
         ws[CHOOSE n \in 1 .. L : Whisper!Cardinality(notAfter(n)) = k]]
  BY <1>1 DEF Whisper!Sorted
<1>7. Whisper!Sorted(ws) = [k \in 1 .. L |-> ws[k]]
  <2> HIDE DEF notAfter
  <2> QED
    BY <1>5, <1>6
<1> QED
  BY <1>1, <1>7
-----------------------------------------------------------------------------
(* A filter: `out` is p.base and, in order, the words of p.words up to the *)
(* k-th that are in p.take.                                                *)
Chooses(p, k, out, e) ==
  /\ Len(p.base) <= Len(out)
  /\ \A n \in 1 .. Len(p.base) : out[n] = p.base[n]
  /\ e \in [(Len(p.base) + 1) .. Len(out) -> 1 .. k]
  /\ \A m, n \in (Len(p.base) + 1) .. Len(out) : m < n => e[m] < e[n]
  /\ \A n \in (Len(p.base) + 1) .. Len(out) : e[n] \in p.take /\ out[n] = p.words[e[n]]
  /\ \A j \in 1 .. k : j \in p.take => \E n \in (Len(p.base) + 1) .. Len(out) : e[n] = j

ChosenTo(p, k, out) == out \in Seq(Whisper!Word) /\ \E e : Chooses(p, k, out, e)

Choosable(p) ==
  /\ p.base \in Seq(Whisper!Word)
  /\ p.words \in Seq(Whisper!Word)

ChosenAll(p, s, out) == \A k \in Nat : s = 1 .. k => ChosenTo(p, k, out)

ChooseOne(p, x, out) == IF x \in p.take THEN Append(out, p.words[x]) ELSE out

LEMMA ChooseNone == ASSUME NEW p, Choosable(p) PROVE ChosenTo(p, 0, p.base)
<1> DEFINE b == Len(p.base)
           e == [n \in (b + 1) .. b |-> 1]
<1>1. b \in Nat /\ p.base \in Seq(Whisper!Word)
  BY DEF Choosable
<1> HIDE DEF b
<1>2. (b + 1) .. b = {} /\ 1 .. 0 = {}
  BY <1>1
<1>3. e \in [(b + 1) .. b -> 1 .. 0]
  BY <1>2
<1> HIDE DEF e
<1>4. Chooses(p, 0, p.base, e)
  BY <1>1, <1>2, <1>3 DEF Chooses, b
<1> QED
  BY <1>1, <1>4 DEF ChosenTo

LEMMA ChooseNext ==
  ASSUME NEW p, Choosable(p), NEW k \in Nat \ {0}, k \in DOMAIN p.words,
         NEW out, ChosenTo(p, k - 1, out)
  PROVE  ChosenTo(p, k, ChooseOne(p, k, out))
<1> DEFINE b == Len(p.base)
           L == Len(out)
           w == p.words[k]
           more == Append(out, w)
<1>1. /\ out \in Seq(Whisper!Word) /\ b \in Nat /\ L \in Nat /\ w \in Whisper!Word
      /\ k - 1 \in Nat
  <2>1. p.base \in Seq(Whisper!Word) /\ p.words \in Seq(Whisper!Word)
    BY DEF Choosable
  <2> QED
    BY <2>1 DEF ChosenTo
<1>2. PICK e : Chooses(p, k - 1, out, e)
  BY DEF ChosenTo
<1>3. /\ b <= L /\ \A n \in 1 .. b : out[n] = p.base[n]
      /\ e \in [(b + 1) .. L -> 1 .. (k - 1)]
      /\ \A m, n \in (b + 1) .. L : m < n => e[m] < e[n]
      /\ \A n \in (b + 1) .. L : e[n] \in p.take /\ out[n] = p.words[e[n]]
      /\ \A j \in 1 .. (k - 1) : j \in p.take => \E n \in (b + 1) .. L : e[n] = j
  BY <1>2 DEF Chooses
<1>4. CASE k \notin p.take
  <2>1. ChooseOne(p, k, out) = out
    BY <1>4 DEF ChooseOne
  <2>2. e \in [(b + 1) .. L -> 1 .. k]
    <3>1. \A j \in 1 .. (k - 1) : j \in 1 .. k
      BY <1>1
    <3> QED
      BY <1>3, <3>1
  <2>3. \A j \in 1 .. k : j \in p.take => j \in 1 .. (k - 1)
    BY <1>1, <1>4
  <2>4. Chooses(p, k, out, e)
    BY <1>3, <2>2, <2>3 DEF Chooses
  <2> QED
    BY <1>1, <2>1, <2>4 DEF ChosenTo
<1>5. CASE k \in p.take
  <2> DEFINE f == [n \in (b + 1) .. (L + 1) |-> IF n = L + 1 THEN k ELSE e[n]]
  <2>1. ChooseOne(p, k, out) = more
    BY <1>5 DEF ChooseOne
  <2>2. /\ more \in Seq(Whisper!Word) /\ Len(more) = L + 1 /\ more[L + 1] = w
        /\ \A n \in 1 .. L : more[n] = out[n]
    BY <1>1
  <2> HIDE DEF more, L, b, w
  <2>3. /\ \A n \in 1 .. b : n \in 1 .. L
        /\ \A n \in (b + 1) .. (L + 1) : n = L + 1 \/ (n \in (b + 1) .. L /\ n \in 1 .. L /\ n # L + 1)
        /\ \A n \in (b + 1) .. L : n \in (b + 1) .. (L + 1) /\ n # L + 1
        /\ L + 1 \in (b + 1) .. (L + 1)
        /\ \A j \in 1 .. k : j = k \/ j \in 1 .. (k - 1)
        /\ k \in 1 .. k /\ \A j \in 1 .. (k - 1) : j \in 1 .. k /\ j < k
    BY <1>1, <1>3
  <2>4. f[L + 1] = k /\ \A n \in (b + 1) .. L : f[n] = e[n]
    BY <2>3
  <2>5. f \in [(b + 1) .. (L + 1) -> 1 .. k]
    BY <1>3, <2>3
  <2> HIDE DEF f
  <2>6. \A m, n \in (b + 1) .. (L + 1) : m < n => f[m] < f[n]
    <3> SUFFICES ASSUME NEW m \in (b + 1) .. (L + 1), NEW n \in (b + 1) .. (L + 1), m < n
        PROVE f[m] < f[n]
      OBVIOUS
    <3>1. m # L + 1 /\ m \in (b + 1) .. L
      BY <1>1, <2>3
    <3>2. f[m] = e[m] /\ e[m] < k /\ e[m] \in 1 .. (k - 1)
      BY <1>3, <2>3, <2>4, <3>1
    <3> QED
      BY <1>3, <2>3, <2>4, <3>1, <3>2
  <2>7. \A n \in (b + 1) .. (L + 1) : f[n] \in p.take /\ more[n] = p.words[f[n]]
    <3> SUFFICES ASSUME NEW n \in (b + 1) .. (L + 1)
        PROVE f[n] \in p.take /\ more[n] = p.words[f[n]]
      OBVIOUS
    <3>1. CASE n = L + 1
      BY <1>5, <2>2, <2>4, <3>1 DEF w
    <3>2. CASE n # L + 1
      BY <1>3, <2>2, <2>3, <2>4, <3>2
    <3> QED
      BY <3>1, <3>2
  <2>8. ASSUME NEW j \in 1 .. k, j \in p.take
        PROVE  \E n \in (b + 1) .. (L + 1) : f[n] = j
    <3>1. CASE j = k
      BY <2>3, <2>4, <3>1
    <3>2. CASE j # k
      <4>1. PICK n \in (b + 1) .. L : e[n] = j
        BY <1>3, <2>3, <2>8, <3>2
      <4> QED
        BY <2>3, <2>4, <4>1
    <3> QED
      BY <3>1, <3>2
  <2>9. \A n \in 1 .. b : more[n] = p.base[n]
    BY <1>3, <2>2, <2>3
  <2>10. b <= L + 1
    BY <1>1, <1>3
  <2>11. Chooses(p, k, more, f)
    BY <2>2, <2>5, <2>6, <2>7, <2>8, <2>9, <2>10 DEF Chooses, b
  <2> QED
    BY <2>1, <2>2, <2>11 DEF ChosenTo
<1> QED
  BY <1>4, <1>5

(* flush and _hypothesis take the words not behind `to` after p.base.      *)
Take(p, x, out) == Whisper!Kept(p.to, out, p.words[x])

Taking == INSTANCE Folding WITH Op <- Take, Pick <- Top, Keeps <- ChosenAll

LEMMA FiniteInTaking ==
  ASSUME NEW S, IsFiniteSet(S)
  PROVE  Taking!IsFiniteSet(S)
  BY DEF IsFiniteSet, Taking!IsFiniteSet

Takes(ws, to, base) ==
  [words |-> ws, to |-> to, base |-> base, take |-> {n \in DOMAIN ws : ws[n].start >= to}]

LEMMA TakenIs ==
  ASSUME NEW ws \in Seq(Whisper!Word), NEW to, NEW base \in Seq(Whisper!Word)
  PROVE  ChosenTo(Takes(ws, to, base), Len(ws), Whisper!Taken(ws, to, base))
<1> DEFINE p == Takes(ws, to, base)
           L == Len(ws)
<1>0. L \in Nat /\ DOMAIN ws = 1 .. L
  OBVIOUS
<1>1. p.words = ws /\ p.to = to /\ p.base = base /\ p.take = {n \in DOMAIN ws : ws[n].start >= to}
  BY DEF Takes
<1>2. Whisper!Taken(ws, to, base) = Taking!Fold(p, base, DOMAIN ws)
  <2>1. \A x, out : Take(p, x, out) = Whisper!Kept(to, out, ws[x])
    BY <1>1 DEF Take
  <2> HIDE DEF p
  <2> QED
    BY <1>1 DEF Whisper!Taken, Whisper!FoldLeft, Whisper!MapThenFoldSet, Whisper!Max, Max,
           Taking!Fold, Taking!Folds, Take, Top
<1> HIDE DEF p, L
<1>3. Choosable(p) /\ \A k \in 1 .. L : k \in DOMAIN p.words
  BY <1>0, <1>1 DEF Choosable
<1>4. ASSUME NEW k \in 1 .. L, NEW out PROVE Take(p, k, out) = ChooseOne(p, k, out)
  BY <1>0, <1>1 DEF Take, ChooseOne, Whisper!Kept
<1>5. ChosenAll(p, {}, base)
  <2>1. \A k \in Nat : {} = 1 .. k => k = 0
    OBVIOUS
  <2> QED
    BY <1>1, <1>3, <2>1, ChooseNone DEF ChosenAll
<1>6. ASSUME NEW acc, NEW s \in SUBSET (1 .. L), s # {}, ChosenAll(p, s \ {Top(s)}, acc)
      PROVE  ChosenAll(p, s, Take(p, Top(s), acc))
  <2> SUFFICES ASSUME NEW k \in Nat, s = 1 .. k PROVE ChosenTo(p, k, Take(p, Top(s), acc))
    BY DEF ChosenAll
  <2>1. k \in 1 .. k /\ k - 1 \in Nat /\ Top(s) = k /\ s \ {Top(s)} = 1 .. (k - 1)
    BY <1>6, TopOfMany
  <2>2. ChosenTo(p, k - 1, acc)
    BY <1>6, <2>1 DEF ChosenAll
  <2>3. k \in 1 .. L /\ k \in Nat \ {0}
    BY <1>6, <2>1
  <2>4. ChosenTo(p, k, ChooseOne(p, k, acc))
    BY <1>3, <2>2, <2>3, ChooseNext
  <2> QED
    BY <1>4, <2>1, <2>3, <2>4
<1>7. Taking!Picks(1 .. L)
  <2>1. Taking!IsFiniteSet(1 .. L)
    BY <1>0, FS_Interval, FiniteInTaking
  <2>2. \A s \in SUBSET (1 .. L) : s # {} => Top(s) \in s
    BY <1>0, TopIsIn
  <2> QED
    BY <2>1, <2>2 DEF Taking!Picks
<1>8. ChosenAll(p, 1 .. L, Taking!Fold(p, base, 1 .. L))
  <2>1. /\ Taking!Picks(1 .. L) /\ ChosenAll(p, {}, base)
        /\ \A acc : \A s \in SUBSET (1 .. L) :
             s # {} /\ ChosenAll(p, s \ {Top(s)}, acc) => ChosenAll(p, s, Take(p, Top(s), acc))
    BY <1>5, <1>6, <1>7
  <2> QED
    BY ONLY <2>1, Taking!FoldKeeps
<1> QED
  BY <1>0, <1>2, <1>8 DEF ChosenAll, p, L

(* _transcribe gives the words of the pass that the audio has room for.    *)
Time(p, x, out) == Whisper!Timed(p.now, out, p.pass[x])

Timing == INSTANCE Folding WITH Op <- Time, Pick <- Top, Keeps <- ChosenAll

LEMMA FiniteInTiming ==
  ASSUME NEW S, IsFiniteSet(S)
  PROVE  Timing!IsFiniteSet(S)
  BY DEF IsFiniteSet, Timing!IsFiniteSet

Capped(pass, now) == [n \in DOMAIN pass |-> [pass[n] EXCEPT !.end = Whisper!Least(@, now)]]

Times(pass, now) ==
  [pass |-> pass, now |-> now, base |-> << >>, words |-> Capped(pass, now),
   take |-> {n \in DOMAIN pass : pass[n].start <= Whisper!Least(pass[n].end, now)}]

LEMMA CappedIs ==
  ASSUME NEW pass \in Seq(Whisper!Word), NEW now \in Nat
  PROVE  /\ Capped(pass, now) \in Seq(Whisper!Word) /\ Len(Capped(pass, now)) = Len(pass)
         /\ DOMAIN Capped(pass, now) = 1 .. Len(pass)
         /\ \A n \in 1 .. Len(pass) :
              /\ Capped(pass, now)[n].text = pass[n].text
              /\ Capped(pass, now)[n].start = pass[n].start
              /\ Capped(pass, now)[n].end = Whisper!Least(pass[n].end, now)
<1> DEFINE L == Len(pass)
           c == Capped(pass, now)
<1>1. L \in Nat /\ DOMAIN pass = 1 .. L /\ \A n \in 1 .. L : pass[n] \in Whisper!Word
  OBVIOUS
<1>2. c = [n \in 1 .. L |-> [pass[n] EXCEPT !.end = Whisper!Least(@, now)]]
  BY <1>1 DEF Capped
<1> HIDE DEF c, L
<1>3. ASSUME NEW n \in 1 .. L
      PROVE  /\ c[n] \in Whisper!Word /\ c[n].text = pass[n].text
             /\ c[n].start = pass[n].start /\ c[n].end = Whisper!Least(pass[n].end, now)
  <2>1. c[n] = [pass[n] EXCEPT !.end = Whisper!Least(@, now)]
    BY <1>2
  <2>2. pass[n] \in Whisper!Word
    BY <1>1
  <2>3. Whisper!Least(pass[n].end, now) \in Nat
    BY <2>2 DEF Whisper!Word, Whisper!Least
  <2> QED
    BY ONLY <2>1, <2>2, <2>3 DEF Whisper!Word
<1>4. c \in [1 .. L -> Whisper!Word]
  BY <1>2, <1>3
<1>5. c \in Seq(Whisper!Word) /\ Len(c) = L
  BY <1>1, <1>4, SeqDef, SMTT(30)
<1> QED
  BY <1>2, <1>3, <1>5 DEF c, L

LEMMA TranscribedIs ==
  ASSUME NEW pass \in Seq(Whisper!Word), NEW now \in Nat
  PROVE  ChosenTo(Times(pass, now), Len(pass), Whisper!Transcribed(pass, now))
<1> DEFINE p == Times(pass, now)
           L == Len(pass)
<1>0. L \in Nat /\ DOMAIN pass = 1 .. L /\ \A n \in 1 .. L : pass[n] \in Whisper!Word
  OBVIOUS
<1>1. /\ p.pass = pass /\ p.now = now /\ p.base = << >> /\ p.words = Capped(pass, now)
      /\ p.take = {n \in DOMAIN pass : pass[n].start <= Whisper!Least(pass[n].end, now)}
  BY DEF Times
<1>2. Whisper!Transcribed(pass, now) = Timing!Fold(p, << >>, DOMAIN pass)
  <2> HIDE DEF p
  <2> QED
    BY <1>1 DEF Whisper!Transcribed, Whisper!FoldLeft, Whisper!MapThenFoldSet, Whisper!Max, Max,
           Timing!Fold, Timing!Folds, Time, Top
<1> HIDE DEF p, L
<1>3. Choosable(p) /\ \A k \in 1 .. L : k \in DOMAIN p.words
  BY <1>0, <1>1, CappedIs DEF Choosable, L
<1>4. ASSUME NEW k \in 1 .. L, NEW out PROVE Time(p, k, out) = ChooseOne(p, k, out)
  <2>1. pass[k] \in Whisper!Word /\ pass[k].start \in Nat /\ Whisper!Least(pass[k].end, now) \in Nat
    BY <1>0 DEF Whisper!Word, Whisper!Least
  <2>2. p.words[k] = [pass[k] EXCEPT !.end = Whisper!Least(@, now)]
    BY <1>0, <1>1 DEF Capped
  <2>3. k \in p.take <=> ~ (Whisper!Least(pass[k].end, now) < pass[k].start)
    BY <1>0, <1>1, <2>1
  <2> QED
    BY <1>1, <2>2, <2>3 DEF Time, ChooseOne, Whisper!Timed
<1>5. ChosenAll(p, {}, << >>)
  <2>1. \A k \in Nat : {} = 1 .. k => k = 0
    OBVIOUS
  <2> QED
    BY <1>1, <1>3, <2>1, ChooseNone DEF ChosenAll
<1>6. ASSUME NEW acc, NEW s \in SUBSET (1 .. L), s # {}, ChosenAll(p, s \ {Top(s)}, acc)
      PROVE  ChosenAll(p, s, Time(p, Top(s), acc))
  <2> SUFFICES ASSUME NEW k \in Nat, s = 1 .. k PROVE ChosenTo(p, k, Time(p, Top(s), acc))
    BY DEF ChosenAll
  <2>1. k \in 1 .. k /\ k - 1 \in Nat /\ Top(s) = k /\ s \ {Top(s)} = 1 .. (k - 1)
    BY <1>6, TopOfMany
  <2>2. ChosenTo(p, k - 1, acc)
    BY <1>6, <2>1 DEF ChosenAll
  <2>3. k \in 1 .. L /\ k \in Nat \ {0}
    BY <1>6, <2>1
  <2>4. ChosenTo(p, k, ChooseOne(p, k, acc))
    BY <1>3, <2>2, <2>3, ChooseNext
  <2> QED
    BY <1>4, <2>1, <2>3, <2>4
<1>7. Timing!Picks(1 .. L)
  <2>1. Timing!IsFiniteSet(1 .. L)
    BY <1>0, FS_Interval, FiniteInTiming DEF L
  <2>2. \A s \in SUBSET (1 .. L) : s # {} => Top(s) \in s
    BY <1>0, TopIsIn
  <2> QED
    BY <2>1, <2>2 DEF Timing!Picks
<1>8. ChosenAll(p, 1 .. L, Timing!Fold(p, << >>, 1 .. L))
  <2>1. /\ Timing!Picks(1 .. L) /\ ChosenAll(p, {}, << >>)
        /\ \A acc : \A s \in SUBSET (1 .. L) :
             s # {} /\ ChosenAll(p, s \ {Top(s)}, acc) => ChosenAll(p, s, Time(p, Top(s), acc))
    BY <1>5, <1>6, <1>7
  <2> QED
    BY ONLY <2>1, Timing!FoldKeeps
<1> QED
  BY <1>0, <1>2, <1>8 DEF ChosenAll, p, L

-----------------------------------------------------------------------------
(* What a pass tells of the audio from `off` to `now` when it misplaces no *)
(* boundary: each word, whole or cut at `off` or `now`, once and in order, *)
(* and every word that is whole.                                           *)
Says(ws, i) == \E n \in DOMAIN ws : Whisper!Spoken(ws[n]) = i

Tells(w, off) ==
  /\ Whisper!Spoken(w) \in Whisper!Ids
  /\ w.start = Whisper!Most(SpokenFrom[Whisper!Spoken(w)], off)
  /\ w.start < w.end /\ w.end <= SpokenTo[Whisper!Spoken(w)]

True(ws, off, now) ==
  /\ \A n \in DOMAIN ws : Tells(ws[n], off)
  /\ \A m, n \in DOMAIN ws : m < n => Whisper!Spoken(ws[m]) < Whisper!Spoken(ws[n])
  /\ \A i \in Whisper!Ids : off <= SpokenFrom[i] /\ SpokenTo[i] <= now => Says(ws, i)

(* The audio of the spoken words.                                          *)
LEMMA Spans ==
  ASSUME Whisper!WhisperAssumption
  PROVE  /\ \A i \in Whisper!Ids : /\ i \in Nat \ {0} /\ i \in Int
                                   /\ SpokenFrom[i] \in Nat /\ SpokenTo[i] \in Nat
                                   /\ SpokenFrom[i] < SpokenTo[i]
         /\ \A i, j \in Whisper!Ids : i < j => SpokenTo[i] <= SpokenFrom[j]
<1>1. /\ SpokenFrom \in Seq(Nat) /\ SpokenTo \in Seq(Nat) /\ DOMAIN SpokenFrom = DOMAIN SpokenTo
      /\ \A i \in Whisper!Ids : SpokenFrom[i] < SpokenTo[i]
      /\ \A i, j \in Whisper!Ids : i < j => SpokenTo[i] <= SpokenFrom[j]
  BY DEF Whisper!WhisperAssumption, Whisper!Ids
<1>2. \A i \in DOMAIN SpokenFrom : i \in Nat \ {0} /\ SpokenFrom[i] \in Nat
  BY <1>1
<1>3. \A i \in DOMAIN SpokenTo : SpokenTo[i] \in Nat
  BY <1>1
<1> QED
  BY <1>1, <1>2, <1>3 DEF Whisper!Ids

(* A pass over the buffer.                                                 *)
LEMMA PassIs ==
  ASSUME Whisper!WhisperAssumption, offset \in Nat, NEW now \in Nat, offset <= now,
         NEW drift \in Int, NEW pass \in Whisper!Passes(now, drift)
  PROVE  /\ pass \in Seq(Whisper!Word) /\ Stream!Follow(pass)
         /\ \A n \in DOMAIN pass : pass[n].start \in Nat /\ pass[n].end \in Nat
         /\ drift = 0 =>
              /\ True(pass, offset, now)
              /\ \A n \in DOMAIN pass : pass[n].start < now
<1>0. /\ \A i \in Whisper!Ids : /\ i \in Nat \ {0} /\ i \in Int
                                /\ SpokenFrom[i] \in Nat /\ SpokenTo[i] \in Nat
                                /\ SpokenFrom[i] < SpokenTo[i]
      /\ \A i, j \in Whisper!Ids : i < j => SpokenTo[i] <= SpokenFrom[j]
  BY Spans
<1>1. CASE now = offset
  <2>1. pass = << >>
    BY <1>1 DEF Whisper!Passes
  <2>2. pass \in Seq(Whisper!Word) /\ DOMAIN pass = {}
    BY <2>1
  <2>3. \A i \in Whisper!Ids : ~ (offset <= SpokenFrom[i] /\ SpokenTo[i] <= now)
    BY <1>0, <1>1
  <2> QED
    BY <2>2, <2>3 DEF True, Stream!Follow
<1>2. CASE now # offset
  <2>1. PICK run, wrong : run \in Whisper!Runs(now) /\ pass = Whisper!Pass(run, wrong, drift)
    BY <1>2 DEF Whisper!Passes
  <2>2. PICK L \in Nat : run \in [1 .. L -> Whisper!Audible(now)]
    <3>1. Len(SpokenFrom) \in Nat
      BY DEF Whisper!WhisperAssumption
    <3>2. run \in Whisper!SeqOf(Whisper!Audible(now), Len(SpokenFrom))
      BY <2>1 DEF Whisper!Runs
    <3> QED
      BY <3>1, <3>2 DEF Whisper!SeqOf
  <2>3. /\ \A m, n \in 1 .. L : m < n => run[m] < run[n]
        /\ \A i \in Whisper!Whole(now) : \E n \in 1 .. L : run[n] = i
        /\ DOMAIN run = 1 .. L
    BY <2>1, <2>2 DEF Whisper!Runs
  <2>4. ASSUME NEW n \in 1 .. L
        PROVE  /\ run[n] \in Whisper!Ids /\ run[n] \in Nat \ {0}
               /\ SpokenTo[run[n]] > offset /\ SpokenFrom[run[n]] < now
    BY <1>0, <2>2 DEF Whisper!Audible
  <2>5. pass = [n \in 1 .. L |->
                  [text  |-> IF run[n] \in wrong THEN - run[n] ELSE run[n],
                   start |-> Whisper!Most(SpokenFrom[run[n]] + drift, offset),
                   end   |-> Whisper!Most(SpokenTo[run[n]] + drift, offset)]]
    BY <2>1, <2>3 DEF Whisper!Pass
  <2>6. ASSUME NEW n \in 1 .. L
        PROVE  /\ pass[n] \in Whisper!Word
               /\ pass[n].start = Whisper!Most(SpokenFrom[run[n]] + drift, offset)
               /\ pass[n].end = Whisper!Most(SpokenTo[run[n]] + drift, offset)
               /\ pass[n].start \in Nat /\ pass[n].end \in Nat
               /\ Whisper!Spoken(pass[n]) = run[n]
               /\ pass[n].start <= pass[n].end
    <3>1. PICK i \in Whisper!Ids : i = run[n]
      BY <2>4
    <3>2. /\ i \in Nat \ {0} /\ - i \in Int \ {0} /\ - i < 0 /\ ~ (i < 0) /\ - (- i) = i
          /\ SpokenFrom[i] \in Nat /\ SpokenTo[i] \in Nat /\ SpokenFrom[i] < SpokenTo[i]
      BY <1>0
    <3>3. pass[n] = [text  |-> IF i \in wrong THEN - i ELSE i,
                     start |-> Whisper!Most(SpokenFrom[i] + drift, offset),
                     end   |-> Whisper!Most(SpokenTo[i] + drift, offset)]
      BY <2>5, <3>1
    <3>4. /\ Whisper!Most(SpokenFrom[i] + drift, offset) \in Nat
          /\ Whisper!Most(SpokenTo[i] + drift, offset) \in Nat
          /\ Whisper!Most(SpokenFrom[i] + drift, offset) <= Whisper!Most(SpokenTo[i] + drift, offset)
      BY <3>2 DEF Whisper!Most
    <3>5. (IF i \in wrong THEN - i ELSE i) \in Int \ {0}
      BY <3>2
    <3>6. Whisper!Spoken(pass[n]) = i
      BY <3>2, <3>3 DEF Whisper!Spoken
    <3> QED
      BY ONLY <3>1, <3>3, <3>4, <3>5, <3>6 DEF Whisper!Word
  <2>7. DOMAIN pass = 1 .. L /\ pass \in [1 .. L -> Whisper!Word]
    BY <2>5, <2>6
  <2>8. pass \in Seq(Whisper!Word)
    BY <2>7, SeqDef
  <2>9. ASSUME NEW m \in 1 .. L, NEW n \in 1 .. L, m < n PROVE pass[m].end <= pass[n].start
    <3>1. PICK i \in Whisper!Ids, j \in Whisper!Ids : i = run[m] /\ j = run[n]
      BY <2>4
    <3>2. i < j
      BY <2>3, <2>9, <3>1
    <3>3. SpokenTo[i] <= SpokenFrom[j] /\ SpokenTo[i] \in Nat /\ SpokenFrom[j] \in Nat
      BY <1>0, <3>2
    <3>4. /\ pass[m].end = Whisper!Most(SpokenTo[i] + drift, offset)
          /\ pass[n].start = Whisper!Most(SpokenFrom[j] + drift, offset)
      BY <2>6, <3>1
    <3> QED
      BY <3>3, <3>4 DEF Whisper!Most
  <2>10. Stream!Follow(pass)
    BY <2>6, <2>7, <2>9 DEF Stream!Follow
  <2>11. ASSUME drift = 0, NEW n \in 1 .. L
         PROVE  Tells(pass[n], offset) /\ pass[n].start < now
    <3>1. PICK i \in Whisper!Ids : i = run[n]
      BY <2>4
    <3>2. /\ SpokenFrom[i] \in Nat /\ SpokenTo[i] \in Nat /\ SpokenFrom[i] < SpokenTo[i]
          /\ SpokenTo[i] > offset /\ SpokenFrom[i] < now
      BY <1>0, <2>4, <3>1
    <3>3. /\ Whisper!Most(SpokenFrom[i] + drift, offset) = Whisper!Most(SpokenFrom[i], offset)
          /\ Whisper!Most(SpokenTo[i] + drift, offset) = SpokenTo[i]
          /\ Whisper!Most(SpokenFrom[i], offset) < SpokenTo[i]
          /\ Whisper!Most(SpokenFrom[i], offset) < now
      BY <1>2, <2>11, <3>2 DEF Whisper!Most
    <3>4. /\ pass[n].start = Whisper!Most(SpokenFrom[i], offset) /\ pass[n].end = SpokenTo[i]
          /\ Whisper!Spoken(pass[n]) = i
      BY <2>6, <3>1, <3>3
    <3> QED
      BY <3>2, <3>3, <3>4 DEF Tells
  <2>12. ASSUME drift = 0 PROVE True(pass, offset, now)
    <3>1. \A m, n \in 1 .. L : m < n => Whisper!Spoken(pass[m]) < Whisper!Spoken(pass[n])
      BY <2>3, <2>6
    <3>2. ASSUME NEW i \in Whisper!Ids, offset <= SpokenFrom[i], SpokenTo[i] <= now
          PROVE  Says(pass, i)
      <4>1. i \in Whisper!Whole(now)
        BY <1>0, <3>2 DEF Whisper!Whole
      <4>2. PICK n \in 1 .. L : run[n] = i
        BY <2>3, <4>1
      <4> QED
        BY <2>6, <2>7, <4>2 DEF Says
    <3> QED
      BY <2>7, <2>11, <2>12, <3>1, <3>2 DEF True
  <2> QED
    BY <2>6, <2>7, <2>8, <2>10, <2>11, <2>12
<1> QED
  BY <1>1, <1>2

(* _transcribe: what a pass becomes.                                       *)
LEMMA CurrentIs ==
  ASSUME Whisper!WhisperAssumption, offset \in Nat, NEW now \in Nat, offset <= now,
         NEW drift \in Int, NEW pass \in Whisper!Passes(now, drift)
  PROVE  /\ Timely(Whisper!Transcribed(pass, now), now)
         /\ drift = 0 => True(Whisper!Transcribed(pass, now), offset, now)
<1> DEFINE L == Len(pass)
           p == Times(pass, now)
           current == Whisper!Transcribed(pass, now)
           N == Len(current)
<1>1. /\ pass \in Seq(Whisper!Word) /\ Stream!Follow(pass)
      /\ \A n \in DOMAIN pass : pass[n].start \in Nat /\ pass[n].end \in Nat
      /\ drift = 0 => True(pass, offset, now) /\ \A n \in DOMAIN pass : pass[n].start < now
  BY PassIs
<1>2. L \in Nat /\ DOMAIN pass = 1 .. L
  BY <1>1
<1>3. /\ p.base = << >> /\ p.words = Capped(pass, now)
      /\ p.take = {n \in DOMAIN pass : pass[n].start <= Whisper!Least(pass[n].end, now)}
  BY DEF Times
<1>4. ChosenTo(p, L, current)
  BY <1>1, TranscribedIs
<1>5. current \in Seq(Whisper!Word) /\ N \in Nat /\ DOMAIN current = 1 .. N
  BY <1>4 DEF ChosenTo
<1>6. \A n \in 1 .. L :
        /\ Capped(pass, now)[n].text = pass[n].text
        /\ Capped(pass, now)[n].start = pass[n].start
        /\ Capped(pass, now)[n].end = Whisper!Least(pass[n].end, now)
  BY <1>1, CappedIs
<1>7. PICK e : Chooses(p, L, current, e)
  BY <1>4 DEF ChosenTo
<1> HIDE DEF p, L, current, N
<1>8. /\ e \in [1 .. N -> 1 .. L]
      /\ \A m, n \in 1 .. N : m < n => e[m] < e[n]
      /\ \A n \in 1 .. N : e[n] \in p.take /\ current[n] = p.words[e[n]]
      /\ \A j \in 1 .. L : j \in p.take => \E n \in 1 .. N : e[n] = j
  <2>1. Len(p.base) + 1 = 1
    BY <1>3
  <2> QED
    BY <1>7, <2>1 DEF Chooses, N
<1>9. ASSUME NEW n \in 1 .. N
      PROVE  /\ e[n] \in 1 .. L
             /\ current[n].text = pass[e[n]].text /\ current[n].start = pass[e[n]].start
             /\ current[n].end = Whisper!Least(pass[e[n]].end, now)
             /\ pass[e[n]].start \in Nat /\ pass[e[n]].end \in Nat
             /\ current[n].start <= current[n].end /\ current[n].end <= now
             /\ current[n].end <= pass[e[n]].end
  <2>1. e[n] \in 1 .. L /\ current[n] = Capped(pass, now)[e[n]]
        /\ pass[e[n]].start <= Whisper!Least(pass[e[n]].end, now)
    BY <1>3, <1>8
  <2>2. pass[e[n]].start \in Nat /\ pass[e[n]].end \in Nat
    BY <1>1, <1>2, <2>1
  <2>3. /\ current[n].text = pass[e[n]].text /\ current[n].start = pass[e[n]].start
        /\ current[n].end = Whisper!Least(pass[e[n]].end, now)
    BY <1>6, <2>1
  <2> QED
    BY <2>1, <2>2, <2>3 DEF Whisper!Least
<1>10. Stream!Follow(current)
  <2> SUFFICES ASSUME NEW m \in 1 .. N, NEW n \in 1 .. N
      PROVE  current[m].start <= current[m].end /\ (m < n => current[m].end <= current[n].start)
    BY <1>5 DEF Stream!Follow
  <2>1. ASSUME m < n PROVE current[m].end <= current[n].start
    <3>1. e[m] < e[n] /\ e[m] \in DOMAIN pass /\ e[n] \in DOMAIN pass
      BY <1>2, <1>8, <1>9, <2>1
    <3>2. pass[e[m]].end <= pass[e[n]].start
      BY <1>1, <3>1 DEF Stream!Follow
    <3>3. current[m].end <= pass[e[m]].end /\ current[m].end = Whisper!Least(pass[e[m]].end, now)
          /\ pass[e[m]].end \in Nat
      BY <1>9
    <3>4. current[n].start = pass[e[n]].start /\ pass[e[n]].start \in Nat
      BY <1>9
    <3> QED
      BY <3>2, <3>3, <3>4 DEF Whisper!Least
  <2> QED
    BY <1>9, <2>1
<1>11. ASSUME drift = 0 PROVE True(current, offset, now)
  <2>1. True(pass, offset, now) /\ \A j \in 1 .. L : pass[j].start < now
    BY <1>1, <1>2, <1>11
  <2>2. /\ \A j \in 1 .. L : Tells(pass[j], offset)
        /\ \A i, j \in 1 .. L : i < j => Whisper!Spoken(pass[i]) < Whisper!Spoken(pass[j])
        /\ \A i \in Whisper!Ids : offset <= SpokenFrom[i] /\ SpokenTo[i] <= now
             => \E j \in 1 .. L : Whisper!Spoken(pass[j]) = i
    BY <1>2, <2>1 DEF True, Says
  <2>3. ASSUME NEW j \in 1 .. L PROVE j \in p.take
    <3>1. pass[j].start < pass[j].end /\ pass[j].start < now
          /\ pass[j].start \in Nat /\ pass[j].end \in Nat
      BY <1>1, <1>2, <2>1, <2>2 DEF Tells
    <3> QED
      BY <1>2, <1>3, <3>1 DEF Whisper!Least
  <2>4. ASSUME NEW n \in 1 .. N
        PROVE  Whisper!Spoken(current[n]) = Whisper!Spoken(pass[e[n]]) /\ Tells(current[n], offset)
    <3>1. e[n] \in 1 .. L /\ Tells(pass[e[n]], offset) /\ pass[e[n]].start < now
      BY <1>9, <2>1, <2>2
    <3>2. /\ current[n].text = pass[e[n]].text /\ current[n].start = pass[e[n]].start
          /\ current[n].end = Whisper!Least(pass[e[n]].end, now)
          /\ pass[e[n]].start \in Nat /\ pass[e[n]].end \in Nat
      BY <1>9
    <3>3. Whisper!Spoken(current[n]) = Whisper!Spoken(pass[e[n]])
      BY <3>2 DEF Whisper!Spoken
    <3>4. PICK i \in Whisper!Ids : i = Whisper!Spoken(pass[e[n]])
      BY <3>1 DEF Tells
    <3>5. /\ pass[e[n]].start = Whisper!Most(SpokenFrom[i], offset)
          /\ pass[e[n]].start < pass[e[n]].end /\ pass[e[n]].end <= SpokenTo[i]
      BY <3>1, <3>4 DEF Tells
    <3>6. SpokenTo[i] \in Nat
      BY Spans
    <3>7. current[n].start < current[n].end /\ current[n].end <= SpokenTo[i]
      BY <3>1, <3>2, <3>5, <3>6 DEF Whisper!Least
    <3> QED
      BY <3>2, <3>3, <3>4, <3>5, <3>7 DEF Tells
  <2>5. \A m, n \in 1 .. N : m < n => Whisper!Spoken(current[m]) < Whisper!Spoken(current[n])
    BY <1>8, <1>9, <2>2, <2>4
  <2>6. ASSUME NEW i \in Whisper!Ids, offset <= SpokenFrom[i], SpokenTo[i] <= now
        PROVE  Says(current, i)
    <3>1. PICK j \in 1 .. L : Whisper!Spoken(pass[j]) = i
      BY <2>2, <2>6
    <3>2. PICK n \in 1 .. N : e[n] = j
      BY <1>8, <2>3, <3>1
    <3> QED
      BY <1>5, <2>4, <3>1, <3>2 DEF Says
  <2> QED
    BY <1>5, <2>4, <2>5, <2>6 DEF True
<1> QED
  BY <1>5, <1>9, <1>10, <1>11 DEF Timely, current

(* There is a last one among the first few numbers.                        *)
LEMMA TopWithin ==
  ASSUME NEW L \in Nat, NEW s \in SUBSET (0 .. L), 0 \in s
  PROVE  Max(s) \in s
<1> DEFINE t == {n \in 1 .. (L + 1) : n - 1 \in s}
<1>1. 1 \in t /\ t \in SUBSET (1 .. (L + 1)) /\ t # {} /\ L + 1 \in Nat
  <2>1. 1 - 1 = 0 /\ 1 \in 1 .. (L + 1) /\ L + 1 \in Nat
    OBVIOUS
  <2>2. 1 \in t
    BY <2>1
  <2> QED
    BY <2>1, <2>2
<1>2. Top(t) \in t /\ \A n \in t : Top(t) >= n
  <2> HIDE DEF t
  <2> QED
    BY ONLY <1>1, TopIsIn
<1>3. PICK x \in t : \A n \in t : x >= n
  BY <1>2
<1>4. x - 1 \in s /\ \A y \in s : x - 1 >= y
  <2>1. \A y \in s : y + 1 \in t /\ y \in Int
    OBVIOUS
  <2>2. x \in Int /\ x - 1 \in s
    OBVIOUS
  <2> HIDE DEF t
  <2> QED
    BY <1>3, <2>1, <2>2
<1> HIDE DEF t
<1> QED
  BY ONLY <1>4 DEF Max

(* _common_prefix: the first n words of the newer pass, for some n.        *)
LEMMA CommonIs ==
  ASSUME NEW before \in Seq(Whisper!Word), NEW ws \in Seq(Whisper!Word)
  PROVE  \E n \in 0 .. Len(ws) : Whisper!CommonPrefix(before, ws) = SubSeq(ws, 1, n)
<1> DEFINE agree == {n \in 0 .. Whisper!Least(Len(before), Len(ws)) :
                       \A k \in 1 .. n : before[k].text = ws[k].text}
<1>1. /\ Len(before) \in Nat /\ Len(ws) \in Nat
      /\ \A n \in 0 .. Whisper!Least(Len(before), Len(ws)) : n \in 0 .. Len(ws)
  BY DEF Whisper!Least
<1>2. 0 \in agree /\ agree \subseteq 0 .. Len(ws)
  BY <1>1 DEF Whisper!Least
<1>3. Whisper!Max(agree) = Max(agree)
  BY DEF Whisper!Max, Max
<1> HIDE DEF agree
<1>4. Max(agree) \in agree
  BY <1>1, <1>2, TopWithin
<1> QED
  BY <1>2, <1>3, <1>4 DEF Whisper!CommonPrefix, agree

-----------------------------------------------------------------------------
(* _absorb, over the agreed words p.common of a pass that ends at p.now,   *)
(* from p.base.                                                            *)
Promote(p, x, state) == Whisper!Promoted(state, p.common[x])

(* The stable words follow one another up to the agreement point.          *)
Settles(p, state) ==
  /\ state = [stable |-> state.stable, settled |-> state.settled]
  /\ Timely(state.stable, state.settled)
  /\ state.settled \in Nat /\ p.base.settled <= state.settled /\ state.settled <= p.now
  /\ Len(p.base.stable) <= Len(state.stable)
  /\ \A n \in 1 .. Len(p.base.stable) : state.stable[n] = p.base.stable[n]

(* When no boundary moves: where the stable words lie, ...                 *)
Lie(ws) ==
  \A n \in DOMAIN ws :
    /\ Whisper!Spoken(ws[n]) \in Whisper!Ids
    /\ SpokenFrom[Whisper!Spoken(ws[n])] <= ws[n].start
    /\ ws[n].start < ws[n].end

(* ... that none is there twice, but for one cut by the cap, ...           *)
Unique(ws, cut) ==
  \A m, n \in DOMAIN ws :
    \/ Whisper!Spoken(ws[m]) = Whisper!Spoken(ws[n]) => m = n
    \/ SpokenFrom[Whisper!Spoken(ws[m])] < cut

(* ... and that every word that began before the agreement is there.       *)
Complete(ws, to, cut) ==
  \A i \in Whisper!Ids : SpokenFrom[i] < to => Says(ws, i) \/ SpokenFrom[i] < cut

Accounts(p, k, state) ==
  /\ Lie(state.stable)
  /\ Context > 0 => Unique(state.stable, p.cut)
  /\ Complete(state.stable, state.settled, p.cut)
  /\ \A j \in 1 .. k :
       Says(state.stable, Whisper!Spoken(p.common[j])) \/ p.common[j].start < state.settled

PromotedTo(p, k, state) == Settles(p, state) /\ (p.exact => Accounts(p, k, state))

PromotedAll(p, s, state) == \A k \in Nat : s = 1 .. k => PromotedTo(p, k, state)

Promoting == INSTANCE Folding WITH Op <- Promote, Pick <- Top, Keeps <- PromotedAll

(* What _absorb is given.  p.off is where the buffer begins, which is      *)
(* where the cap cut it or well behind the agreement point.                *)
Promotable(p) ==
  /\ p.now \in Nat /\ p.base.settled \in Nat
  /\ Timely(p.common, p.now)
  /\ p.exact =>
       /\ p.off \in Nat /\ p.cut \in Nat
       /\ p.off <= p.cut \/ p.off + Context <= p.base.settled
       /\ \A n \in DOMAIN p.common : Tells(p.common[n], p.off)
       /\ \A i \in Whisper!Ids : \A n \in DOMAIN p.common :
            (/\ p.off <= SpokenFrom[i] /\ SpokenTo[i] <= p.now
             /\ i < Whisper!Spoken(p.common[n]))
              => \E m \in DOMAIN p.common : m < n /\ Whisper!Spoken(p.common[m]) = i

(* One more stable word at the end of the others.                          *)
LEMMA TimelyMore ==
  ASSUME NEW to \in Nat, NEW ws, Timely(ws, to), NEW w \in Whisper!Word, w.start >= to,
         w.start <= w.end
  PROVE  Timely(Append(ws, w), Whisper!Most(to, w.end))
<1> DEFINE L == Len(ws)
           more == Append(ws, w)
           up == Whisper!Most(to, w.end)
<1>1. ws \in Seq(Whisper!Word) /\ L \in Nat /\ DOMAIN ws = 1 .. L
  BY DEF Timely
<1>2. /\ more \in Seq(Whisper!Word) /\ DOMAIN more = 1 .. (L + 1) /\ more[L + 1] = w
      /\ \A n \in 1 .. L : more[n] = ws[n]
  BY <1>1
<1>3. \A n \in 1 .. L : ws[n].start \in Nat /\ ws[n].end \in Nat /\ ws[n].end <= to
  <2>1. \A n \in 1 .. L : ws[n] \in Whisper!Word
    BY <1>1
  <2> QED
    BY <1>1, <2>1 DEF Timely, Whisper!Word
<1>4. w.start \in Nat /\ w.end \in Nat /\ up \in Nat /\ to <= up /\ w.end <= up
  BY DEF Whisper!Word, Whisper!Most
<1>5. \A m, n \in 1 .. L : ws[m].start <= ws[m].end /\ (m < n => ws[m].end <= ws[n].start)
  BY <1>1 DEF Timely, Stream!Follow
<1> HIDE DEF more, L, up
<1>6. \A n \in 1 .. (L + 1) : n = L + 1 \/ (n \in 1 .. L /\ n < L + 1)
  BY <1>1
<1>7. ASSUME NEW m \in 1 .. (L + 1), NEW n \in 1 .. (L + 1)
      PROVE  more[m].start <= more[m].end /\ (m < n => more[m].end <= more[n].start)
  <2>1. CASE m = L + 1
    <3>1. ~ (m < n)
      BY <1>1, <2>1
    <3> QED
      BY <1>2, <2>1, <3>1
  <2>2. CASE m # L + 1 /\ n # L + 1
    BY <1>2, <1>5, <1>6, <2>2
  <2>3. CASE m # L + 1 /\ n = L + 1
    BY <1>2, <1>3, <1>4, <1>5, <1>6, <2>3
  <2> QED
    BY <2>1, <2>2, <2>3
<1>8. \A n \in 1 .. (L + 1) : more[n].end <= up
  BY <1>2, <1>3, <1>4, <1>6
<1> QED
  BY <1>2, <1>7, <1>8 DEF Timely, Stream!Follow, more, up

(* A word more, and what is said.                                          *)
LEMMA SaysMore ==
  ASSUME NEW ws \in Seq(Whisper!Word), NEW w \in Whisper!Word
  PROVE  /\ Says(Append(ws, w), Whisper!Spoken(w))
         /\ \A i : Says(ws, i) => Says(Append(ws, w), i)
<1>1. /\ Len(ws) \in Nat /\ DOMAIN ws = 1 .. Len(ws)
      /\ DOMAIN Append(ws, w) = 1 .. (Len(ws) + 1)
      /\ Append(ws, w)[Len(ws) + 1] = w
      /\ \A n \in 1 .. Len(ws) : Append(ws, w)[n] = ws[n] /\ n \in 1 .. (Len(ws) + 1)
      /\ Len(ws) + 1 \in 1 .. (Len(ws) + 1)
  OBVIOUS
<1> QED
  BY ONLY <1>1 DEF Says

LEMMA SettleOne ==
  ASSUME NEW p, Promotable(p), NEW k \in DOMAIN p.common, NEW state, Settles(p, state)
  PROVE  Settles(p, Promote(p, k, state))
<1> DEFINE w == p.common[k]
<1>1. /\ w \in Whisper!Word /\ w.start \in Nat /\ w.end \in Nat /\ w.start <= w.end
      /\ w.end <= p.now /\ p.now \in Nat /\ p.base.settled \in Nat
  <2>1. p.common \in Seq(Whisper!Word)
    BY DEF Promotable, Timely
  <2>2. w \in Whisper!Word
    BY <2>1
  <2> QED
    BY <2>2 DEF Promotable, Timely, Whisper!Word, Stream!Follow
<1> HIDE DEF w
<1>2. /\ Timely(state.stable, state.settled) /\ state.stable \in Seq(Whisper!Word)
      /\ state.settled \in Nat /\ p.base.settled <= state.settled /\ state.settled <= p.now
      /\ Len(p.base.stable) <= Len(state.stable)
      /\ \A n \in 1 .. Len(p.base.stable) : state.stable[n] = p.base.stable[n]
  BY DEF Settles, Timely
<1>3. CASE ~ (w.start >= state.settled)
  <2>1. Promote(p, k, state) = state
    BY <1>3 DEF Promote, Whisper!Promoted, w
  <2> QED
    BY <2>1
<1>4. CASE w.start >= state.settled
  <2> DEFINE more == Append(state.stable, w)
             up == Whisper!Most(state.settled, w.end)
  <2>1. Promote(p, k, state) = [stable |-> more, settled |-> up]
    BY <1>4 DEF Promote, Whisper!Promoted, w
  <2>2. Timely(more, up)
    BY <1>1, <1>2, <1>4, TimelyMore
  <2>3. up \in Nat /\ p.base.settled <= up /\ up <= p.now
    BY <1>1, <1>2 DEF Whisper!Most
  <2>4. /\ Len(more) = Len(state.stable) + 1 /\ Len(state.stable) \in Nat
        /\ \A n \in 1 .. Len(state.stable) : more[n] = state.stable[n]
    BY <1>1, <1>2
  <2> HIDE DEF more, up
  <2>5. Len(p.base.stable) <= Len(more)
        /\ \A n \in 1 .. Len(p.base.stable) : more[n] = p.base.stable[n]
    BY <1>2, <2>4
  <2> QED
    BY <2>1, <2>2, <2>3, <2>5 DEF Settles
<1> QED
  BY <1>3, <1>4

LEMMA AccountOne ==
  ASSUME Whisper!WhisperAssumption, NEW p, Promotable(p), p.exact,
         NEW k \in Nat \ {0}, k \in DOMAIN p.common,
         NEW state, Settles(p, state), Accounts(p, k - 1, state)
  PROVE  Accounts(p, k, Promote(p, k, state))
<1> DEFINE w == p.common[k]
           c == Whisper!Spoken(w)
           settled_ == state.settled
           off == p.off
           cut == p.cut
<1>0. /\ \A i \in Whisper!Ids : /\ i \in Nat \ {0} /\ i \in Int
                                /\ SpokenFrom[i] \in Nat /\ SpokenTo[i] \in Nat
                                /\ SpokenFrom[i] < SpokenTo[i]
      /\ \A i, j \in Whisper!Ids : i < j => SpokenTo[i] <= SpokenFrom[j]
      /\ Context \in Nat
  BY Spans DEF Whisper!WhisperAssumption
<1>1. /\ p.common \in Seq(Whisper!Word) /\ w \in Whisper!Word /\ w.start \in Nat /\ w.end \in Nat
      /\ w.end <= p.now /\ p.now \in Nat /\ p.base.settled \in Nat
  <2>1. p.common \in Seq(Whisper!Word)
    BY DEF Promotable, Timely
  <2>2. w \in Whisper!Word
    BY <2>1
  <2> QED
    BY <2>1, <2>2 DEF Promotable, Timely, Whisper!Word
<1>2. /\ off \in Nat /\ cut \in Nat
      /\ off <= cut \/ off + Context <= p.base.settled
      /\ \A n \in DOMAIN p.common : Tells(p.common[n], off)
      /\ \A i \in Whisper!Ids : \A n \in DOMAIN p.common :
            (/\ off <= SpokenFrom[i] /\ SpokenTo[i] <= p.now
             /\ i < Whisper!Spoken(p.common[n]))
              => \E m \in DOMAIN p.common : m < n /\ Whisper!Spoken(p.common[m]) = i
  BY DEF Promotable
<1>3. /\ c \in Whisper!Ids /\ w.start = Whisper!Most(SpokenFrom[c], off)
      /\ w.start < w.end /\ w.end <= SpokenTo[c]
  BY <1>2 DEF Tells
<1>4. /\ state.stable \in Seq(Whisper!Word)
      /\ \A n \in DOMAIN state.stable : state.stable[n].end <= settled_
      /\ settled_ \in Nat /\ p.base.settled <= settled_
  BY DEF Settles, Timely
<1>5. /\ Lie(state.stable)
      /\ Context > 0 => Unique(state.stable, cut)
      /\ Complete(state.stable, settled_, cut)
      /\ \A j \in 1 .. (k - 1) :
           Says(state.stable, Whisper!Spoken(p.common[j])) \/ p.common[j].start < settled_
  BY DEF Accounts
<1>6. \A j \in 1 .. k : j = k \/ j \in 1 .. (k - 1)
  OBVIOUS
<1> HIDE DEF w, c, settled_, off, cut
<1>7. CASE ~ (w.start >= settled_)
  <2>1. Promote(p, k, state) = state
    BY <1>7 DEF Promote, Whisper!Promoted, w, settled_
  <2>2. w.start < settled_
    BY <1>1, <1>4, <1>7
  <2>3. \A j \in 1 .. k :
           Says(state.stable, Whisper!Spoken(p.common[j])) \/ p.common[j].start < settled_
    BY <1>5, <1>6, <2>2 DEF w
  <2> QED
    BY <1>5, <2>1, <2>3 DEF Accounts, settled_, cut
<1>8. CASE w.start >= settled_
  <2> DEFINE more == Append(state.stable, w)
             L == Len(state.stable)
  <2>1. Promote(p, k, state) = [stable |-> more, settled |-> w.end]
    <3>1. Whisper!Most(settled_, w.end) = w.end
      BY <1>1, <1>3, <1>4, <1>8 DEF Whisper!Most
    <3> QED
      BY <1>8, <3>1 DEF Promote, Whisper!Promoted, w, settled_
  <2>2. /\ L \in Nat /\ DOMAIN state.stable = 1 .. L /\ DOMAIN more = 1 .. (L + 1)
        /\ more[L + 1] = w /\ \A n \in 1 .. L : more[n] = state.stable[n]
        /\ \A n \in 1 .. (L + 1) : n = L + 1 \/ n \in 1 .. L
    BY <1>1, <1>4, SMTT(30)
  <2>3. Says(more, c) /\ \A i : Says(state.stable, i) => Says(more, i)
    BY <1>1, <1>4, SaysMore DEF c
  <2> HIDE DEF more, L
  <2>4. SpokenFrom[c] \in Nat /\ SpokenTo[c] \in Nat
    BY <1>0, <1>3
  <2>5. Lie(more)
    <3>1. SpokenFrom[c] <= w.start
      BY <1>2, <1>3, <2>4 DEF Whisper!Most
    <3> QED
      BY <1>3, <1>5, <2>2, <3>1 DEF Lie, c
  <2>6. ASSUME Context > 0 PROVE Unique(more, cut)
    <3>1. ASSUME NEW n \in 1 .. L, Whisper!Spoken(state.stable[n]) = c PROVE SpokenFrom[c] < cut
      <4>1. /\ SpokenFrom[c] <= state.stable[n].start
            /\ state.stable[n].start < state.stable[n].end /\ state.stable[n].end <= settled_
        BY <1>4, <1>5, <2>2, <3>1 DEF Lie
      <4>2. state.stable[n].start \in Nat /\ state.stable[n].end \in Nat
        <5>1. state.stable[n] \in Whisper!Word
          BY <1>4, <2>2
        <5> QED
          BY <5>1 DEF Whisper!Word
      <4>3. SpokenFrom[c] < w.start
        BY <1>1, <1>4, <1>8, <2>4, <4>1, <4>2, SMTT(30)
      <4>4. SpokenFrom[c] < off /\ off = w.start
        BY <1>2, <1>3, <2>4, <4>3 DEF Whisper!Most
      <4>5. ~ (off + Context <= p.base.settled)
        BY <1>0, <1>1, <1>2, <1>4, <1>8, <2>6, <4>4
      <4> QED
        BY <1>2, <2>4, <4>4, <4>5
    <3>2. Unique(state.stable, cut)
      BY <1>5, <2>6
    <3> SUFFICES ASSUME NEW m \in 1 .. (L + 1), NEW n \in 1 .. (L + 1),
                        Whisper!Spoken(more[m]) = Whisper!Spoken(more[n]), m # n
                 PROVE  SpokenFrom[Whisper!Spoken(more[m])] < cut
      BY <2>2 DEF Unique
    <3>3. CASE m = L + 1 \/ n = L + 1
      BY <2>2, <3>1, <3>3 DEF c
    <3>4. CASE m # L + 1 /\ n # L + 1
      <4>1. m \in 1 .. L /\ n \in 1 .. L /\ more[m] = state.stable[m] /\ more[n] = state.stable[n]
        BY <2>2, <3>4
      <4> QED
        BY <2>2, <3>2, <4>1 DEF Unique
    <3> QED
      BY <3>3, <3>4
  <2>7. Complete(more, w.end, cut)
    <3> SUFFICES ASSUME NEW i \in Whisper!Ids, SpokenFrom[i] < w.end
                 PROVE  Says(more, i) \/ SpokenFrom[i] < cut
      BY DEF Complete
    <3>1. /\ i \in Int /\ c \in Int /\ SpokenFrom[i] \in Nat /\ SpokenTo[i] \in Nat
          /\ i < c => SpokenTo[i] <= SpokenFrom[c]
          /\ c < i => SpokenTo[c] <= SpokenFrom[i]
      BY <1>0, <1>3
    <3>2. CASE SpokenFrom[i] < settled_
      BY <1>5, <2>3, <3>2 DEF Complete
    <3>3. CASE i = c
      BY <2>3, <3>3
    <3>4. CASE i # c /\ ~ (SpokenFrom[i] < settled_) /\ off <= SpokenFrom[i]
      <4>1. i < c
        BY <1>1, <1>3, <2>4, <3>1, <3>4
      <4>2. SpokenTo[i] <= p.now
        BY <1>1, <1>2, <1>3, <2>4, <3>1, <4>1, SMTT(30) DEF Whisper!Most
      <4>3. PICK m \in DOMAIN p.common : m < k /\ Whisper!Spoken(p.common[m]) = i
        BY <1>2, <3>4, <4>1, <4>2 DEF c, w
      <4>4. m \in 1 .. (k - 1)
        BY <1>1, <4>3
      <4>5. p.common[m].start = Whisper!Most(SpokenFrom[i], off)
        BY <1>2, <4>3 DEF Tells
      <4>6. ~ (p.common[m].start < settled_)
        BY <1>2, <1>4, <3>1, <3>4, <4>5 DEF Whisper!Most
      <4> QED
        BY <1>5, <2>3, <4>3, <4>4, <4>6
    <3>5. CASE ~ (SpokenFrom[i] < settled_) /\ ~ (off <= SpokenFrom[i])
      <4>1. ~ (off + Context <= p.base.settled)
        BY <1>0, <1>1, <1>2, <1>4, <3>1, <3>5
      <4> QED
        BY <1>2, <3>1, <3>5, <4>1
    <3> QED
      BY <3>2, <3>3, <3>4, <3>5
  <2>8. \A j \in 1 .. k : Says(more, Whisper!Spoken(p.common[j])) \/ p.common[j].start < w.end
    <3> SUFFICES ASSUME NEW j \in 1 .. k
                 PROVE Says(more, Whisper!Spoken(p.common[j])) \/ p.common[j].start < w.end
      OBVIOUS
    <3>1. CASE j = k
      BY <2>3, <3>1 DEF c, w
    <3>2. CASE j # k
      <4>1. j \in 1 .. (k - 1) /\ j \in DOMAIN p.common
        BY <1>1, <1>6, <3>2
      <4>2. Says(state.stable, Whisper!Spoken(p.common[j])) \/ p.common[j].start < settled_
        BY <1>5, <4>1
      <4>3. p.common[j].start \in Nat
        <5>1. p.common[j] \in Whisper!Word
          BY <1>1, <4>1
        <5> QED
          BY <5>1 DEF Whisper!Word
      <4> QED
        BY <1>1, <1>3, <1>4, <1>8, <2>3, <4>2, <4>3, SMTT(30)
    <3> QED
      BY <3>1, <3>2
  <2> QED
    BY <2>1, <2>5, <2>6, <2>7, <2>8 DEF Accounts, cut
<1> QED
  BY <1>7, <1>8

LEMMA FiniteInPromoting ==
  ASSUME NEW S, IsFiniteSet(S)
  PROVE  Promoting!IsFiniteSet(S)
  BY DEF IsFiniteSet, Promoting!IsFiniteSet

(* _absorb, all of it.                                                     *)
LEMMA PromoteAll ==
  ASSUME Whisper!WhisperAssumption, NEW p, Promotable(p), PromotedTo(p, 0, p.base),
         NEW state, state = Whisper!FoldLeft(Whisper!Promoted, p.base, p.common)
  PROVE  PromotedTo(p, Len(p.common), state)
<1> DEFINE L == Len(p.common)
<1>0. L \in Nat /\ DOMAIN p.common = 1 .. L
  BY DEF Promotable, Timely
<1> HIDE DEF L
<1>1. state = Promoting!Fold(p, p.base, 1 .. L)
  BY <1>0 DEF Whisper!FoldLeft, Whisper!MapThenFoldSet, Whisper!Max, Max, Promoting!Fold,
         Promoting!Folds, Promote, Top
<1>2. PromotedAll(p, {}, p.base)
  <2>1. \A k \in Nat : {} = 1 .. k => k = 0
    OBVIOUS
  <2> QED
    BY <2>1 DEF PromotedAll
<1>3. ASSUME NEW acc, NEW s \in SUBSET (1 .. L), s # {}, PromotedAll(p, s \ {Top(s)}, acc)
      PROVE  PromotedAll(p, s, Promote(p, Top(s), acc))
  <2> SUFFICES ASSUME NEW k \in Nat, s = 1 .. k PROVE PromotedTo(p, k, Promote(p, Top(s), acc))
    BY DEF PromotedAll
  <2>1. k \in 1 .. k /\ k - 1 \in Nat /\ Top(s) = k /\ s \ {Top(s)} = 1 .. (k - 1)
    BY <1>3, TopOfMany
  <2>2. PromotedTo(p, k - 1, acc)
    BY <1>3, <2>1 DEF PromotedAll
  <2>3. k \in DOMAIN p.common /\ k \in Nat \ {0}
    BY <1>0, <1>3, <2>1
  <2>4. Settles(p, Promote(p, k, acc))
    BY <2>2, <2>3, SettleOne DEF PromotedTo
  <2>5. ASSUME p.exact PROVE Accounts(p, k, Promote(p, k, acc))
    BY <2>2, <2>3, <2>5, AccountOne DEF PromotedTo
  <2> QED
    BY <2>1, <2>4, <2>5 DEF PromotedTo
<1>4. Promoting!Picks(1 .. L)
  <2>1. Promoting!IsFiniteSet(1 .. L)
    <3>1. IsFiniteSet(1 .. L)
      BY <1>0, FS_Interval
    <3> QED
      BY ONLY <3>1, FiniteInPromoting
  <2>2. \A s \in SUBSET (1 .. L) : s # {} => Top(s) \in s
    BY <1>0, TopIsIn
  <2> QED
    BY <2>1, <2>2 DEF Promoting!Picks
<1>5. PromotedAll(p, 1 .. L, Promoting!Fold(p, p.base, 1 .. L))
  <2>1. /\ Promoting!Picks(1 .. L) /\ PromotedAll(p, {}, p.base)
        /\ \A acc : \A s \in SUBSET (1 .. L) :
             s # {} /\ PromotedAll(p, s \ {Top(s)}, acc) => PromotedAll(p, s, Promote(p, Top(s), acc))
    BY <1>2, <1>3, <1>4
  <2> QED
    BY ONLY <2>1, Promoting!FoldKeeps
<1> QED
  BY <1>0, <1>1, <1>5 DEF PromotedAll, L

-----------------------------------------------------------------------------
(* Two runs of words, the second behind the first.                         *)
LEMMA TimelyBoth ==
  ASSUME NEW to \in Nat, NEW now \in Nat, to <= now, NEW a, Timely(a, to), NEW b, Timely(b, now),
         \A n \in DOMAIN b : to <= b[n].start
  PROVE  Timely(a \o b, now)
<1> DEFINE L == Len(a)
           M == Len(b)
           both == a \o b
<1>1. /\ a \in Seq(Whisper!Word) /\ L \in Nat /\ DOMAIN a = 1 .. L
      /\ b \in Seq(Whisper!Word) /\ M \in Nat /\ DOMAIN b = 1 .. M
  BY DEF Timely
<1>2. /\ both \in Seq(Whisper!Word) /\ DOMAIN both = 1 .. (L + M)
      /\ \A n \in 1 .. (L + M) : both[n] = IF n <= L THEN a[n] ELSE b[n - L]
  BY <1>1
<1>3. /\ \A n \in 1 .. L : a[n].start \in Nat /\ a[n].end \in Nat
      /\ \A n \in 1 .. M : b[n].start \in Nat /\ b[n].end \in Nat
  <2>1. (\A n \in 1 .. L : a[n] \in Whisper!Word) /\ \A n \in 1 .. M : b[n] \in Whisper!Word
    BY <1>1
  <2> QED
    BY <2>1 DEF Whisper!Word
<1>4. /\ \A m, n \in 1 .. L : a[m].start <= a[m].end /\ (m < n => a[m].end <= a[n].start)
      /\ \A m, n \in 1 .. M : b[m].start <= b[m].end /\ (m < n => b[m].end <= b[n].start)
      /\ \A n \in 1 .. L : a[n].end <= to
      /\ \A n \in 1 .. M : b[n].end <= now /\ to <= b[n].start
  BY <1>1 DEF Timely, Stream!Follow
<1> HIDE DEF both, L, M
<1>5. \A n \in 1 .. (L + M) : IF n <= L THEN n \in 1 .. L ELSE n - L \in 1 .. M
  BY <1>1
<1>6. ASSUME NEW m \in 1 .. (L + M), NEW n \in 1 .. (L + M)
      PROVE  /\ both[m].start <= both[m].end /\ both[m].end <= now
             /\ m < n => both[m].end <= both[n].start
  <2>1. CASE m <= L /\ n <= L
    BY <1>2, <1>3, <1>4, <1>5, <2>1
  <2>2. CASE m <= L /\ ~ (n <= L)
    BY <1>2, <1>3, <1>4, <1>5, <2>2, SMTT(30)
  <2>3. CASE ~ (m <= L) /\ n <= L
    BY <1>1, <1>2, <1>3, <1>4, <1>5, <2>3
  <2>4. CASE ~ (m <= L) /\ ~ (n <= L)
    <3>1. m - L \in 1 .. M /\ n - L \in 1 .. M /\ (m < n => m - L < n - L)
      BY <1>1, <1>5, <2>4
    <3> QED
      BY <1>2, <1>4, <2>4, <3>1
  <2> QED
    BY <2>1, <2>2, <2>3, <2>4
<1> QED
  BY <1>2, <1>6 DEF Timely, Stream!Follow, both

(* What is taken after the words settled so far: those words, and then     *)
(* words of the pass, in order.                                            *)
LEMMA TakenFollows ==
  ASSUME NEW to \in Nat, NEW now \in Nat, to <= now, NEW base, Timely(base, to),
         NEW ws, Timely(ws, now)
  PROVE  LET out == Whisper!Taken(ws, to, base)
         IN  /\ Timely(out, now)
             /\ Len(base) <= Len(out) /\ \A n \in 1 .. Len(base) : out[n] = base[n]
             /\ \A n \in DOMAIN out : n > Len(base) => out[n].start >= to
             /\ \E e : Chooses(Takes(ws, to, base), Len(ws), out, e)
<1> DEFINE p == Takes(ws, to, base)
           b == Len(base)
           K == Len(ws)
           out == Whisper!Taken(ws, to, base)
           N == Len(out)
<1>1. /\ base \in Seq(Whisper!Word) /\ b \in Nat /\ DOMAIN base = 1 .. b
      /\ ws \in Seq(Whisper!Word) /\ K \in Nat /\ DOMAIN ws = 1 .. K
  BY DEF Timely
<1>2. p.words = ws /\ p.base = base /\ p.take = {n \in DOMAIN ws : ws[n].start >= to}
  BY DEF Takes
<1>3. ChosenTo(p, K, out)
  BY <1>1, TakenIs
<1> HIDE DEF p, K, out
<1>4. out \in Seq(Whisper!Word) /\ N \in Nat /\ DOMAIN out = 1 .. N
  BY <1>3 DEF ChosenTo
<1>5. PICK e : Chooses(p, K, out, e)
  BY <1>3 DEF ChosenTo
<1>6. /\ b <= N /\ \A n \in 1 .. b : out[n] = base[n]
      /\ e \in [(b + 1) .. N -> 1 .. K]
      /\ \A m, n \in (b + 1) .. N : m < n => e[m] < e[n]
      /\ \A n \in (b + 1) .. N : e[n] \in p.take /\ out[n] = ws[e[n]]
  BY <1>2, <1>5 DEF Chooses
<1> HIDE DEF b, N
<1>7. \A n \in 1 .. N : (n > b <=> n \in (b + 1) .. N) /\ (~ (n > b) <=> n \in 1 .. b)
  BY <1>1, <1>4, <1>6
<1>8. /\ \A n \in 1 .. b : base[n].start \in Nat /\ base[n].end \in Nat
      /\ \A n \in 1 .. K : ws[n].start \in Nat /\ ws[n].end \in Nat
  <2>1. (\A n \in 1 .. b : base[n] \in Whisper!Word) /\ \A n \in 1 .. K : ws[n] \in Whisper!Word
    BY <1>1
  <2> QED
    BY <2>1 DEF Whisper!Word
<1>9. /\ \A m, n \in 1 .. b : base[m].start <= base[m].end /\ (m < n => base[m].end <= base[n].start)
      /\ \A m, n \in 1 .. K : ws[m].start <= ws[m].end /\ (m < n => ws[m].end <= ws[n].start)
      /\ \A n \in 1 .. b : base[n].end <= to
      /\ \A n \in 1 .. K : ws[n].end <= now
  BY <1>1 DEF Timely, Stream!Follow
<1>10. \A n \in (b + 1) .. N : e[n] \in 1 .. K /\ ws[e[n]].start >= to /\ out[n] = ws[e[n]]
  BY <1>1, <1>2, <1>6
<1>11. ASSUME NEW m \in 1 .. N, NEW n \in 1 .. N
       PROVE  /\ out[m].start <= out[m].end /\ out[m].end <= now
              /\ m < n => out[m].end <= out[n].start
  <2>1. CASE ~ (m > b) /\ ~ (n > b)
    BY <1>6, <1>7, <1>8, <1>9, <2>1
  <2>2. CASE ~ (m > b) /\ n > b
    <3>1. m \in 1 .. b /\ n \in (b + 1) .. N /\ e[n] \in 1 .. K
      BY <1>7, <1>10, <2>2
    <3> QED
      BY <1>6, <1>8, <1>9, <1>10, <3>1, SMTT(30)
  <2>3. CASE m > b /\ ~ (n > b)
    <3>1. ~ (m < n) /\ m \in (b + 1) .. N
      BY <1>1, <1>4, <1>7, <2>3
    <3> QED
      BY <1>9, <1>10, <3>1
  <2>4. CASE m > b /\ n > b
    <3>1. m \in (b + 1) .. N /\ n \in (b + 1) .. N
      BY <1>7, <2>4
    <3> QED
      BY <1>6, <1>9, <1>10, <3>1
  <2> QED
    BY <2>1, <2>2, <2>3, <2>4
<1>12. Timely(out, now)
  BY <1>4, <1>11 DEF Timely, Stream!Follow
<1>13. \A n \in DOMAIN out : n > b => out[n].start >= to
  BY <1>4, <1>7, <1>10
<1> QED
  BY <1>5, <1>6, <1>12, <1>13 DEF p, K, out, b, N

-----------------------------------------------------------------------------
(* What the engine keeps of a stream: the words said stable, up to the     *)
(* agreement point, and the pass behind them; and where no boundary moved, *)
(* that they are the words of the audio up to that point.                  *)
WhisperTypes ==
  /\ at \in Nat /\ offset \in Nat /\ held \in Nat /\ fresh \in Nat
  /\ settled \in Nat /\ lost \in Nat
  /\ ended \in BOOLEAN /\ moved \in BOOLEAN
  /\ previous \in Seq(Whisper!Word) /\ stable \in Seq(Whisper!Word)

Buffered ==
  /\ at = offset + held /\ settled <= at
  /\ lost = 0 \/ lost + MaxBuffer <= at

Saying ==
  /\ said.stable = stable
  /\ ~ ended => Timely(stable, settled) /\ Timely(Stream!Words(said), at)

Whole(ws, to, cut) ==
  \A i \in Whisper!Ids : SpokenTo[i] <= to => Says(ws, i) \/ SpokenFrom[i] < cut

Accounted ==
  /\ offset <= lost \/ offset + Context <= settled
  /\ Context > 0 => Unique(stable, lost)
  /\ IF ended THEN Whole(stable, at, lost) ELSE Lie(stable) /\ Complete(stable, settled, lost)

WhisperInv == WhisperTypes /\ Buffered /\ Saying /\ (~ moved => Accounted)

LEMMA Nothing ==
  ASSUME Whisper!WhisperAssumption
  PROVE  /\ Timely(<< >>, 0) /\ Timely(Stream!Words(Stream!Silent), 0)
         /\ Stream!Silent.stable = << >>
         /\ Lie(<< >>) /\ Unique(<< >>, 0) /\ Complete(<< >>, 0, 0)
<1>1. << >> \in Seq(Whisper!Word) /\ DOMAIN << >> = {} /\ << >> \o << >> = << >>
  OBVIOUS
<1>2. Stream!Words(Stream!Silent) = << >> /\ Stream!Silent.stable = << >>
  BY <1>1 DEF Stream!Words, Stream!Silent
<1>3. \A i \in Whisper!Ids : ~ (SpokenFrom[i] < 0)
  BY Spans
<1> QED
  BY <1>1, <1>2, <1>3 DEF Timely, Stream!Follow, Lie, Unique, Complete

(* A cut further on excuses more.                                          *)
LEMMA Excuses ==
  ASSUME Whisper!WhisperAssumption, NEW ws, NEW cut \in Nat, NEW more \in Nat, cut <= more
  PROVE  /\ Lie(ws) /\ Unique(ws, cut) => Unique(ws, more)
         /\ \A to : Complete(ws, to, cut) => Complete(ws, to, more)
<1>1. \A i \in Whisper!Ids : SpokenFrom[i] < cut => SpokenFrom[i] < more
  BY Spans
<1>2. Lie(ws) => \A n \in DOMAIN ws : Whisper!Spoken(ws[n]) \in Whisper!Ids
  BY DEF Lie
<1> QED
  BY <1>1, <1>2 DEF Unique, Complete

LEMMA WhisperStarts ==
  ASSUME Whisper!WhisperAssumption, Whisper!Init
  PROVE  WhisperInv
<1>1. /\ at = 0 /\ offset = 0 /\ held = 0 /\ fresh = 0 /\ previous = << >> /\ stable = << >>
      /\ settled = 0 /\ said = Stream!Silent /\ ended = FALSE /\ lost = 0 /\ moved = FALSE
  BY DEF Whisper!Init, Whisper!Silent, Stream!Silent
<1>2. << >> \in Seq(Whisper!Word)
  OBVIOUS
<1>3. Buffered /\ WhisperTypes
  <2>1. WhisperTypes
    BY <1>1, <1>2 DEF WhisperTypes
  <2>2. Buffered
    BY <1>1 DEF Buffered
  <2> QED
    BY <2>1, <2>2
<1>4. Saying
  BY <1>1, Nothing DEF Saying
<1>5. Accounted
  BY <1>1, Nothing DEF Accounted
<1> QED
  BY <1>3, <1>4, <1>5 DEF WhisperInv

LEMMA WhisperResets ==
  ASSUME Whisper!WhisperAssumption, Whisper!Reset
  PROVE  WhisperInv' /\ Stream!Restart
<1>1. /\ at' = 0 /\ offset' = 0 /\ held' = 0 /\ fresh' = 0 /\ previous' = << >> /\ stable' = << >>
      /\ settled' = 0 /\ said' = Stream!Silent /\ ended' = FALSE /\ lost' = 0 /\ moved' = FALSE
      /\ ended
  BY DEF Whisper!Reset, Whisper!Silent, Stream!Silent
<1>2. << >> \in Seq(Whisper!Word)
  OBVIOUS
<1>3. Buffered' /\ WhisperTypes'
  <2>1. WhisperTypes'
    BY <1>1, <1>2 DEF WhisperTypes
  <2>2. Buffered'
    BY <1>1 DEF Buffered
  <2> QED
    BY <2>1, <2>2
<1>4. Saying'
  BY <1>1, Nothing DEF Saying
<1>5. Accounted'
  BY <1>1, Nothing DEF Accounted
<1>6. Stream!Restart
  BY <1>1 DEF Stream!Restart
<1> QED
  BY <1>3, <1>4, <1>5, <1>6 DEF WhisperInv

(* Nothing of the engine changes.                                          *)
LEMMA WhisperStays ==
  ASSUME WhisperInv, UNCHANGED Whisper!vars
  PROVE  WhisperInv' /\ UNCHANGED Stream!vars
<1>1. UNCHANGED <<at, offset, held, fresh, previous, stable, settled, said, ended, lost, moved>>
  BY DEF Whisper!vars
<1> QED
  BY <1>1 DEF WhisperInv, WhisperTypes, Buffered, Saying, Accounted, Stream!vars

(* What begins no later, ends later.                                       *)
LEMMA TimelyLater ==
  ASSUME NEW ws, NEW to \in Nat, NEW now \in Nat, to <= now, Timely(ws, to)
  PROVE  Timely(ws, now)
<1>1. ws \in Seq(Whisper!Word)
  BY DEF Timely
<1>2. \A n \in DOMAIN ws : ws[n].end \in Nat
  <2>1. \A n \in DOMAIN ws : ws[n] \in Whisper!Word
    BY <1>1
  <2> QED
    BY <2>1 DEF Whisper!Word
<1> QED
  BY <1>1, <1>2 DEF Timely

(* Between two passes.                                                     *)
LEMMA WhisperWaits ==
  ASSUME Whisper!WhisperAssumption, WhisperInv,
         NEW d \in WhisperSteps, ~ ended, at' = at + d, Whisper!Wait(d), ended' = ended
  PROVE  WhisperInv' /\ Stream!Answer
<1>1. d \in Nat
  BY DEF Whisper!WhisperAssumption
<1>2. /\ fresh' = fresh + d /\ held' = held + d
      /\ offset' = offset /\ previous' = previous /\ stable' = stable /\ settled' = settled
      /\ said' = said /\ lost' = lost /\ moved' = moved /\ ended' = ended /\ ~ ended'
  BY DEF Whisper!Wait
<1>3. /\ at \in Nat /\ at' \in Nat /\ at <= at' /\ settled \in Nat /\ lost \in Nat /\ MaxBuffer \in Nat
      /\ offset \in Nat /\ held \in Nat /\ fresh \in Nat
  BY <1>1 DEF WhisperInv, WhisperTypes, Whisper!WhisperAssumption
<1>4. WhisperTypes' /\ Buffered'
  BY <1>1, <1>2, <1>3 DEF WhisperInv, WhisperTypes, Buffered
<1>5. Timely(Stream!Words(said), at')
  BY <1>3, TimelyLater DEF WhisperInv, Saying
<1>6. Saying'
  BY <1>2, <1>5 DEF WhisperInv, Saying
<1>7. ~ moved' => Accounted'
  BY <1>2 DEF WhisperInv, Accounted
<1>8. Stream!Answer
  <2>1. Stream!IsPrefix(said.stable, said'.stable)
    BY <1>2 DEF WhisperInv, WhisperTypes, Saying, Stream!IsPrefix
  <2> QED
    BY <1>2, <1>3, <1>5, <2>1 DEF Stream!Answer, Timely
<1> QED
  BY <1>4, <1>6, <1>7, <1>8 DEF WhisperInv

(* _trim: the buffer then begins where the cap cut it, or well behind the  *)
(* agreement point, and still ends where the audio does.                   *)
Trims(to, length, now, cut) ==
  LET drop == Whisper!Dropped(to, length)
      more == IF length > MaxBuffer THEN now - MaxBuffer ELSE cut
  IN  /\ drop \in Nat /\ drop <= length
      /\ more \in Nat /\ cut <= more /\ (more = 0 \/ more + MaxBuffer <= now)
      /\ offset <= cut \/ offset + Context <= to
           => offset + drop <= more \/ offset + drop + Context <= to

LEMMA TrimIs ==
  ASSUME Context \in Nat, MaxBuffer \in Nat, offset \in Nat, NEW length \in Nat, NEW to \in Nat,
         NEW now \in Nat, offset + length = now,
         NEW cut \in Nat, cut = 0 \/ cut + MaxBuffer <= now
  PROVE  Trims(to, length, now, cut)
<1> DEFINE drop == Whisper!Dropped(to, length)
           more == IF length > MaxBuffer THEN now - MaxBuffer ELSE cut
           back == to - Context
           behind == Whisper!Most(0, back) - offset
           over == IF length > MaxBuffer THEN length - MaxBuffer ELSE 0
<1>1. back \in Int /\ over \in Nat /\ over <= length
  OBVIOUS
<1>2. /\ Whisper!Most(0, back) \in Nat /\ behind \in Int
      /\ Whisper!Most(0, back) = 0 \/ Whisper!Most(0, back) = back
  BY <1>1 DEF Whisper!Most
<1>3. drop = Whisper!Least(Whisper!Most(0, Whisper!Most(behind, over)), length)
  BY DEF Whisper!Dropped
<1>4. more \in Nat /\ cut <= more /\ (more = 0 \/ more + MaxBuffer <= now)
      /\ (over > 0 => more = offset + over)
  OBVIOUS
<1> HIDE DEF behind, over, drop, more
<1>5. drop = over \/ (drop <= behind /\ behind > 0)
  BY <1>1, <1>2, <1>3 DEF Whisper!Least, Whisper!Most
<1>6. drop \in Nat /\ drop <= length
  BY <1>1, <1>2, <1>3 DEF Whisper!Least, Whisper!Most
<1>7. ASSUME offset <= cut \/ offset + Context <= to
      PROVE  offset + drop <= more \/ offset + drop + Context <= to
  <2>1. CASE drop <= behind /\ behind > 0
    <3>1. behind = back - offset
      BY <1>2, <2>1 DEF behind
    <3> QED
      BY <1>6, <2>1, <3>1
  <2>2. CASE drop = over /\ over > 0
    BY <1>4, <2>2
  <2>3. CASE drop = over /\ ~ (over > 0)
    BY <1>1, <1>4, <1>7, <2>3
  <2> QED
    BY <1>5, <2>1, <2>2, <2>3
<1> QED
  BY <1>4, <1>6, <1>7 DEF drop, more, Trims

(* The agreed words of a pass are what _absorb is given.                   *)
Absorbed(ws, now, exact) ==
  [base |-> [stable |-> stable, settled |-> settled], common |-> Whisper!CommonPrefix(previous, ws),
   now |-> now, off |-> offset, cut |-> lost, exact |-> exact]

LEMMA AbsorbIs ==
  ASSUME Whisper!WhisperAssumption, WhisperInv, ~ ended, NEW now \in Nat, at <= now,
         NEW ws, Timely(ws, now), NEW exact \in BOOLEAN,
         exact => Accounted /\ True(ws, offset, now),
         NEW state,
         state = Whisper!FoldLeft(Whisper!Promoted, [stable |-> stable, settled |-> settled],
                                  Whisper!CommonPrefix(previous, ws))
  PROVE  /\ state = [stable |-> state.stable, settled |-> state.settled]
         /\ Timely(state.stable, state.settled)
         /\ state.settled \in Nat /\ settled <= state.settled /\ state.settled <= now
         /\ Len(stable) <= Len(state.stable)
         /\ \A n \in 1 .. Len(stable) : state.stable[n] = stable[n]
         /\ exact => /\ Lie(state.stable)
                     /\ Context > 0 => Unique(state.stable, lost)
                     /\ Complete(state.stable, state.settled, lost)
<1> DEFINE p == Absorbed(ws, now, exact)
           common == Whisper!CommonPrefix(previous, ws)
           base == [stable |-> stable, settled |-> settled]
<1>1. /\ p.base = base /\ p.common = common /\ p.now = now /\ p.off = offset /\ p.cut = lost
      /\ p.exact = exact /\ base.stable = stable /\ base.settled = settled
  BY DEF Absorbed
<1>2. /\ at \in Nat /\ offset \in Nat /\ settled \in Nat /\ lost \in Nat /\ settled <= at
      /\ previous \in Seq(Whisper!Word) /\ stable \in Seq(Whisper!Word)
      /\ Timely(stable, settled)
  BY DEF WhisperInv, WhisperTypes, Buffered, Saying
<1>3. /\ ws \in Seq(Whisper!Word) /\ Len(ws) \in Nat /\ DOMAIN ws = 1 .. Len(ws)
      /\ Stream!Follow(ws) /\ \A n \in DOMAIN ws : ws[n].end <= now
  BY DEF Timely
<1> HIDE DEF p, base, common
<1>4. PICK k \in 0 .. Len(ws) : common = SubSeq(ws, 1, k)
  BY <1>2, <1>3, CommonIs DEF common
<1>5. /\ common \in Seq(Whisper!Word) /\ DOMAIN common = 1 .. k
      /\ \A n \in 1 .. k : common[n] = ws[n] /\ n \in 1 .. Len(ws)
  BY <1>3, <1>4
<1>6. Timely(common, now)
  BY <1>3, <1>5 DEF Timely, Stream!Follow
<1>7. ASSUME exact
      PROVE  /\ offset <= lost \/ offset + Context <= settled
             /\ \A n \in DOMAIN common : Tells(common[n], offset)
             /\ \A i \in Whisper!Ids : \A n \in DOMAIN common :
                  (/\ offset <= SpokenFrom[i] /\ SpokenTo[i] <= now
                   /\ i < Whisper!Spoken(common[n]))
                    => \E m \in DOMAIN common : m < n /\ Whisper!Spoken(common[m]) = i
  <2>1. /\ \A n \in 1 .. Len(ws) : Tells(ws[n], offset)
        /\ \A m, n \in 1 .. Len(ws) : m < n => Whisper!Spoken(ws[m]) < Whisper!Spoken(ws[n])
        /\ \A i \in Whisper!Ids : offset <= SpokenFrom[i] /\ SpokenTo[i] <= now => Says(ws, i)
    BY <1>3, <1>7 DEF True
  <2>2. offset <= lost \/ offset + Context <= settled
    BY <1>7 DEF Accounted
  <2>3. ASSUME NEW i \in Whisper!Ids, NEW n \in 1 .. k,
               offset <= SpokenFrom[i], SpokenTo[i] <= now, i < Whisper!Spoken(common[n])
        PROVE  \E m \in 1 .. k : m < n /\ Whisper!Spoken(common[m]) = i
    <3>1. PICK m \in 1 .. Len(ws) : Whisper!Spoken(ws[m]) = i
      BY <1>3, <2>1, <2>3 DEF Says
    <3>2. n \in 1 .. Len(ws) /\ i < Whisper!Spoken(ws[n]) /\ Whisper!Spoken(ws[n]) \in Whisper!Ids
      BY <1>5, <2>1, <2>3 DEF Tells
    <3>3. i \in Int /\ Whisper!Spoken(ws[n]) \in Int
      BY <3>2, Spans
    <3>4. m < n
      <4>1. ~ (n < m)
        BY <2>1, <3>1, <3>2, <3>3
      <4>2. m # n
        BY <3>1, <3>2, <3>3
      <4> QED
        BY <1>3, <3>1, <3>2, <4>1, <4>2
    <3>5. m \in 1 .. k
      BY <1>3, <1>4, <3>1, <3>4
    <3> QED
      BY <1>5, <3>1, <3>4, <3>5
  <2> QED
    BY <1>5, <2>1, <2>2, <2>3
<1>8. Promotable(p)
  BY <1>1, <1>2, <1>6, <1>7 DEF Promotable
<1>9. Settles(p, p.base)
  <2>1. settled <= now /\ settled <= settled /\ Len(stable) <= Len(stable)
    BY <1>2
  <2> QED
    BY <1>1, <1>2, <2>1 DEF Settles, base
<1>10. ASSUME p.exact PROVE Accounts(p, 0, p.base)
  BY <1>1, <1>10 DEF Accounts, Accounted
<1>11. PromotedTo(p, 0, p.base)
  BY <1>9, <1>10 DEF PromotedTo
<1>12. state = Whisper!FoldLeft(Whisper!Promoted, p.base, p.common)
  BY <1>1 DEF base, common
<1>13. PromotedTo(p, Len(p.common), state)
  BY <1>8, <1>11, <1>12, PromoteAll
<1>14. Settles(p, state) /\ (exact => Accounts(p, Len(p.common), state))
  BY <1>1, <1>13 DEF PromotedTo
<1>15. /\ state = [stable |-> state.stable, settled |-> state.settled]
       /\ Timely(state.stable, state.settled)
       /\ state.settled \in Nat /\ settled <= state.settled /\ state.settled <= now
       /\ Len(stable) <= Len(state.stable)
       /\ \A n \in 1 .. Len(stable) : state.stable[n] = stable[n]
  BY <1>1, <1>14, SMTT(30) DEF Settles
<1>16. exact => /\ Lie(state.stable)
                /\ Context > 0 => Unique(state.stable, lost)
                /\ Complete(state.stable, state.settled, lost)
  BY <1>1, <1>14 DEF Accounts
<1> QED
  BY ONLY <1>15, <1>16

(* What is stable is said again, whatever comes after it.                  *)
LEMMA StablePrefix ==
  ASSUME NEW s \in Seq(Whisper!Word), NEW t \in Seq(Whisper!Word), Len(s) <= Len(t),
         \A n \in 1 .. Len(s) : t[n] = s[n]
  PROVE  Stream!IsPrefix(s, t)
<1>1. Len(s) \in Nat /\ Len(t) \in Nat /\ \A n \in 1 .. Len(s) : n \in 1 .. Len(t)
  OBVIOUS
<1>2. SubSeq(s, 1, Len(s)) = [n \in 1 .. Len(s) |-> s[n]]
  OBVIOUS
<1>3. SubSeq(t, 1, Len(s)) = [n \in 1 .. Len(s) |-> t[n]]
  BY <1>1
<1> QED
  BY <1>1, <1>2, <1>3 DEF Stream!IsPrefix

(* A pass: what it hears and what has been agreed on is said.              *)
LEMMA WhisperInfers ==
  ASSUME Whisper!WhisperAssumption, WhisperInv, NEW d \in WhisperSteps, ~ ended, at' = at + d,
         NEW drift \in Int, NEW pass \in Whisper!Passes(at + d, drift), Whisper!Infer(d, pass),
         moved' = (moved \/ drift # 0), ended' = ended
  PROVE  WhisperInv' /\ Stream!Answer
<1> DEFINE now == at + d
           current == Whisper!Transcribed(pass, now)
           state == Whisper!FoldLeft(Whisper!Promoted, [stable |-> stable, settled |-> settled],
                                     Whisper!CommonPrefix(previous, current))
           drop == Whisper!Dropped(state.settled, held + d)
           rest == Whisper!Taken(current, state.settled, << >>)
<1>1. /\ at \in Nat /\ offset \in Nat /\ held \in Nat /\ settled \in Nat /\ lost \in Nat
      /\ moved \in BOOLEAN /\ stable \in Seq(Whisper!Word) /\ said.stable = stable
      /\ at = offset + held /\ settled <= at /\ (lost = 0 \/ lost + MaxBuffer <= at)
      /\ d \in Nat /\ MaxBuffer \in Nat /\ Context \in Nat
  BY DEF WhisperInv, WhisperTypes, Buffered, Saying, Whisper!WhisperAssumption
<1>2. /\ fresh' = 0 /\ previous' = current /\ stable' = state.stable /\ settled' = state.settled
      /\ offset' = offset + drop /\ held' = held + d - drop
      /\ said' = [stable |-> state.stable, tentative |-> rest]
      /\ lost' = IF held + d > MaxBuffer THEN at + d - MaxBuffer ELSE lost
  BY DEF Whisper!Infer
<1>3. now \in Nat /\ at <= now /\ offset <= now /\ at' = now /\ held + d \in Nat
      /\ offset + (held + d) = now
  BY <1>1
<1> HIDE DEF now
<1>4. /\ Timely(current, now)
      /\ drift = 0 => True(current, offset, now)
  <2>1. pass \in Whisper!Passes(now, drift)
    BY DEF now
  <2> QED
    BY <1>1, <1>3, <2>1, CurrentIs
<1> HIDE DEF current
<1>5. ~ moved' => ~ moved /\ drift = 0 /\ Accounted
  BY DEF WhisperInv
<1>6. /\ Timely(state.stable, state.settled)
      /\ state.settled \in Nat /\ settled <= state.settled /\ state.settled <= now
      /\ Len(stable) <= Len(state.stable)
      /\ \A n \in 1 .. Len(stable) : state.stable[n] = stable[n]
      /\ ~ moved' => /\ Lie(state.stable)
                     /\ Context > 0 => Unique(state.stable, lost)
                     /\ Complete(state.stable, state.settled, lost)
  <2>1. (~ moved') \in BOOLEAN /\ (~ moved' => Accounted /\ True(current, offset, now))
    BY <1>4, <1>5
  <2> HIDE DEF state
  <2>2. state = Whisper!FoldLeft(Whisper!Promoted, [stable |-> stable, settled |-> settled],
                                     Whisper!CommonPrefix(previous, current))
    BY DEF state
  <2>3. PICK exact \in BOOLEAN : exact = ~ moved'
    BY <2>1
  <2>4. exact => Accounted /\ True(current, offset, now)
    BY <2>1, <2>3
  <2>5. /\ Timely(state.stable, state.settled)
        /\ state.settled \in Nat /\ settled <= state.settled /\ state.settled <= now
        /\ Len(stable) <= Len(state.stable)
        /\ \A n \in 1 .. Len(stable) : state.stable[n] = stable[n]
        /\ exact => /\ Lie(state.stable)
                    /\ Context > 0 => Unique(state.stable, lost)
                    /\ Complete(state.stable, state.settled, lost)
    BY <1>3, <1>4, <2>2, <2>4, AbsorbIs
  <2> QED
    BY <2>3, <2>5
<1> HIDE DEF state
<1>7. /\ drop \in Nat /\ drop <= held + d
      /\ lost' \in Nat /\ lost <= lost' /\ (lost' = 0 \/ lost' + MaxBuffer <= now)
      /\ offset <= lost \/ offset + Context <= state.settled
           => offset + drop <= lost' \/ offset + drop + Context <= state.settled
  <2>1. lost = 0 \/ lost + MaxBuffer <= now
    BY <1>1, <1>3
  <2>2. lost' = IF held + d > MaxBuffer THEN now - MaxBuffer ELSE lost
    <3>1. at + d - MaxBuffer = now - MaxBuffer
      BY <1>1 DEF now
    <3> QED
      BY ONLY <1>2, <3>1
  <2>3. Context \in Nat /\ MaxBuffer \in Nat
    BY <1>1
  <2>4. Trims(state.settled, held + d, now, lost)
    BY ONLY <1>1, <1>3, <1>6, <2>1, <2>3, TrimIs
  <2> QED
    BY ONLY <2>2, <2>4 DEF Trims
<1> HIDE DEF drop
<1>8. /\ Timely(rest, now) /\ \A n \in DOMAIN rest : state.settled <= rest[n].start
  <2>1. Timely(<< >>, state.settled)
    BY <1>6, Nothing, TimelyLater
  <2>2. /\ Timely(rest, now)
        /\ \A n \in DOMAIN rest : n > Len(<< >>) => rest[n].start >= state.settled
    BY <1>3, <1>4, <1>6, <2>1, TakenFollows
  <2>3. rest \in Seq(Whisper!Word)
    BY <2>2 DEF Timely
  <2> HIDE DEF rest
  <2>4. \A n \in DOMAIN rest : rest[n].start \in Nat /\ n > Len(<< >>)
    <3>1. \A n \in DOMAIN rest : rest[n] \in Whisper!Word /\ n \in Nat \ {0}
      BY <2>3
    <3> QED
      BY <3>1 DEF Whisper!Word
  <2> QED
    BY <1>6, <2>2, <2>4
<1> HIDE DEF rest
<1>9. Timely(state.stable \o rest, now)
  BY <1>3, <1>6, <1>8, TimelyBoth
<1>10. Stream!Words(said') = state.stable \o rest /\ said'.stable = state.stable
  BY <1>2 DEF Stream!Words
<1>11. WhisperTypes'
  <2>1. previous' \in Seq(Whisper!Word) /\ stable' \in Seq(Whisper!Word)
    BY <1>2, <1>4, <1>6 DEF Timely
  <2>2. offset' \in Nat /\ held' \in Nat /\ at' \in Nat
    BY <1>1, <1>2, <1>3, <1>7
  <2>3. ended' \in BOOLEAN /\ moved' \in BOOLEAN
    BY ONLY moved' = (moved \/ drift # 0), ended' = ended, WhisperInv, ZenonT(20)
    DEF WhisperInv, WhisperTypes
  <2>4. fresh' \in Nat /\ settled' \in Nat
    BY <1>1, <1>2, <1>6
  <2> QED
    BY <1>7, <2>1, <2>2, <2>3, <2>4 DEF WhisperTypes
<1>12. Buffered'
  <2>1. at' = offset' + held'
    BY <1>1, <1>2, <1>3, <1>7
  <2> QED
    BY <1>2, <1>3, <1>6, <1>7, <2>1 DEF Buffered
<1>13. Saying'
  <2>1. Timely(stable', settled') /\ Timely(Stream!Words(said'), at') /\ said'.stable = stable'
    BY <1>2, <1>3, <1>6, <1>9, <1>10
  <2> QED
    BY <2>1 DEF Saying
<1>14. ASSUME ~ moved' PROVE Accounted'
  <2>1. offset <= lost \/ offset + Context <= state.settled
    BY <1>1, <1>5, <1>6, <1>14 DEF Accounted
  <2>2. offset' <= lost' \/ offset' + Context <= settled'
    BY <1>2, <1>7, <2>1
  <2>3. /\ Lie(stable')
        /\ Context > 0 => Unique(stable', lost')
        /\ Complete(stable', settled', lost')
    BY <1>1, <1>2, <1>6, <1>7, <1>14, Excuses
  <2> QED
    BY <2>2, <2>3 DEF Accounted
<1>15. Stream!Answer
  <2>1. Stream!IsPrefix(said.stable, said'.stable)
    BY <1>1, <1>6, <1>10, StablePrefix DEF Timely
  <2> QED
    BY <1>3, <1>9, <1>10, <2>1 DEF Stream!Answer, Timely
<1> QED
  BY <1>11, <1>12, <1>13, <1>14, <1>15 DEF WhisperInv

(* What the last pass leaves behind the agreement point: no word again     *)
(* that is stable already, and none of the audio's missing.                *)
LEMMA FlushedIs ==
  ASSUME Whisper!WhisperAssumption, WhisperInv, ~ ended, Accounted,
         NEW ws, Timely(ws, at), True(ws, offset, at), NEW out,
         Len(stable) <= Len(out), \A n \in 1 .. Len(stable) : out[n] = stable[n],
         out \in Seq(Whisper!Word),
         NEW e, Chooses(Takes(ws, settled, stable), Len(ws), out, e)
  PROVE  Whole(out, at, lost) /\ (Context > 0 => Unique(out, lost))
<1> DEFINE p == Takes(ws, settled, stable)
           L == Len(stable)
           N == Len(out)
           K == Len(ws)
<1>0. /\ \A i \in Whisper!Ids : /\ i \in Nat \ {0} /\ i \in Int
                                /\ SpokenFrom[i] \in Nat /\ SpokenTo[i] \in Nat
                                /\ SpokenFrom[i] < SpokenTo[i]
      /\ Context \in Nat
  BY Spans DEF Whisper!WhisperAssumption
<1>1. /\ at \in Nat /\ offset \in Nat /\ settled \in Nat /\ lost \in Nat
      /\ stable \in Seq(Whisper!Word) /\ L \in Nat /\ DOMAIN stable = 1 .. L
      /\ ws \in Seq(Whisper!Word) /\ K \in Nat /\ DOMAIN ws = 1 .. K
      /\ N \in Nat /\ DOMAIN out = 1 .. N /\ L <= N
      /\ \A n \in DOMAIN stable : stable[n].end <= settled
  BY DEF WhisperInv, WhisperTypes, Saying, Timely
<1>2. /\ \A n \in 1 .. L : stable[n].start \in Nat /\ stable[n].end \in Nat
      /\ \A n \in 1 .. K : ws[n].start \in Nat
  <2>1. (\A n \in 1 .. L : stable[n] \in Whisper!Word) /\ \A n \in 1 .. K : ws[n] \in Whisper!Word
    BY <1>1
  <2> QED
    BY <2>1 DEF Whisper!Word
<1>3. /\ offset <= lost \/ offset + Context <= settled
      /\ Context > 0 => Unique(stable, lost)
      /\ Lie(stable) /\ Complete(stable, settled, lost)
  BY DEF Accounted
<1>4. /\ \A n \in 1 .. K : Tells(ws[n], offset)
      /\ \A m, n \in 1 .. K : m < n => Whisper!Spoken(ws[m]) < Whisper!Spoken(ws[n])
      /\ \A i \in Whisper!Ids : offset <= SpokenFrom[i] /\ SpokenTo[i] <= at
           => \E n \in 1 .. K : Whisper!Spoken(ws[n]) = i
  BY <1>1 DEF True, Says
<1>5. /\ p.words = ws /\ p.base = stable
      /\ p.take = {n \in 1 .. K : ws[n].start >= settled}
  BY <1>1 DEF Takes
<1> HIDE DEF p, L, N, K
<1>6. /\ \A n \in 1 .. L : out[n] = stable[n]
      /\ e \in [(L + 1) .. N -> 1 .. K]
      /\ \A m, n \in (L + 1) .. N : m < n => e[m] < e[n]
      /\ \A n \in (L + 1) .. N : e[n] \in p.take /\ out[n] = ws[e[n]]
      /\ \A j \in 1 .. K : j \in p.take => \E n \in (L + 1) .. N : e[n] = j
  BY <1>5 DEF Chooses, p, L, N, K
<1>7. \A n \in 1 .. N : n \in 1 .. L \/ n \in (L + 1) .. N
  BY <1>1
<1>8. (\A n \in 1 .. L : n \in 1 .. N) /\ \A n \in (L + 1) .. N : n \in 1 .. N
  BY <1>1
<1>9. ASSUME NEW i, Says(stable, i) PROVE Says(out, i)
  <2>1. PICK n \in 1 .. L : Whisper!Spoken(stable[n]) = i
    BY <1>1, <1>9 DEF Says
  <2> QED
    BY <1>1, <1>6, <1>8, <2>1 DEF Says
<1>10. ASSUME NEW i \in Whisper!Ids, SpokenTo[i] <= at PROVE Says(out, i) \/ SpokenFrom[i] < lost
  <2>1. SpokenFrom[i] \in Nat
    BY <1>0
  <2>2. CASE SpokenFrom[i] < settled
    BY <1>3, <1>9, <2>2 DEF Complete
  <2>3. CASE ~ (SpokenFrom[i] < settled) /\ ~ (offset <= SpokenFrom[i])
    BY <1>0, <1>1, <1>3, <2>1, <2>3
  <2>4. CASE ~ (SpokenFrom[i] < settled) /\ offset <= SpokenFrom[i]
    <3>1. PICK k \in 1 .. K : Whisper!Spoken(ws[k]) = i
      BY <1>4, <1>10, <2>4
    <3>2. ws[k].start = Whisper!Most(SpokenFrom[i], offset)
      BY <1>4, <3>1 DEF Tells
    <3>3. ws[k].start >= settled
      BY <1>1, <2>1, <2>4, <3>2 DEF Whisper!Most
    <3>4. PICK n \in (L + 1) .. N : e[n] = k
      BY <1>5, <1>6, <3>3
    <3>5. Whisper!Spoken(out[n]) = i /\ n \in DOMAIN out
      BY <1>1, <1>6, <1>8, <3>1, <3>4
    <3> QED
      BY <3>5 DEF Says
  <2> QED
    BY <2>2, <2>3, <2>4
<1>11. ASSUME Context > 0, NEW m \in 1 .. L, NEW n \in (L + 1) .. N,
              Whisper!Spoken(out[m]) = Whisper!Spoken(out[n])
       PROVE  SpokenFrom[Whisper!Spoken(out[m])] < lost
  <2> DEFINE c == Whisper!Spoken(out[m])
  <2>1. /\ c \in Whisper!Ids /\ SpokenFrom[c] <= stable[m].start
        /\ stable[m].start < stable[m].end /\ stable[m].end <= settled
    BY <1>1, <1>3, <1>6 DEF Lie
  <2>2. e[n] \in 1 .. K /\ ws[e[n]].start >= settled /\ Whisper!Spoken(ws[e[n]]) = c
    BY <1>5, <1>6, <1>11
  <2>3. ws[e[n]].start = Whisper!Most(SpokenFrom[c], offset)
    BY <1>4, <2>2 DEF Tells
  <2> HIDE DEF c
  <2>4. SpokenFrom[c] \in Nat /\ stable[m].start \in Nat /\ stable[m].end \in Nat
    BY <1>0, <1>2, <2>1
  <2>5. SpokenFrom[c] < settled
    BY <1>1, <2>1, <2>4
  <2>6. settled <= offset /\ SpokenFrom[c] < offset
    BY <1>1, <2>2, <2>3, <2>4, <2>5 DEF Whisper!Most
  <2>7. SpokenFrom[c] < lost
    BY <1>0, <1>1, <1>3, <1>11, <2>4, <2>6
  <2> QED
    BY <2>7 DEF c
<1>12. ASSUME NEW m \in (L + 1) .. N, NEW n \in (L + 1) .. N,
              Whisper!Spoken(out[m]) = Whisper!Spoken(out[n])
       PROVE  m = n
  <2>1. ASSUME NEW k \in (L + 1) .. N, NEW l \in (L + 1) .. N, k < l
        PROVE  Whisper!Spoken(out[k]) # Whisper!Spoken(out[l])
    <3>1. e[k] \in 1 .. K /\ e[l] \in 1 .. K /\ e[k] < e[l] /\ out[k] = ws[e[k]] /\ out[l] = ws[e[l]]
      BY <1>6, <2>1
    <3>2. Whisper!Spoken(ws[e[k]]) < Whisper!Spoken(ws[e[l]])
      BY <1>4, <3>1
    <3>3. Whisper!Spoken(ws[e[k]]) \in Int /\ Whisper!Spoken(ws[e[l]]) \in Int
      BY <1>0, <1>4, <3>1 DEF Tells
    <3> QED
      BY <3>1, <3>2, <3>3
  <2>2. ~ (m < n) /\ ~ (n < m)
    BY <1>12, <2>1
  <2> QED
    BY <1>1, <2>2
<1>13. ASSUME Context > 0 PROVE Unique(out, lost)
  <2>1. Unique(stable, lost)
    BY <1>3, <1>13
  <2>2. ASSUME NEW m \in 1 .. N, NEW n \in 1 .. N, Whisper!Spoken(out[m]) = Whisper!Spoken(out[n])
        PROVE  m = n \/ SpokenFrom[Whisper!Spoken(out[m])] < lost
    <3>1. CASE m \in 1 .. L /\ n \in 1 .. L
      BY <1>1, <1>6, <2>1, <2>2, <3>1 DEF Unique
    <3>2. CASE m \in 1 .. L /\ n \in (L + 1) .. N
      BY <1>11, <1>13, <2>2, <3>2
    <3>3. CASE m \in (L + 1) .. N /\ n \in 1 .. L
      BY <1>11, <1>13, <2>2, <3>3
    <3>4. CASE m \in (L + 1) .. N /\ n \in (L + 1) .. N
      BY <1>12, <2>2, <3>4
    <3> QED
      BY <1>7, <3>1, <3>2, <3>3, <3>4
  <2> QED
    BY <1>1, <2>2 DEF Unique
<1> QED
  BY <1>10, <1>13 DEF Whole

LEMMA WhisperFlushes ==
  ASSUME Whisper!WhisperAssumption, WhisperInv, Whisper!Flush
  PROVE  WhisperInv' /\ Stream!Answer
<1>0. PICK drift \in Int : \E pass \in Whisper!Passes(at, drift) :
         stable' = Whisper!Flushed(Whisper!Transcribed(pass, at)) /\ moved' = (moved \/ drift # 0)
  BY DEF Whisper!Flush, Whisper!Drifts, Whisper!WhisperAssumption
<1>1. PICK pass \in Whisper!Passes(at, drift) :
         stable' = Whisper!Flushed(Whisper!Transcribed(pass, at)) /\ moved' = (moved \/ drift # 0)
  BY <1>0
<1> DEFINE current == Whisper!Transcribed(pass, at)
           out == Whisper!Taken(current, settled, stable)
<1>2. /\ ~ ended /\ ended' = TRUE /\ previous' = << >>
      /\ said' = [stable |-> stable', tentative |-> << >>]
      /\ at' = at /\ offset' = offset /\ held' = held /\ fresh' = fresh /\ settled' = settled
      /\ lost' = lost
  BY DEF Whisper!Flush
<1>3. /\ at \in Nat /\ offset \in Nat /\ held \in Nat /\ fresh \in Nat /\ settled \in Nat
      /\ lost \in Nat /\ stable \in Seq(Whisper!Word) /\ said.stable = stable
      /\ at = offset + held /\ settled <= at /\ offset <= at /\ Timely(stable, settled)
  BY <1>2 DEF WhisperInv, WhisperTypes, Buffered, Saying
<1>4. Timely(current, at) /\ (drift = 0 => True(current, offset, at))
  BY <1>3, CurrentIs
<1> HIDE DEF current
<1>5. /\ Timely(out, at)
      /\ Len(stable) <= Len(out) /\ \A n \in 1 .. Len(stable) : out[n] = stable[n]
      /\ \E e : Chooses(Takes(current, settled, stable), Len(current), out, e)
  <2>1. /\ settled \in Nat /\ at \in Nat /\ settled <= at
        /\ Timely(stable, settled) /\ Timely(current, at)
    BY <1>3, <1>4
  <2> QED
    BY ONLY <2>1, TakenFollows
<1>6. out \in Seq(Whisper!Word) /\ Stream!Follow(out)
  BY <1>5 DEF Timely
<1>7. stable' = out
  BY <1>1, <1>6, SortedIs DEF Whisper!Flushed, current
<1> HIDE DEF out
<1>8. WhisperTypes'
  <2>1. moved' \in BOOLEAN
    BY ONLY <1>1, WhisperInv, ZenonT(20) DEF WhisperInv, WhisperTypes
  <2>2. << >> \in Seq(Whisper!Word)
    OBVIOUS
  <2> QED
    BY <1>2, <1>3, <1>6, <1>7, <2>1, <2>2 DEF WhisperTypes
<1>9. Buffered'
  BY <1>2 DEF WhisperInv, Buffered
<1>10. Saying'
  <2>1. said'.stable = stable'
    BY <1>2
  <2> QED
    BY <1>2, <2>1 DEF Saying
<1>11. ASSUME ~ moved' PROVE Accounted'
  <2>1. Accounted /\ drift = 0
    BY <1>1, <1>11 DEF WhisperInv
  <2>2. PICK e : Chooses(Takes(current, settled, stable), Len(current), out, e)
    BY <1>5
  <2>3. Whole(out, at, lost) /\ (Context > 0 => Unique(out, lost))
    BY <1>2, <1>4, <1>5, <1>6, <2>1, <2>2, FlushedIs
  <2> QED
    BY <1>2, <1>7, <2>1, <2>3 DEF Accounted
<1>12. Stream!Answer
  <2>1. Stream!IsPrefix(said.stable, said'.stable)
    BY <1>2, <1>3, <1>5, <1>6, <1>7, StablePrefix
  <2>2. Stream!Words(said') = out
    BY <1>2, <1>6, <1>7 DEF Stream!Words
  <2> QED
    BY <1>2, <1>3, <1>6, <2>1, <2>2 DEF Stream!Answer
<1> QED
  BY <1>8, <1>9, <1>10, <1>11, <1>12 DEF WhisperInv

(* A step of the engine is one the contract of engines/base.py allows.     *)
LEMMA WhisperStep ==
  ASSUME Whisper!WhisperAssumption, WhisperInv, Whisper!Next \/ UNCHANGED Whisper!vars
  PROVE  WhisperInv' /\ [Stream!Answer \/ Stream!Restart]_(Stream!vars)
<1>1. ASSUME NEW d \in WhisperSteps, Whisper!Push(d) PROVE WhisperInv' /\ Stream!Answer
  <2>1. ~ ended /\ at' = at + d /\ ended' = ended
    BY <1>1 DEF Whisper!Push
  <2>2. CASE Whisper!Wait(d)
    BY <2>1, <2>2, WhisperWaits
  <2>3. CASE \E drift \in Whisper!Drifts : \E pass \in Whisper!Passes(at + d, drift) :
               Whisper!Infer(d, pass) /\ moved' = (moved \/ drift # 0)
    <3>1. PICK drift \in Int : \E pass \in Whisper!Passes(at + d, drift) :
               Whisper!Infer(d, pass) /\ moved' = (moved \/ drift # 0)
      BY <2>3 DEF Whisper!Drifts, Whisper!WhisperAssumption
    <3>2. PICK pass \in Whisper!Passes(at + d, drift) :
               Whisper!Infer(d, pass) /\ moved' = (moved \/ drift # 0)
      BY <3>1
    <3> QED
      BY <2>1, <3>2, WhisperInfers
  <2> QED
    BY <1>1, <2>2, <2>3 DEF Whisper!Push
<1> QED
  BY <1>1, WhisperFlushes, WhisperResets, WhisperStays DEF Whisper!Next

(* As long as the device is this engine.                                   *)
WhisperHolds == device = "whisper" => WhisperInv

LEMMA WhisperRuns ==
  /\ AdaptersInit => WhisperHolds
  /\ WhisperHolds /\ [AdaptersNext]_allVars =>
       /\ WhisperHolds'
       /\ device = "whisper" => [Stream!Answer \/ Stream!Restart]_(Stream!vars)
<1>1. AdaptersInit => WhisperHolds
  BY AdaptersAssumption, WhisperStarts DEF AdaptersInit, WhisperHolds
<1>2. ASSUME WhisperHolds, [AdaptersNext]_allVars, device = "whisper"
      PROVE  Whisper!Next \/ UNCHANGED Whisper!vars
  BY <1>2 DEF AdaptersNext, allVars, whisperVars, Whisper!vars
<1>3. ASSUME WhisperHolds, [AdaptersNext]_allVars PROVE device' = device
  BY <1>3 DEF AdaptersNext, allVars
<1>4. ASSUME WhisperHolds, [AdaptersNext]_allVars, device = "whisper"
      PROVE  WhisperInv' /\ [Stream!Answer \/ Stream!Restart]_(Stream!vars)
  <2>1. WhisperInv
    BY <1>4 DEF WhisperHolds
  <2> QED
    BY <1>2, <1>4, <2>1, AdaptersAssumption, WhisperStep
<1> QED
  BY <1>1, <1>3, <1>4 DEF WhisperHolds

(* WhisperEngine: whatever the passes hear and mishear, wherever the       *)
(* buffer is cut, no word is promoted twice and, at the end, none that was *)
(* whole in the audio is missing, but for what the cap cut; as long as no  *)
(* pass moves a boundary and some context is kept.                         *)
THEOREM SaysEachWordOnce == AdaptersSpec => []EachWordOnce
<1>1. ASSUME Whisper!WhisperAssumption, WhisperInv PROVE Whisper!EachWordOnce
  <2> SUFFICES ASSUME ~ moved, Context > 0
      PROVE  /\ \A m, n \in DOMAIN said.stable :
                  \/ Whisper!Spoken(said.stable[m]) = Whisper!Spoken(said.stable[n]) => m = n
                  \/ SpokenFrom[Whisper!Spoken(said.stable[m])] < lost
             /\ ended => \A i \in Whisper!Ids : SpokenTo[i] <= at =>
                           i \in Whisper!SaidWords \/ SpokenFrom[i] < lost
    BY DEF Whisper!EachWordOnce
  <2>1. said.stable = stable /\ Unique(stable, lost) /\ (ended => Whole(stable, at, lost))
    BY <1>1 DEF WhisperInv, Saying, Accounted
  <2>2. \A i : Says(stable, i) => i \in Whisper!SaidWords
    BY <2>1 DEF Says, Whisper!SaidWords
  <2> QED
    BY <2>1, <2>2 DEF Unique, Whole
<1>2. WhisperHolds => EachWordOnce
  BY <1>1, AdaptersAssumption DEF WhisperHolds, EachWordOnce
<1> QED
  BY <1>2, WhisperRuns, PTL DEF AdaptersSpec

-----------------------------------------------------------------------------
(* The other devices say nothing.                                          *)
Device == device \in {"regions", "sherpa", "whisper", "vad"}

Mute == device \in {"regions", "vad"} => said = Stream!Silent /\ at \in Nat

LEMMA MuteRuns ==
  /\ AdaptersInit => Device /\ Mute
  /\ Device /\ Mute /\ [AdaptersNext]_allVars =>
       /\ Device' /\ Mute'
       /\ device \in {"regions", "vad"} => [Stream!Answer \/ Stream!Restart]_(Stream!vars)
<1>1. AdaptersInit => Device /\ Mute
  BY DEF AdaptersInit, Device, Mute, Init, Sherpa!Init, Sherpa!Silent, Stream!Silent
<1>2. ASSUME Device, Mute, [AdaptersNext]_allVars PROVE device' = device
  BY <1>2 DEF AdaptersNext, allVars
<1>3. ASSUME Device, Mute, [AdaptersNext]_allVars, device \in {"regions", "vad"}
      PROVE  said' = Stream!Silent /\ at' \in Nat /\ [Stream!Answer \/ Stream!Restart]_(Stream!vars)
  <2>1. said = Stream!Silent /\ at \in Nat
    BY <1>3 DEF Mute
  <2>2. said' = said
    BY <1>3 DEF AdaptersNext, allVars
  <2>3. \/ \E d \in Nat : ~ ended /\ at' = at + d /\ ended' = ended
        \/ ~ ended /\ ended' = TRUE /\ at' = at
        \/ ended /\ at' = 0 /\ ended' = FALSE
        \/ at' = at /\ ended' = ended
    <3>1. CASE device = "regions" /\ Next
      <4>1. \A d \in Steps : d \in Nat
        BY RegionAssumption
      <4> QED
        BY <3>1, <4>1 DEF Next, Push, Flush, Reset
    <3>2. CASE device = "vad" /\ Vad!Next
      <4>1. \A d \in VadSteps : d \in Nat
        BY AdaptersAssumption DEF Vad!VadAssumption
      <4> QED
        BY <3>2, <4>1 DEF Vad!Next, Vad!Push, Vad!Finish, Vad!Reset
    <3>3. CASE UNCHANGED allVars
      BY <3>3 DEF allVars
    <3> QED
      BY <1>3, <3>1, <3>2, <3>3 DEF AdaptersNext
  <2>4. /\ Stream!Words(Stream!Silent) = << >> /\ Stream!Silent.stable = << >>
        /\ Stream!Silent.tentative = << >> /\ DOMAIN << >> = {}
        /\ Stream!IsPrefix(<< >>, << >>) /\ Stream!Follow(<< >>)
    BY DEF Stream!Words, Stream!Silent, Stream!IsPrefix, Stream!Follow
  <2>5. ASSUME ~ ended, at <= at' PROVE Stream!Answer
    BY <2>1, <2>2, <2>4, <2>5 DEF Stream!Answer
  <2>6. ASSUME ended, at' = 0, ended' = FALSE PROVE Stream!Restart
    BY <2>1, <2>2, <2>6 DEF Stream!Restart
  <2>7. at' \in Nat /\ ((~ ended /\ at <= at') \/ (ended /\ at' = 0 /\ ended' = FALSE)
                     \/ (at' = at /\ ended' = ended))
    BY <2>1, <2>3
  <2>8. Stream!Answer \/ Stream!Restart \/ UNCHANGED Stream!vars
    BY <2>2, <2>5, <2>6, <2>7 DEF Stream!vars
  <2> QED
    BY <2>1, <2>2, <2>7, <2>8
<1> QED
  BY <1>1, <1>2, <1>3 DEF Device, Mute

(* Both engines implement the contract of engines/base.py: the words of a  *)
(* hypothesis follow one another, what is stable is never taken back, and  *)
(* no word is ahead of the audio while the stream runs.                    *)
THEOREM EnginesKeepContract == AdaptersSpec => KeepsContract
<1>1. AdaptersInit => Stream!Init
  BY DEF AdaptersInit, Sherpa!Init, Stream!Init, Stream!Silent, Sherpa!Silent
<1>2. Device /\ (device = "sherpa" => [Stream!Answer \/ Stream!Restart]_(Stream!vars))
      /\ (device = "whisper" => [Stream!Answer \/ Stream!Restart]_(Stream!vars))
      /\ (device \in {"regions", "vad"} => [Stream!Answer \/ Stream!Restart]_(Stream!vars))
        => [Stream!Answer \/ Stream!Restart]_(Stream!vars)
  BY DEF Device
<1> QED
  BY <1>1, <1>2, SherpaRuns, WhisperRuns, MuteRuns, PTL DEF AdaptersSpec, KeepsContract, Stream!Spec

=============================================================================
