------------------------- MODULE TimingBufferProofs -------------------------
(***************************************************************************)
(* Proofs about TimingBuffer, for every size of the buffer, and whether or *)
(* not Interests are verified: the count and the dump stay within the      *)
(* buffer, the dump is stable, what it shows are whole measurements, and   *)
(* only a reset that meets an Interest makes a stamp miss the buffer.      *)
(***************************************************************************)
EXTENDS TimingBuffer, TLAPS

\* The stages that are stamped through pending.
Stages == {"start", "end", "fib", "tx"}

\* Where index and pending stand, with resets at any time.
BoundsInv ==
  /\ radio = "rx" \/ passed \/ pending # NoSeq => index < MaxMeasurements
  /\ radio = "count" => index <= old /\ old < MaxMeasurements
  /\ passed => radio \in Stages
  /\ main # "reset" /\ pending # NoSeq => pending = index
  /\ main = "dump" => cnt <= index

\* A reset that meets no Interest finds none in the middle of a stamp.
ResetInv ==
  clean => /\ main = "reset" => radio = "idle"
           /\ passed \/ radio = "count" => pending # NoSeq
           /\ radio = "count" => old = index

\* The stamps that the entry in progress has when the radio task is at a stage.
StampedBefore(stage) ==
  CASE stage = "start" -> {"rx"}
    [] stage \in {"verify", "end"} -> {"rx", "start"}
    [] stage = "fib" -> Stamped \ {"fib", "tx"}
    [] stage \in {"send", "tx"} -> Stamped \ {"tx"}
    [] stage = "count" -> Stamped
    [] OTHER -> {}

\* The entry in progress has the stamps of the Interest that is being handled.
ProgressInv ==
  /\ radio \in {"start", "verify", "end"} => HmacEnabled
  /\ radio # "idle" => handled > 0
  /\ clean /\ radio = "rx" => buffer[index] = ZeroEntry
  /\ clean /\ radio \notin {"idle", "rx"} /\ pending # NoSeq =>
       /\ \A f \in StampedBefore(radio) : buffer[index][f] = handled
       /\ \A f \in Fields \ Stamped : buffer[index][f] = 0

\* Complete entries are older than the Interest that is being handled.
OlderInv ==
  clean => \A i \in 0 .. index - 1 :
             IF radio = "idle" THEN buffer[i]["rx"] <= handled ELSE buffer[i]["rx"] < handled

-----------------------------------------------------------------------------
(* The bounds.                                                             *)

LEMMA InitBounds == Init => TypeOK /\ BoundsInv /\ ResetInv
<1> SUFFICES ASSUME Init PROVE TypeOK /\ BoundsInv /\ ResetInv
  OBVIOUS
<1> USE TimingAssumption DEF Init, NoSeq
<1>1. buffer \in [Seqs -> [Fields -> Nat]]
  BY DEF ZeroEntry
<1>2. TypeOK
  <2>1. passed \in BOOLEAN /\ stray \in BOOLEAN /\ clean \in BOOLEAN
    BY Zenon
  <2>2. QED
    BY <1>1, <2>1 DEF TypeOK
<1>3. QED
  BY <1>2 DEF BoundsInv, ResetInv

\* What a stamp leaves of the buffer.
LEMMA StampedType ==
  ASSUME TypeOK, NEW stage \in Stages, WriteStamp(stage)
  PROVE  buffer' \in [Seqs -> [Fields -> Nat]] /\ stray' \in BOOLEAN
<1>1. stage \in Fields
  BY DEF Stages, Fields
<1>2. stray' \in BOOLEAN
  BY DEF WriteStamp, TypeOK
<1>3. CASE pending = NoSeq
  BY <1>2, <1>3 DEF WriteStamp, TypeOK
<1>4. CASE pending # NoSeq
  <2>1. pending \in Seqs /\ handled \in Nat /\ buffer \in [Seqs -> [Fields -> Nat]]
    BY <1>4 DEF TypeOK
  <2>2. [buffer[pending] EXCEPT ![stage] = handled] \in [Fields -> Nat]
    BY <1>1, <2>1
  <2>3. buffer' = [buffer EXCEPT ![pending] = [buffer[pending] EXCEPT ![stage] = handled]]
    BY <1>4 DEF WriteStamp
  <2>4. QED
    BY <1>2, <2>1, <2>2, <2>3
<1>5. QED
  BY <1>3, <1>4

LEMMA BoundsStep ==
  ASSUME TypeOK, BoundsInv, [Next]_vars
  PROVE  TypeOK' /\ BoundsInv'
<1> USE TimingAssumption DEF TypeOK, BoundsInv, Stages, radioVars, mainVars
<1>a. /\ \A n : n \in Seqs <=> n \in 0 .. MaxMeasurements /\ n # MaxMeasurements
      /\ NoSeq \notin Seqs
  BY DEF Seqs, NoSeq
<1> USE <1>a
<1>1. CASE Begin
  <2>1. ZeroEntry \in [Fields -> Nat]
    BY DEF ZeroEntry
  <2>2. QED
    BY <1>1, <2>1 DEF Begin, NewInterest
<1>2. CASE BeginFull
  BY <1>2 DEF BeginFull, NewInterest, FirstStage
<1>3. CASE StampRx
  <2>1. [buffer[index] EXCEPT !["rx"] = handled] \in [Fields -> Nat]
    BY <1>3 DEF StampRx, Fields
  <2>2. buffer' \in [Seqs -> [Fields -> Nat]]
    BY <1>3, <2>1 DEF StampRx
  <2>3. QED
    BY <1>3, <2>2 DEF StampRx, FirstStage
<1>4. ASSUME NEW stage \in Stages, Check(stage) PROVE TypeOK' /\ BoundsInv'
  BY <1>4 DEF Check, After
<1>5. ASSUME NEW stage \in Stages, Stamp(stage) PROVE TypeOK' /\ BoundsInv'
  <2>1. buffer' \in [Seqs -> [Fields -> Nat]] /\ stray' \in BOOLEAN
    BY <1>5, StampedType DEF Stamp
  <2>2. passed' \in BOOLEAN
    BY <1>5, Zenon DEF Stamp
  <2>3. QED
    BY <1>5, <2>1, <2>2 DEF Stamp, After
<1>6. CASE StampTx
  <2>1. buffer' \in [Seqs -> [Fields -> Nat]] /\ stray' \in BOOLEAN
    BY <1>6, StampedType DEF StampTx
  <2>2. pending # NoSeq => old' < MaxMeasurements
    BY <1>6 DEF StampTx
  <2>3. passed' \in BOOLEAN
    BY <1>6, Zenon DEF StampTx
  <2>4. QED
    BY <1>6, <2>1, <2>2, <2>3 DEF StampTx
<1>7. CASE Count
  BY <1>7 DEF Count
<1>8. CASE Continue("verify", "end") \/ Continue("send", "tx")
  BY <1>8 DEF Continue
<1>9. CASE ResetIndex
  BY <1>9 DEF ResetIndex
<1>10. CASE ResetPending
  BY <1>10 DEF ResetPending
<1>11. CASE BeginDump \/ EndDump
  BY <1>11 DEF BeginDump, EndDump
<1>12. CASE UNCHANGED vars
  BY <1>12 DEF vars
<1>13. QED
  BY <1>1, <1>2, <1>3, <1>4, <1>5, <1>6, <1>7, <1>8, <1>9, <1>10, <1>11, <1>12 DEF Next, Radio

LEMMA ResetStep ==
  ASSUME TypeOK, BoundsInv, ResetInv, [Next]_vars
  PROVE  ResetInv'
<1> USE TimingAssumption DEF TypeOK, BoundsInv, ResetInv, Stages, Seqs, NoSeq, radioVars, mainVars
<1>1. CASE Begin \/ BeginFull
  BY <1>1 DEF Begin, BeginFull, NewInterest, FirstStage
<1>2. CASE StampRx
  BY <1>2 DEF StampRx, FirstStage
<1>3. ASSUME NEW stage \in Stages, Check(stage) PROVE ResetInv'
  BY <1>3 DEF Check, After
<1>4. ASSUME NEW stage \in Stages, Stamp(stage) PROVE ResetInv'
  BY <1>4 DEF Stamp, WriteStamp, After
<1>5. CASE StampTx
  BY <1>5 DEF StampTx, WriteStamp
<1>6. CASE Count
  BY <1>6 DEF Count
<1>7. CASE Continue("verify", "end") \/ Continue("send", "tx")
  BY <1>7 DEF Continue
<1>8. CASE ResetIndex
  BY <1>8 DEF ResetIndex
<1>9. CASE ResetPending
  BY <1>9 DEF ResetPending
<1>10. CASE BeginDump \/ EndDump
  BY <1>10 DEF BeginDump, EndDump
<1>11. CASE UNCHANGED vars
  BY <1>11 DEF vars
<1>12. QED
  BY <1>1, <1>2, <1>3, <1>4, <1>5, <1>6, <1>7, <1>8, <1>9, <1>10, <1>11 DEF Next, Radio

\* A dump reads entries of the buffer, with resets at any time.
THEOREM TypeTheorem == Spec => []TypeOK
<1>1. TypeOK /\ BoundsInv /\ [Next]_vars => TypeOK' /\ BoundsInv'
  BY BoundsStep
<1>2. QED
  BY <1>1, InitBounds, PTL DEF Spec

\* No entry below the count of a dump in progress is written to.
LEMMA StableStep ==
  ASSUME TypeOK, BoundsInv, [Next]_vars, main = "dump", NEW i \in 0 .. cnt - 1
  PROVE  buffer'[i] = buffer[i]
<1> USE TimingAssumption DEF TypeOK, BoundsInv, Seqs, NoSeq
<1>1. i \in Seqs /\ i # index /\ (pending # NoSeq => i # pending)
  OBVIOUS
<1>2. CASE Begin
  BY <1>1, <1>2 DEF Begin
<1>3. CASE StampRx
  BY <1>1, <1>3 DEF StampRx
<1>4. ASSUME NEW stage \in Stages, Stamp(stage) PROVE buffer'[i] = buffer[i]
  BY <1>1, <1>4 DEF Stamp, WriteStamp
<1>5. CASE StampTx
  BY <1>1, <1>5 DEF StampTx, WriteStamp
<1>6. ASSUME NEW stage \in Stages, Check(stage) PROVE buffer'[i] = buffer[i]
  BY <1>6 DEF Check
<1>7. CASE BeginFull \/ Count \/ Continue("verify", "end") \/ Continue("send", "tx")
  BY <1>7 DEF BeginFull, Count, Continue
<1>8. CASE ResetIndex \/ ResetPending \/ BeginDump \/ EndDump
  BY <1>8 DEF ResetIndex, ResetPending, BeginDump, EndDump
<1>9. CASE UNCHANGED vars
  BY <1>9 DEF vars
<1>10. QED
  BY <1>2, <1>3, <1>4, <1>5, <1>6, <1>7, <1>8, <1>9 DEF Next, Radio, Stages

\* The entries that a dump is going to show do not change under it.
THEOREM DumpTheorem == Spec => DumpIsStable
<1>1. TypeOK /\ BoundsInv /\ [Next]_vars => TypeOK' /\ BoundsInv'
  BY BoundsStep
<1>2. TypeOK /\ BoundsInv /\ [Next]_vars
        => [main = "dump" => \A i \in 0 .. cnt - 1 : buffer'[i] = buffer[i]]_vars
  BY StableStep
<1>3. QED
  BY <1>1, <1>2, InitBounds, PTL DEF Spec, DumpIsStable

\* A stamp that misses the buffer was overtaken by a reset.
LEMMA StrayStep ==
  ASSUME TypeOK, BoundsInv, ResetInv, [Next]_vars, stray' # stray
  PROVE  ~clean
<1>1. ASSUME NEW stage \in Stages, Stamp(stage) PROVE ~clean
  BY <1>1 DEF Stamp, WriteStamp, ResetInv, TypeOK
<1>2. CASE StampTx
  BY <1>2 DEF StampTx, WriteStamp, ResetInv, TypeOK
<1>3. ASSUME NEW stage \in Stages PROVE ~Check(stage)
  BY DEF Check
<1>4. QED
  BY <1>1, <1>2, <1>3 DEF Next, Radio, Stages, Begin, BeginFull, NewInterest, StampRx, Count,
       Continue, ResetIndex, ResetPending, BeginDump, EndDump, vars

\* Only a reset that meets an Interest makes a stamp miss the buffer.
THEOREM StrayTheorem == Spec => StrayOnlyByReset
<1> DEFINE SInv == TypeOK /\ BoundsInv /\ ResetInv
<1>1. SInv /\ [Next]_vars => SInv'
  BY BoundsStep, ResetStep
<1>2. SInv /\ [Next]_vars => [stray' # stray => ~clean]_vars
  BY StrayStep
<1>3. Init => SInv
  BY InitBounds
<1>4. QED
  BY <1>1, <1>2, <1>3, PTL DEF Spec, StrayOnlyByReset

-----------------------------------------------------------------------------
(* What the entries hold.                                                  *)

BaseInv == TypeOK /\ BoundsInv /\ ResetInv

\* Entry e of a measurement that has reached a stage.
InProgress(e, stage) ==
  /\ \A f \in StampedBefore(stage) : e[f] = handled
  /\ \A f \in Fields \ Stamped : e[f] = 0

\* Complete entries below n, the Interests of which came in order, the last before m.
Complete(b, n, m) ==
  /\ \A i \in 0 .. n - 1 : b[i]["rx"] # 0 /\ Measured(b[i]) /\ b[i]["rx"] < m
  /\ \A i, j \in 0 .. n - 1 : i < j => b[i]["rx"] < b[j]["rx"]

\* The first Interest that none of the entries may be of.
Bound == IF radio = "idle" THEN handled + 1 ELSE handled

LEMMA CompleteIs ==
  ASSUME TypeOK
  PROVE  OlderInv /\ EntriesMeasured <=> (clean => Complete(buffer, index, Bound))
<1>1. \A i \in 0 .. index - 1 : buffer[i]["rx"] \in Nat
  BY TimingAssumption DEF TypeOK, Seqs, Fields
<1>2. \A i \in 0 .. index - 1 :
        (IF radio = "idle" THEN buffer[i]["rx"] <= handled ELSE buffer[i]["rx"] < handled)
          <=> buffer[i]["rx"] < Bound
  BY <1>1 DEF Bound, TypeOK
<1>3. QED
  BY <1>2 DEF OlderInv, EntriesMeasured, Complete

\* A stamp gives the entry in progress the stamp of its stage.
LEMMA StampProgress ==
  ASSUME TypeOK, ProgressInv, clean, pending # NoSeq, pending = index,
         NEW stage \in Stages, radio = stage, WriteStamp(stage), handled' = handled
  PROVE  /\ \A f \in StampedBefore(stage) \cup {stage} : buffer'[index][f] = handled
         /\ \A f \in Fields \ Stamped : buffer'[index][f] = 0
<1>1. index \in Seqs
  BY DEF TypeOK
<1>2. buffer'[index] = [buffer[index] EXCEPT ![stage] = handled]
  BY <1>1 DEF WriteStamp, TypeOK
<1>3. stage \in Fields /\ DOMAIN buffer[index] = Fields
  BY <1>1 DEF Stages, Fields, TypeOK
<1>4. StampedBefore(stage) \subseteq Fields
  BY DEF StampedBefore, Stamped, Fields, Stages
<1>5. stage \in Stamped
  BY TimingAssumption DEF ProgressInv, Stamped, Fields, Stages
<1>6. InProgress(buffer[index], stage)
  BY DEF ProgressInv, InProgress, Stages
<1>7. QED
  BY <1>2, <1>3, <1>4, <1>5, <1>6 DEF InProgress

LEMMA ProgressStep ==
  ASSUME BaseInv, ProgressInv, [Next]_vars
  PROVE  ProgressInv'
<1> USE TimingAssumption DEF BaseInv, ProgressInv, TypeOK, BoundsInv, ResetInv, radioVars, mainVars
<1>1. CASE Begin
  BY <1>1 DEF Begin, NewInterest, Seqs
<1>2. CASE BeginFull
  BY <1>2 DEF BeginFull, NewInterest, FirstStage
<1>3. CASE StampRx
  <2>1. index \in Seqs /\ buffer'[index] = [buffer[index] EXCEPT !["rx"] = handled]
    BY <1>3 DEF StampRx, Seqs
  <2>2. ASSUME clean
        PROVE  /\ buffer'[index]["rx"] = handled
               /\ \A f \in Fields \ Stamped : buffer'[index][f] = 0
    BY <1>3, <2>1, <2>2 DEF StampRx, ZeroEntry, Fields, Stamped
  <2>3. StampedBefore(FirstStage) = {"rx"}
    BY DEF StampedBefore, FirstStage, Stamped, Fields
  <2>4. QED
    BY <1>3, <2>2, <2>3 DEF StampRx, FirstStage, StampedBefore
<1>4. ASSUME NEW stage \in Stages, Check(stage) PROVE ProgressInv'
  BY <1>4 DEF Check, After, Stages, StampedBefore, Stamped
<1>5. ASSUME NEW stage \in Stages \ {"tx"}, Stamp(stage) PROVE ProgressInv'
  <2>1. /\ stage \in Stages /\ radio = stage /\ passed /\ WriteStamp(stage)
        /\ radio' = After[stage]
        /\ UNCHANGED <<index, pending, handled, clean>>
    BY <1>5 DEF Stamp
  <2>2. ASSUME clean, pending # NoSeq
        PROVE  \A f \in StampedBefore(radio') \cup (Fields \ Stamped) :
                 buffer'[index][f] = IF f \in Stamped THEN handled ELSE 0
    <3>1. pending = index
      BY <2>1, <2>2 DEF Stages
    <3>2. /\ \A f \in StampedBefore(stage) \cup {stage} : buffer'[index][f] = handled
          /\ \A f \in Fields \ Stamped : buffer'[index][f] = 0
      BY <2>1, <2>2, <3>1, StampProgress
    <3>3. /\ StampedBefore(radio') \subseteq StampedBefore(stage) \cup {stage}
          /\ StampedBefore(radio') \subseteq Stamped
      BY <2>1 DEF StampedBefore, Stamped, After, Stages, Fields
    <3>4. QED
      BY <3>2, <3>3
  <2>3. StampedBefore(radio') \subseteq Stamped
    BY <2>1 DEF StampedBefore, Stamped, After, Stages, Fields
  <2>4. radio' \in {"start", "verify", "end"} => HmacEnabled
    BY <2>1 DEF After, Stages
  <2>5. radio' \notin {"idle", "rx"} /\ handled' > 0
    BY <2>1 DEF After, Stages
  <2>6. QED
    BY <2>1, <2>2, <2>3, <2>4, <2>5 DEF StampedBefore
<1>6. CASE StampTx
  <2>1. ASSUME clean
        PROVE  \A f \in Fields : buffer'[index][f] = IF f \in Stamped THEN handled ELSE 0
    <3>1. pending # NoSeq /\ pending = index /\ WriteStamp("tx") /\ handled' = handled
      BY <1>6, <2>1 DEF StampTx
    <3>2. /\ \A f \in StampedBefore("tx") \cup {"tx"} : buffer'[index][f] = handled
          /\ \A f \in Fields \ Stamped : buffer'[index][f] = 0
      BY <1>6, <2>1, <3>1, StampProgress DEF StampTx, Stages
    <3>3. StampedBefore("tx") \cup {"tx"} = Stamped
      BY DEF StampedBefore, Stamped, Fields
    <3>4. QED
      BY <3>2, <3>3
  <2>2. StampedBefore("count") = Stamped /\ Stamped \subseteq Fields
    BY DEF StampedBefore, Stamped, Fields
  <2>3. QED
    BY <1>6, <2>1, <2>2 DEF StampTx, StampedBefore
<1>7. CASE Count
  BY <1>7 DEF Count
<1>8. CASE Continue("verify", "end") \/ Continue("send", "tx")
  BY <1>8 DEF Continue, StampedBefore, Stamped
<1>9. CASE ResetIndex
  BY <1>9 DEF ResetIndex
<1>10. CASE ResetPending
  BY <1>10 DEF ResetPending
<1>11. CASE BeginDump \/ EndDump
  BY <1>11 DEF BeginDump, EndDump, StampedBefore, Stamped
<1>12. CASE UNCHANGED vars
  BY <1>12 DEF vars, StampedBefore, Stamped
<1>13. QED
  BY <1>1, <1>2, <1>3, <1>4, <1>5, <1>6, <1>7, <1>8, <1>9, <1>10, <1>11, <1>12
  DEF Next, Radio, Stages

LEMMA BoundType ==
  /\ TypeOK => Bound \in Nat
  /\ TypeOK' => Bound' \in Nat
<1>1. /\ TypeOK => handled \in Nat /\ handled + 1 \in Nat
      /\ TypeOK' => handled' \in Nat /\ handled' + 1 \in Nat
  BY DEF TypeOK
<1>2. QED
  BY <1>1 DEF Bound

\* The complete entries are not written to, and the next Interest is a later one.
LEMMA CompleteKept ==
  ASSUME TypeOK, TypeOK', Complete(buffer, index, Bound), index' \in {0, index},
         \A i \in Seqs : i < index => buffer'[i] = buffer[i], Bound <= Bound'
  PROVE  Complete(buffer', index', Bound')
<1>1. Bound \in Nat /\ Bound' \in Nat
  BY BoundType, Zenon
<1>2. index \in 0 .. MaxMeasurements
  BY DEF TypeOK
<1>3. ASSUME NEW i \in 0 .. index' - 1
      PROVE  /\ i \in Seqs /\ i \in 0 .. index - 1
             /\ buffer'[i] = buffer[i] /\ buffer[i]["rx"] \in Nat
  <2>1. i \in Seqs /\ i \in 0 .. index - 1 /\ i < index
    BY <1>2, TimingAssumption DEF Seqs
  <2>2. buffer[i] \in [Fields -> Nat]
    BY <2>1 DEF TypeOK
  <2>3. QED
    BY <2>1, <2>2 DEF Fields
<1>4. ASSUME NEW i \in 0 .. index' - 1
      PROVE  buffer'[i]["rx"] # 0 /\ Measured(buffer'[i]) /\ buffer'[i]["rx"] < Bound'
  <2>1. buffer[i]["rx"] # 0 /\ Measured(buffer[i]) /\ buffer[i]["rx"] < Bound
    BY <1>3 DEF Complete
  <2>2. QED
    BY <1>1, <1>3, <2>1
<1>5. \A i, j \in 0 .. index' - 1 : i < j => buffer'[i]["rx"] < buffer'[j]["rx"]
  BY <1>3 DEF Complete
<1>6. QED
  BY <1>4, <1>5 DEF Complete

\* The entry in progress is complete when it is counted.
LEMMA CompleteCount ==
  ASSUME BaseInv, ProgressInv, Count, clean, Complete(buffer, index, Bound)
  PROVE  Complete(buffer', index', Bound')
<1> USE DEF BaseInv, TypeOK, Count
<1>1. /\ index \in Seqs /\ index' = index + 1 /\ buffer' = buffer
      /\ Bound = handled /\ Bound' = handled + 1 /\ handled > 0
  BY DEF BoundsInv, ResetInv, ProgressInv, Bound, Seqs
<1>2. InProgress(buffer[index], "count")
  BY DEF ProgressInv, InProgress, ResetInv
<1>3. buffer[index]["rx"] = handled /\ Measured(buffer[index])
  BY <1>2 DEF InProgress, StampedBefore, Measured, Stamped, Fields
<1>4. \A i \in 0 .. index : i \in 0 .. index - 1 \/ i = index
  BY <1>1
<1>5. ASSUME NEW i \in 0 .. index - 1
      PROVE  buffer[i]["rx"] # 0 /\ Measured(buffer[i]) /\ buffer[i]["rx"] < handled
  BY <1>1 DEF Complete
<1>6. ASSUME NEW i \in 0 .. index - 1 PROVE buffer[i]["rx"] \in Nat
  <2>1. i \in Seqs
    BY TimingAssumption DEF Seqs
  <2>2. QED
    BY <2>1 DEF Fields
<1>7. ASSUME NEW i \in 0 .. index
      PROVE  buffer[i]["rx"] # 0 /\ Measured(buffer[i]) /\ buffer[i]["rx"] < handled + 1
  <2>1. CASE i = index
    BY <1>1, <1>3, <2>1
  <2>2. CASE i \in 0 .. index - 1
    BY <1>5, <1>6, <2>2
  <2>3. QED
    BY <1>4, <2>1, <2>2
<1>8. ASSUME NEW i \in 0 .. index, NEW j \in 0 .. index, i < j
      PROVE  buffer[i]["rx"] < buffer[j]["rx"]
  <2>1. i \in 0 .. index - 1
    BY <1>8
  <2>2. CASE j = index
    BY <1>3, <1>5, <2>1, <2>2
  <2>3. CASE j \in 0 .. index - 1
    BY <1>8, <2>1, <2>3 DEF Complete
  <2>4. QED
    BY <1>4, <2>2, <2>3
<1>9. index' - 1 = index
  BY <1>1 DEF Seqs
<1>10. QED
  BY <1>1, <1>7, <1>8, <1>9 DEF Complete

LEMMA CompleteStep ==
  ASSUME BaseInv, BaseInv', ProgressInv, [Next]_vars, clean',
         clean => Complete(buffer, index, Bound)
  PROVE  Complete(buffer', index', Bound')
<1> USE TimingAssumption DEF BaseInv, TypeOK, radioVars, mainVars
<1>a. handled \in Nat /\ handled <= handled + 1 /\ handled + 1 <= handled + 1
  OBVIOUS
<1>b. radio' = radio /\ handled' = handled => Bound <= Bound'
  BY <1>a DEF Bound
<1>c. radio # "idle" /\ handled' = handled => Bound <= Bound'
  BY <1>a DEF Bound
<1>d. radio = "idle" /\ radio' # "idle" /\ handled' = handled + 1 => Bound <= Bound'
  BY <1>a DEF Bound
<1> USE <1>b, <1>c, <1>d
<1> DEFINE Kept == /\ clean /\ index' = index /\ Bound <= Bound'
                   /\ \A i \in Seqs : i < index => buffer'[i] = buffer[i]
<1>1. Kept => Complete(buffer', index', Bound')
  BY CompleteKept
<1> HIDE DEF Kept
<1>2. CASE Begin \/ BeginFull
  <2>1. /\ clean /\ index' = index /\ handled' = handled + 1
        /\ radio = "idle" /\ radio' # "idle"
    BY <1>2 DEF Begin, BeginFull, NewInterest, FirstStage
  <2>2. \A i \in Seqs : i < index => buffer'[i] = buffer[i]
    BY <1>2 DEF Begin, BeginFull, Seqs
  <2>3. QED
    BY <1>1, <2>1, <2>2 DEF Kept
<1>3. CASE StampRx
  BY <1>1, <1>3 DEF StampRx, FirstStage, Kept, Seqs
<1>4. ASSUME NEW stage \in Stages, Check(stage) PROVE Complete(buffer', index', Bound')
  <2>1. Kept
    BY <1>4 DEF Check, Kept, After, Stages
  <2>2. QED
    BY <1>1, <2>1
<1>5. ASSUME NEW stage \in Stages, Stamp(stage) PROVE Complete(buffer', index', Bound')
  <2>1. Bound <= Bound' /\ index' = index /\ clean
    BY <1>5 DEF Stamp, After, Stages
  <2>2. pending = index
    BY <1>5, <2>1 DEF Stamp, BoundsInv, ResetInv, Stages
  <2>3. \A i \in Seqs : i < index => buffer'[i] = buffer[i]
    BY <1>5, <2>2 DEF Stamp, WriteStamp, Seqs
  <2>4. QED
    BY <1>1, <2>1, <2>3 DEF Kept
<1>6. CASE StampTx
  <2>1. Bound <= Bound' /\ index' = index /\ clean
    BY <1>6 DEF StampTx
  <2>2. pending = index
    BY <1>6, <2>1 DEF StampTx, BoundsInv, ResetInv
  <2>3. \A i \in Seqs : i < index => buffer'[i] = buffer[i]
    BY <1>6, <2>2 DEF StampTx, WriteStamp, Seqs
  <2>4. QED
    BY <1>1, <2>1, <2>3 DEF Kept
<1>7. CASE Count
  BY <1>7, CompleteCount DEF Count
<1>8. CASE Continue("verify", "end") \/ Continue("send", "tx")
  <2>1. Kept
    BY <1>8 DEF Continue, Kept
  <2>2. QED
    BY <1>1, <2>1
<1>9. CASE ResetIndex
  BY <1>9 DEF ResetIndex, Complete
<1>10. CASE ResetPending \/ BeginDump \/ EndDump \/ UNCHANGED vars
  <2>1. Kept
    BY <1>10 DEF ResetPending, BeginDump, EndDump, vars, Kept
  <2>2. QED
    BY <1>1, <2>1
<1>11. QED
  BY <1>2, <1>3, <1>4, <1>5, <1>6, <1>7, <1>8, <1>9, <1>10 DEF Next, Radio, Stages

\* What a dump shows are whole measurements of different Interests in their order,
\* unless a reset met an Interest.
THEOREM MeasuredTheorem == Spec => []EntriesMeasured
<1> DEFINE MInv == BaseInv /\ ProgressInv /\ (clean => Complete(buffer, index, Bound))
<1>1. Init => MInv
  <2>1. Init => ProgressInv
    BY DEF Init, ProgressInv
  <2>2. Init => Complete(buffer, index, Bound)
    BY DEF Init, Complete
  <2>3. QED
    BY <2>1, <2>2, InitBounds DEF BaseInv
<1>2. MInv /\ [Next]_vars => MInv'
  <2> SUFFICES ASSUME MInv, [Next]_vars PROVE MInv'
    OBVIOUS
  <2>1. BaseInv'
    BY BoundsStep, ResetStep DEF BaseInv
  <2>2. ProgressInv'
    BY ProgressStep
  <2>3. clean' => Complete(buffer', index', Bound')
    BY <2>1, CompleteStep
  <2>4. QED
    BY <2>1, <2>2, <2>3
<1>3. MInv => EntriesMeasured
  BY CompleteIs DEF BaseInv
<1>4. QED
  BY <1>1, <1>2, <1>3, PTL DEF Spec
=============================================================================
