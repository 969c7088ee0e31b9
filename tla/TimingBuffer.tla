---------------------------- MODULE TimingBuffer ----------------------------
(***************************************************************************)
(* InterestPacketTimingBuffer of a perf build.  The radio task stamps the  *)
(* stages of each Interest it handles, and the commands dump_perf and      *)
(* reset_perf of the main loop read and empty the buffer from another      *)
(* task.  Nothing is locked: there is one action for every access to       *)
(* `index' or `pending' that the other task may come before.  Between the  *)
(* test of `pending' and its use as an index the code reads the clock, a   *)
(* call after which the member is loaded again.                            *)
(*                                                                         *)
(* A stamp is modelled by the number of the Interest it was taken for.     *)
(***************************************************************************)
EXTENDS Integers

CONSTANTS
  MaxMeasurements,  \* MAX_MEASUREMENTS
  HmacEnabled,      \* Interests are verified, and the verification is measured
  MaxInterests      \* bound: Interests handled

ASSUME TimingAssumption ==
  /\ MaxMeasurements \in Nat \ {0}
  /\ HmacEnabled \in BOOLEAN
  /\ MaxInterests \in Nat

Fields == {"rx", "start", "end", "fib", "tx"}

\* The value of pending_seq while nothing is measured.
NoSeq == -1

Seqs == 0 .. MaxMeasurements - 1

VARIABLES
  buffer, index, pending,
  radio,     \* what the radio task is about to do
  passed,    \* it has tested pending, and is about to use it
  old,       \* the index that it has read and will add one to
  handled,   \* the number of the Interest it handles, or handled last
  main,      \* what the main loop is doing
  cnt,       \* how many entries the dump is going to show
  stray,     \* a stamp was written past the end of the buffer
  clean      \* no Interest was being handled during the last reset

vars == <<buffer, index, pending, radio, passed, old, handled, main, cnt, stray, clean>>

radioVars == <<radio, passed, old, handled>>
mainVars  == <<main, cnt>>

ZeroEntry == [f \in Fields |-> 0]

Init ==
  /\ buffer = [i \in Seqs |-> ZeroEntry]
  /\ index = 0 /\ pending = NoSeq
  /\ radio = "idle" /\ passed = FALSE /\ old = 0 /\ handled = 0
  /\ main = "idle" /\ cnt = 0
  /\ stray = FALSE /\ clean = TRUE

FirstStage == IF HmacEnabled THEN "start" ELSE "fib"

NewInterest ==
  /\ radio = "idle"
  /\ handled < MaxInterests
  /\ handled' = handled + 1
  /\ clean' = (clean /\ main # "reset")
  /\ UNCHANGED <<index, pending, passed, old, mainVars, stray>>

\* Faulty: measuring goes on when the buffer is full.
BeginUnchecked ==
  /\ NewInterest
  /\ radio' = "rx"
  /\ buffer' = [buffer EXCEPT ![index] = ZeroEntry]

\* recordInterestRx, up to where it reads the clock.
Begin ==
  /\ NewInterest
  /\ index < MaxMeasurements
  /\ radio' = "rx"
  /\ buffer' = [buffer EXCEPT ![index] = ZeroEntry]

\* A full buffer measures no more Interests.
BeginFull ==
  /\ NewInterest
  /\ index >= MaxMeasurements
  /\ radio' = FirstStage
  /\ UNCHANGED buffer

\* Faulty: an Interest counts as measured from its arrival on.
StampRxCounting ==
  /\ radio = "rx"
  /\ buffer' = [buffer EXCEPT ![index]["rx"] = handled]
  /\ pending' = index
  /\ index' = index + 1
  /\ radio' = FirstStage
  /\ UNCHANGED <<passed, old, handled, mainVars, stray, clean>>

StampRx ==
  /\ radio = "rx"
  /\ buffer' = [buffer EXCEPT ![index]["rx"] = handled]
  /\ pending' = index
  /\ radio' = FirstStage
  /\ UNCHANGED <<index, passed, old, handled, mainVars, stray, clean>>

\* What follows each of the stages that are stamped through pending.
After == [start |-> "verify", end |-> "fib", fib |-> "send", tx |-> "idle"]

\* Faulty: a stage is stamped whether or not an Interest is being measured.
CheckNothing(stage) ==
  /\ radio = stage /\ ~passed
  /\ passed' = TRUE
  /\ UNCHANGED <<buffer, index, pending, radio, old, handled, mainVars, stray, clean>>

\* The test at the head of every other record method.
Check(stage) ==
  /\ radio = stage /\ ~passed
  /\ passed' = (pending # NoSeq)
  /\ radio' = IF pending = NoSeq THEN After[stage] ELSE stage
  /\ UNCHANGED <<buffer, index, pending, old, handled, mainVars, stray, clean>>

WriteStamp(stage) ==
  /\ buffer' = IF pending = NoSeq THEN buffer
               ELSE [buffer EXCEPT ![pending][stage] = handled]
  /\ stray' = (stray \/ pending = NoSeq)

\* recordSecurityCheckStart, recordSecurityCheckEnd and recordFibLookup.
Stamp(stage) ==
  /\ radio = stage /\ passed
  /\ WriteStamp(stage)
  /\ radio' = After[stage] /\ passed' = FALSE
  /\ UNCHANGED <<index, pending, old, handled, mainVars, clean>>

\* recordForwardTx, up to where index++ has read the index.
StampTx ==
  /\ radio = "tx" /\ passed
  /\ WriteStamp("tx")
  /\ old' = index
  /\ radio' = "count" /\ passed' = FALSE
  /\ UNCHANGED <<index, pending, handled, mainVars, clean>>

\* Faulty: a measurement that is complete remains the one in progress.
CountStillPending ==
  /\ radio = "count"
  /\ index' = old + 1
  /\ radio' = "idle"
  /\ UNCHANGED <<buffer, pending, passed, old, handled, mainVars, stray, clean>>

Count ==
  /\ radio = "count"
  /\ index' = old + 1
  /\ pending' = NoSeq
  /\ radio' = "idle"
  /\ UNCHANGED <<buffer, passed, old, handled, mainVars, stray, clean>>

\* A packet that fails the verification, or is not forwarded, is left unfinished.
Continue(stage, next) ==
  /\ radio = stage
  /\ radio' \in {next, "idle"}
  /\ UNCHANGED <<buffer, index, pending, passed, old, handled, mainVars, stray, clean>>

Radio ==
  \/ Begin \/ BeginFull \/ StampRx
  \/ \E stage \in {"start", "end", "fib", "tx"} : Check(stage)
  \/ \E stage \in {"start", "end", "fib"} : Stamp(stage)
  \/ StampTx \/ Count
  \/ Continue("verify", "end") \/ Continue("send", "tx")

\* reset is two assignments.
ResetIndex ==
  /\ main = "idle"
  /\ index' = 0
  /\ main' = "reset"
  /\ clean' = (radio = "idle")
  /\ UNCHANGED <<buffer, pending, radioVars, cnt, stray>>

ResetPending ==
  /\ main = "reset"
  /\ pending' = NoSeq
  /\ main' = "idle"
  /\ UNCHANGED <<buffer, index, radioVars, cnt, stray, clean>>

\* dump_perf reads the count once, and then the entries below it.
BeginDump ==
  /\ main = "idle"
  /\ cnt' = index
  /\ main' = "dump"
  /\ UNCHANGED <<buffer, index, pending, radioVars, stray, clean>>

EndDump ==
  /\ main = "dump"
  /\ main' = "idle"
  /\ cnt' = 0
  /\ UNCHANGED <<buffer, index, pending, radioVars, stray, clean>>

Next == Radio \/ ResetIndex \/ ResetPending \/ BeginDump \/ EndDump

Spec == Init /\ [][Next]_vars

-----------------------------------------------------------------------------
(* Properties.                                                             *)

\* The count never passes the end of the buffer, whatever reset comes between, so
\* that a dump reads entries of the buffer only.
TypeOK ==
  /\ buffer \in [Seqs -> [Fields -> Nat]]
  /\ index \in 0 .. MaxMeasurements
  /\ pending \in Seqs \cup {NoSeq}
  /\ radio \in {"idle", "rx", "start", "verify", "end", "fib", "send", "tx", "count"}
  /\ passed \in BOOLEAN
  /\ old \in 0 .. MaxMeasurements
  /\ handled \in Nat
  /\ main \in {"idle", "reset", "dump"}
  /\ cnt \in 0 .. MaxMeasurements
  /\ stray \in BOOLEAN /\ clean \in BOOLEAN

Stamped == IF HmacEnabled THEN Fields ELSE Fields \ {"start", "end"}

\* Entry e holds all the stamps of one Interest and none of another.
Measured(e) ==
  /\ \A f \in Stamped : e[f] = e["rx"]
  /\ \A f \in Fields \ Stamped : e[f] = 0

\* What the dump shows are whole measurements of different Interests in the order
\* they came in, whether or not others were dropped half-way, unless a reset met an
\* Interest; and the next reset that meets none puts that right.
EntriesMeasured ==
  clean =>
    /\ \A i \in 0 .. index - 1 : buffer[i]["rx"] # 0 /\ Measured(buffer[i])
    /\ \A i, j \in 0 .. index - 1 : i < j => buffer[i]["rx"] < buffer[j]["rx"]

\* Only a reset that meets an Interest makes a stamp miss the buffer.
StrayOnlyByReset == [][stray' # stray => ~clean]_vars

\* The entries that a dump is going to show do not change under it, even after a
\* reset that met an Interest.
DumpIsStable ==
  [][main = "dump" => \A i \in 0 .. cnt - 1 : buffer'[i] = buffer[i]]_vars
=============================================================================
