---------------------------- MODULE Netinf_proofs ----------------------------
(***************************************************************************)
(* Theorems about Netinf, for every set of configurations, every SkewLimit *)
(* and any length of the test.  The invariant IInv is proved part by part; *)
(* each step of a proof is about the actions that can disturb the part.    *)
(***************************************************************************)
EXTENDS Netinf, TLAPS

\* Where the thread can be.
Place == {"created", "setup", "check", "stopOld", "start", "begin", "top",
          "read", "bitload", "calc", "finalStop", "return", "done"}

-----------------------------------------------------------------------------
(* Types.                                                                  *)

\* What an iteration does to the counters keeps their type.
LEMMA CounterTypes ==
    /\ \A c \in Counters : Older(c) \in Counters
    /\ NoResult \in [from : Counters, to : Counters]
    /\ up \in Nat /\ clock \in Nat /\ epoch \in Nat => Reading \in Counters
BY DEF Counters, Older, NoResult, ZeroCounters, Reading

\* The flags, and all the rest.
FlagTypes ==
    /\ running \in BOOLEAN /\ stop \in BOOLEAN /\ last \in BOOLEAN
    /\ unstopped \in BOOLEAN /\ expired \in BOOLEAN
OtherTypes ==
    /\ main \in {"key", "wait", "join", "exited"}
    /\ netinf \in Config
    /\ pc \in Place
    /\ sampling \in {"Recover", "After_Recover", "Normal"}
    /\ upSeen \in Nat /\ up \in Nat /\ clock \in Nat /\ epoch \in Nat
    /\ curr \in Counters /\ prev \in Counters
    /\ result \in [from : Counters, to : Counters]
    /\ begun \in 0..2
    /\ test \in {"none", "ours", "other"}

LEMMA TypesByParts == TypeOK <=> FlagTypes /\ OtherTypes
BY DEF TypeOK, FlagTypes, OtherTypes, Place

LEMMA InitTypes ==
    ASSUME Init
    PROVE  TypeOK
<1> USE SkewAssumption, ConfigAssumption
<1>1. up \in Nat /\ clock \in Nat /\ ZeroCounters \in Counters
  BY DEF Init, ZeroCounters, Counters
<1>2. NoResult \in [from : Counters, to : Counters]
  BY <1>1 DEF NoResult
<1>3. netinf \in Config
  BY DEF Init
<1>4. OtherTypes
  BY <1>1, <1>2, <1>3 DEF Init, OtherTypes, Place
<1>5. FlagTypes
  BY Zenon DEF Init, FlagTypes
<1> QED BY <1>4, <1>5, TypesByParts

LEMMA NextFlags ==
    ASSUME FlagTypes, netinf \in Config, [Next]_vars
    PROVE  FlagTypes'
<1> USE DEF FlagTypes
<1>1. CASE UNCHANGED <<running, stop, last, unstopped, expired>>
  BY <1>1, Zenon
<1>2. CASE ThreadStarts \/ ThreadEnds
  BY <1>2, Zenon DEF ThreadStarts, ThreadEnds
<1>3. CASE Begin \/ PressQ
  BY <1>3, Zenon DEF Begin, PressQ
<1>4. CASE NextIteration
  <2>1. netinf.timed \in BOOLEAN
    BY DEF Config
  <2>2. LastIteration \in BOOLEAN
    BY <2>1, Zenon DEF LastIteration
  <2> QED BY <1>4, <2>2, Zenon DEF NextIteration
<1>5. CASE FinalStop
  BY <1>5, Zenon DEF FinalStop
<1>6. CASE DurationEnds
  BY <1>6, Zenon DEF DurationEnds
<1>7. \/ UNCHANGED <<running, stop, last, unstopped, expired>>
      \/ ThreadStarts \/ ThreadEnds \/ Begin \/ PressQ
      \/ NextIteration \/ FinalStop \/ DurationEnds
  BY DEF Next, ThreadStep, MainStep, Environment, Setup, CheckRunning, StopOld,
     StartTest, ReadFails, ReadReset, ParseFails, ReadSample, ReadBitLoading,
     SkipResult, CalcFails, SaveResult, Joined, NoKey, CheckThread, TimePasses,
     ReceiverResets, TestChanges, vars
<1> QED BY <1>1, <1>2, <1>3, <1>4, <1>5, <1>6, <1>7

LEMMA NextOthers ==
    ASSUME OtherTypes, [Next]_vars
    PROVE  OtherTypes'
<1> USE DEF OtherTypes, Place, samples, device, Goto
<1>1. CASE ThreadStarts \/ Setup \/ CheckRunning
  BY <1>1 DEF ThreadStarts, Setup, CheckRunning
<1>2. CASE StopOld \/ StartTest
  BY <1>2 DEF StopOld, StartTest, Request
<1>3. CASE FinalStop
  BY <1>3 DEF FinalStop, Request
<1>4. CASE Begin \/ ReadFails
  BY <1>4 DEF Begin, ReadFails, Recover
<1>5. CASE ReadReset \/ ParseFails
  BY <1>5 DEF ReadReset, ParseFails, Recover
<1>6. CASE NextIteration
  <2>1. begun' \in 0..2
    BY <1>6 DEF NextIteration
  <2>2. /\ curr' \in Counters /\ prev' \in Counters
        /\ result' \in [from : Counters, to : Counters]
    BY <1>6, CounterTypes DEF NextIteration
  <2> QED BY <1>6, <2>1, <2>2 DEF NextIteration
<1>7. CASE ReadSample
  BY <1>7, CounterTypes DEF ReadSample
<1>8. CASE ReadBitLoading \/ SkipResult \/ CalcFails \/ ThreadEnds
  BY <1>8 DEF ReadBitLoading, SkipResult, CalcFails, ThreadEnds, Recover
<1>9. CASE SaveResult
  BY <1>9 DEF SaveResult
<1>10. CASE MainStep
  BY <1>10 DEF MainStep, PressQ, Joined, NoKey, CheckThread
<1>11. CASE TimePasses
  BY <1>11 DEF TimePasses
<1>12. CASE ReceiverResets
  BY <1>12 DEF ReceiverResets
<1>13. CASE DurationEnds \/ TestChanges
  BY <1>13 DEF DurationEnds, TestChanges
<1>14. CASE UNCHANGED vars
  BY <1>14 DEF vars
<1> QED BY <1>1, <1>2, <1>3, <1>4, <1>5, <1>6, <1>7, <1>8, <1>9, <1>10, <1>11,
           <1>12, <1>13, <1>14 DEF Next, ThreadStep, Environment

LEMMA NextTypes ==
    ASSUME TypeOK, [Next]_vars
    PROVE  TypeOK'
<1>1. FlagTypes' /\ OtherTypes'
  BY TypesByParts, NextFlags, NextOthers DEF OtherTypes
<1> QED BY <1>1 DEF TypeOK, FlagTypes, OtherTypes, Place

-----------------------------------------------------------------------------
(* The flag, the stop and the traffic.                                     *)

\* The steps that leave the flag alone take the thread from one place where it
\* runs to another.
LEMMA FlagKept ==
    ASSUME TypeOK, FlagFollows, [Next]_vars
    PROVE  FlagFollows'
<1> USE DEF FlagFollows, TypeOK, Goto
<1>1. CASE ThreadStarts \/ ThreadEnds
  BY <1>1 DEF ThreadStarts, ThreadEnds
<1>2. CASE Setup \/ CheckRunning \/ StopOld \/ StartTest \/ Begin
  BY <1>2 DEF Setup, CheckRunning, StopOld, StartTest, Begin
<1>3. CASE NextIteration
  BY <1>3 DEF NextIteration
<1>4. CASE ReadFails \/ ReadReset \/ ParseFails
  BY <1>4 DEF ReadFails, ReadReset, ParseFails, Recover
<1>5. CASE ReadSample \/ ReadBitLoading
  BY <1>5 DEF ReadSample, ReadBitLoading, Recover
<1>6. CASE SkipResult \/ CalcFails \/ SaveResult \/ FinalStop
  BY <1>6 DEF SkipResult, CalcFails, SaveResult, FinalStop
<1>7. CASE MainStep
  BY <1>7 DEF MainStep, PressQ, Joined, NoKey, CheckThread
<1>8. CASE Environment
  BY <1>8 DEF Environment, TimePasses, ReceiverResets, DurationEnds, TestChanges
<1>9. CASE UNCHANGED vars
  BY <1>9 DEF vars
<1> QED BY <1>1, <1>2, <1>3, <1>4, <1>5, <1>6, <1>7, <1>8, <1>9
        DEF Next, ThreadStep

LEMMA StopKept ==
    ASSUME TypeOK, FlagFollows, StopIsLast, [Next]_vars
    PROVE  StopIsLast'
<1> USE DEF StopIsLast, StopIsHeeded, TypeOK, Goto, BeforeLoop
<1>1. CASE ThreadStarts \/ ThreadEnds
  BY <1>1 DEF ThreadStarts, ThreadEnds
<1>2. CASE Setup \/ CheckRunning \/ StopOld \/ StartTest \/ Begin
  <2>1. pc \in BeforeLoop /\ begun' = begun
    BY <1>2 DEF Setup, CheckRunning, StopOld, StartTest, Begin
  <2>2. begun' = 0
    BY <2>1
  <2> QED BY <2>2
<1>3. CASE NextIteration
  <2>1. CASE last
    BY <1>3, <2>1 DEF NextIteration
  <2>2. CASE ~last
    <3>1. /\ stop => last'
          /\ begun' = IF main = "join" /\ begun < 2 THEN begun + 1 ELSE begun
          /\ pc' = "read" /\ UNCHANGED <<main, running, stop>>
      BY <1>3, <2>2 DEF NextIteration, LastIteration
    <3>2. stop => begun = 0
      BY <2>2
    <3>3. stop' => begun' <= 1
      BY <3>1, <3>2
    <3> QED BY <3>1, <3>2, <3>3
  <2> QED BY <2>1, <2>2
<1>4. CASE ReadFails \/ ReadReset \/ ParseFails
  BY <1>4 DEF ReadFails, ReadReset, ParseFails, Recover
<1>5. CASE ReadSample \/ ReadBitLoading
  BY <1>5 DEF ReadSample, ReadBitLoading, Recover, samples
<1>6. CASE SkipResult \/ CalcFails \/ SaveResult \/ FinalStop
  BY <1>6 DEF SkipResult, CalcFails, SaveResult, FinalStop
<1>7. CASE MainStep
  BY <1>7 DEF MainStep, PressQ, Joined, NoKey, CheckThread, FlagFollows
<1>8. CASE Environment
  BY <1>8 DEF Environment, TimePasses, ReceiverResets, DurationEnds, TestChanges
<1>9. CASE UNCHANGED vars
  BY <1>9 DEF vars
<1> QED BY <1>1, <1>2, <1>3, <1>4, <1>5, <1>6, <1>7, <1>8, <1>9
        DEF Next, ThreadStep

\* The test is started after "check", which a thread without -g does not reach,
\* and every way out of the loop leads through "finalStop".
LEMMA TrafficKept ==
    ASSUME TypeOK, TrafficIsOwned, [Next]_vars
    PROVE  TrafficIsOwned'
<1> USE DEF TrafficIsOwned, Sampling, Goto
<1>1. CASE ThreadStarts \/ Setup \/ CheckRunning \/ Begin
  BY <1>1 DEF ThreadStarts, Setup, CheckRunning, Begin
<1>2. CASE StopOld
  BY <1>2 DEF StopOld, Request
<1>3. CASE StartTest
  BY <1>3 DEF StartTest, Request
<1>4. CASE NextIteration
  BY <1>4 DEF NextIteration
<1>5. CASE ReadFails \/ ReadReset \/ ParseFails
  BY <1>5 DEF ReadFails, ReadReset, ParseFails, Recover
<1>6. CASE ReadSample \/ ReadBitLoading
  BY <1>6 DEF ReadSample, ReadBitLoading, Recover
<1>7. CASE SkipResult \/ CalcFails \/ SaveResult
  BY <1>7 DEF SkipResult, CalcFails, SaveResult
<1>8. CASE FinalStop
  <2>1. PICK ok \in BOOLEAN : Request("none", ok) /\ unstopped' = ~ok
    BY <1>8 DEF FinalStop
  <2>2. CASE ok
    BY <1>8, <2>1, <2>2 DEF FinalStop, Request
  <2>3. CASE ~ok
    <3>1. unstopped'
      BY <2>1, <2>3
    <3> QED BY <1>8, <2>1, <2>3, <3>1 DEF FinalStop, Request
  <2> QED BY <2>2, <2>3
<1>9. CASE ThreadEnds
  BY <1>9 DEF ThreadEnds
<1>10. CASE MainStep
  BY <1>10 DEF MainStep, PressQ, Joined, NoKey, CheckThread
<1>11. CASE Environment
  BY <1>11 DEF Environment, TimePasses, ReceiverResets, DurationEnds, TestChanges
<1>12. CASE UNCHANGED vars
  BY <1>12 DEF vars
<1> QED BY <1>1, <1>2, <1>3, <1>4, <1>5, <1>6, <1>7, <1>8, <1>9, <1>10, <1>11,
           <1>12 DEF Next, ThreadStep

-----------------------------------------------------------------------------
(* The samples and their times.                                            *)

\* An iteration makes what was read before one older.
LEMMA Ages ==
    ASSUME NEW c \in Counters
    PROVE  /\ Older(c).up = c.up /\ Older(c).clock = c.clock
           /\ Older(c).epoch = c.epoch
           /\ c.age = 0 => Older(c).age = 1
BY DEF Older, Counters

LEMMA FreshKept ==
    ASSUME TypeOK, SamplesAreFresh, [Next]_vars
    PROVE  SamplesAreFresh'
<1> USE DEF SamplesAreFresh, TypeOK, Goto, BeforeLoop, samples, device
<1>1. CASE ThreadStarts \/ ThreadEnds \/ Setup \/ CheckRunning \/ FinalStop
  BY <1>1 DEF ThreadStarts, ThreadEnds, Setup, CheckRunning, FinalStop
<1>2. CASE StopOld \/ StartTest \/ Begin
  BY <1>2 DEF StopOld, StartTest, Begin
<1>3. CASE NextIteration
  BY <1>3, Ages DEF NextIteration
<1>4. CASE ReadFails \/ ReadReset \/ ParseFails
  BY <1>4 DEF ReadFails, ReadReset, ParseFails, Recover
<1>5. CASE ReadSample
  BY <1>5 DEF ReadSample, Reading
<1>6. CASE ReadBitLoading
  BY <1>6 DEF ReadBitLoading, Recover
<1>7. CASE SkipResult \/ CalcFails \/ SaveResult
  BY <1>7 DEF SkipResult, CalcFails, SaveResult
<1>8. CASE MainStep
  BY <1>8 DEF MainStep, PressQ, Joined, NoKey, CheckThread
<1>9. CASE Environment
  BY <1>9 DEF Environment, TimePasses, ReceiverResets, DurationEnds, TestChanges
<1>10. CASE UNCHANGED vars
  BY <1>10 DEF vars
<1> QED BY <1>1, <1>2, <1>3, <1>4, <1>5, <1>6, <1>7, <1>8, <1>9, <1>10
        DEF Next, ThreadStep

\* Time only adds to the lead of the clock, and a reset of a receiver that was
\* up for SkewLimit more than that.
LEMMA TimesKept ==
    ASSUME TypeOK, TimesAreOrdered, [Next]_vars
    PROVE  TimesAreOrdered'
<1> USE SkewAssumption DEF TimesAreOrdered, NotBefore, Reading
<1>t. /\ up \in Nat /\ clock \in Nat /\ epoch \in Nat
      /\ curr \in Counters /\ prev \in Counters
  BY DEF TypeOK
<1>1. CASE UNCHANGED <<prev, curr, device>>
  BY <1>1 DEF device
<1>2. CASE ReadSample
  <2>1. prev' = curr /\ curr' = Reading /\ UNCHANGED device
    BY <1>2 DEF ReadSample
  <2> QED BY <1>t, <2>1 DEF device
<1>3. CASE NextIteration
  <2>1. CASE prev' = Older(prev) /\ curr' = Older(curr)
    BY <1>t, <1>3, <2>1, Ages DEF NextIteration, device
  <2> QED BY <1>1, <1>3, <2>1 DEF NextIteration
<1>4. CASE TimePasses
  <2>1. /\ clock' = clock + 1 /\ up' = up + 1
        /\ UNCHANGED <<prev, curr, epoch>>
    BY <1>4 DEF TimePasses, samples
  <2>2. (clock' - up') - (curr.clock - curr.up) = (clock - up) - (curr.clock - curr.up)
    BY <1>t, <2>1 DEF Counters
  <2> QED BY <2>1, <2>2
<1>5. CASE ReceiverResets
  <2>1. /\ clock' = clock + 1 /\ up' = 0 /\ UNCHANGED <<prev, curr>>
        /\ epoch' = IF up >= SkewLimit THEN epoch + 1 ELSE epoch
    BY <1>5 DEF ReceiverResets, samples
  <2>2. curr.clock \in Nat /\ curr.up \in Nat /\ curr.epoch \in Nat
    BY <1>t DEF Counters
  <2>3. 0 <= (clock - up) - (curr.clock - curr.up)
    OBVIOUS
  <2>4. (clock' - up') - (curr.clock - curr.up)
            = (clock - up) - (curr.clock - curr.up) + up + 1
    BY <1>t, <2>1, <2>2
  <2>5. NotBefore(curr, Reading)'
    <3>1. CASE up >= SkewLimit
      BY <1>t, <2>1, <2>2, <2>3, <2>4, <3>1
    <3>2. CASE ~(up >= SkewLimit)
      BY <1>t, <2>1, <2>2, <2>3, <2>4, <3>2
    <3> QED BY <3>1, <3>2
  <2> QED BY <2>1, <2>5
<1>6. UNCHANGED <<prev, curr, device>> \/ ReadSample \/ NextIteration
      \/ TimePasses \/ ReceiverResets
  BY DEF Next, ThreadStep, MainStep, Environment, ThreadStarts, Setup,
     CheckRunning, StopOld, StartTest, Begin, ReadFails, ReadReset, ParseFails,
     ReadBitLoading, SkipResult, CalcFails, SaveResult, FinalStop, ThreadEnds,
     PressQ, Joined, NoKey, CheckThread, DurationEnds, TestChanges, vars, samples
<1> QED BY <1>1, <1>2, <1>3, <1>4, <1>5, <1>6

\* A result is only saved from samples that are consecutive and not at odds.
LEMMA ResultKept ==
    ASSUME IInv, [Next]_vars
    PROVE  ResultIsConsecutive' /\ ResultSpansNoReset'
<1> USE DEF ResultIsConsecutive, ResultSpansNoReset
<1>1. CASE UNCHANGED result
  BY <1>1 DEF IInv
<1>2. CASE result' = NoResult
  BY <1>2 DEF NoResult, ZeroCounters
<1>3. CASE SaveResult
  <2>1. /\ result' = [from |-> prev, to |-> curr]
        /\ pc = "calc" /\ sampling # "Recover" /\ ~Skewed
    BY <1>3 DEF SaveResult, Goto
  <2>2. curr.age = 0 /\ prev.age = 1 /\ prev.up <= curr.up
    BY <2>1 DEF IInv, SamplesAreFresh
  <2>3. prev.epoch = curr.epoch
    <3>1. prev \in Counters /\ curr \in Counters /\ NotBefore(prev, curr)
      BY DEF IInv, TypeOK, TimesAreOrdered
    <3>2. /\ prev.clock \in Nat /\ prev.up \in Nat
          /\ curr.clock \in Nat /\ curr.up \in Nat
      BY <3>1 DEF Counters
    <3>3. ~((curr.clock - prev.clock) - (curr.up - prev.up) > SkewLimit)
      BY <2>1, <3>2, SkewAssumption DEF Skewed, Abs
    <3> QED BY <3>1, <3>2, <3>3, SkewAssumption DEF NotBefore
  <2> QED BY <2>1, <2>2, <2>3
<1>4. UNCHANGED result \/ result' = NoResult \/ SaveResult
  BY DEF Next, ThreadStep, MainStep, Environment, ThreadStarts, Setup,
     CheckRunning, StopOld, StartTest, Begin, NextIteration, ReadFails,
     ReadReset, ParseFails, ReadSample, ReadBitLoading, SkipResult, CalcFails,
     FinalStop, ThreadEnds, PressQ, Joined, NoKey, CheckThread, TimePasses,
     ReceiverResets, DurationEnds, TestChanges, vars, samples
<1> QED BY <1>1, <1>2, <1>3, <1>4

-----------------------------------------------------------------------------
(* The theorems.                                                           *)

LEMMA InitHolds == Init => IInv
<1> SUFFICES ASSUME Init PROVE IInv
  OBVIOUS
<1> USE SkewAssumption
<1>1. TypeOK
  BY InitTypes
<1>2. FlagFollows /\ StopIsLast /\ TrafficIsOwned
  BY DEF Init, FlagFollows, StopIsLast, StopIsHeeded, TrafficIsOwned, BeforeLoop
<1>3. SamplesAreFresh
  BY DEF Init, SamplesAreFresh, BeforeLoop
<1>4. TimesAreOrdered
  BY DEF Init, TimesAreOrdered, NotBefore, Reading, ZeroCounters
<1>5. ResultIsConsecutive /\ ResultSpansNoReset
  BY DEF Init, ResultIsConsecutive, ResultSpansNoReset, NoResult, ZeroCounters
<1> QED BY <1>1, <1>2, <1>3, <1>4, <1>5 DEF IInv

\* The invariant on which the others rest: the thread, main() and the devices
\* keep it.
THEOREM InvariantHolds == Spec => []IInv
<1>1. Init => IInv
  BY InitHolds
<1>2. IInv /\ [Next]_vars => IInv'
  <2> SUFFICES ASSUME IInv, [Next]_vars PROVE IInv'
    OBVIOUS
  <2>1. TypeOK /\ FlagFollows /\ StopIsLast /\ TrafficIsOwned
        /\ SamplesAreFresh /\ TimesAreOrdered
    BY DEF IInv
  <2> QED BY <2>1, NextTypes, FlagKept, StopKept, TrafficKept, FreshKept,
          TimesKept, ResultKept DEF IInv
<1> QED BY <1>1, <1>2, PTL DEF Spec

\* Every variable keeps its type: the up-time that is remembered is one the
\* receiver had, or zero.
THEOREM TypesHold == Spec => []TypeOK
<1>1. IInv => TypeOK
  BY DEF IInv
<1> QED BY <1>1, InvariantHolds, PTL

\* A result is never computed over a gap in the samples.
THEOREM ResultsConsecutive == Spec => []ResultIsConsecutive
<1>1. IInv => ResultIsConsecutive
  BY DEF IInv
<1> QED BY <1>1, InvariantHolds, PTL

\* A result is never computed over a reset of a receiver that had been up for
\* SkewLimit, although its up-time may show nothing of it.
THEOREM ResultsSpanNoReset == Spec => []ResultSpansNoReset
<1>1. IInv => ResultSpansNoReset
  BY DEF IInv
<1> QED BY <1>1, InvariantHolds, PTL

\* The test of the transmitter is over when the tool is, unless the request to
\* stop it failed.
THEOREM TrafficStopped == Spec => []TrafficIsStopped
<1>1. IInv => TrafficIsStopped
  <2> SUFFICES ASSUME IInv, main = "exited", ~netinf.stopOnError, test = "ours"
               PROVE  unstopped
    BY DEF TrafficIsStopped
  <2>1. pc \in {"created", "done"}
    BY DEF IInv, FlagFollows
  <2> QED BY <2>1 DEF IInv, TrafficIsOwned, Sampling
<1> QED BY <1>1, InvariantHolds, PTL

\* At most one more sample is begun after a stop that the loop sees.
THEOREM StopHeeded == Spec => []StopIsHeeded
<1>1. IInv => StopIsHeeded
  BY DEF IInv, StopIsLast
<1> QED BY <1>1, InvariantHolds, PTL

=============================================================================
