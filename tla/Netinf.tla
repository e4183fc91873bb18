------------------------------- MODULE Netinf -------------------------------
(***************************************************************************)
(* The channel information tool: Ghn_Netinf() of GHN_LIB/src/              *)
(* GHN_LIB_ext.c run by the thread of SDK/netinf/netinf.c.  The thread     *)
(* starts a traffic test on the transmitter when asked to, reads the       *)
(* counters of the receiver period after period, computes a result from    *)
(* each two consecutive samples and appends it to the graph files, until   *)
(* the test duration is over or main() sets g_bStopNetinf.                 *)
(*                                                                         *)
(* Meanwhile the receiver may reset, requests over HTTP fail, and another  *)
(* process start or stop the test of the transmitter.  Time passes in      *)
(* ticks; the clock of the samples (the receiver's if it is synchronized,  *)
(* that of the PC if not) is taken to be one clock that is never set.      *)
(***************************************************************************)
EXTENDS Integers

CONSTANTS
    Configs,    \* the sNetinf_Information records the callers of Ghn_Netinf use
    SkewLimit,  \* the 60 s by which two measures of one interval may differ
    MaxClock    \* bound: ticks that pass

Config == [generate : BOOLEAN,      \* bGenerateTraffic
           override : BOOLEAN,      \* bOverideTraffic
           stopOnError : BOOLEAN,   \* bStopOnReadingError (FALSE in the tool)
           timed : BOOLEAN]         \* TestDuration # 0 (TRUE in the tool)

ASSUME ConfigAssumption == Configs \subseteq Config
ASSUME SkewAssumption == SkewLimit \in Nat /\ MaxClock \in Nat

VARIABLES
    \* main() of the tool
    main,       \* "key", "wait" (OS_Sleep), "join", "exited"
    running,    \* ThreadProc_Is_Running
    \* the thread
    netinf,     \* its configuration
    pc,         \* where it is in ThreadProc and Ghn_Netinf
    stop,       \* g_bStopNetinf
    last,       \* bLastIteration
    sampling,   \* SamplingState
    upSeen,     \* SamplingUpTime
    curr, prev, \* counters_curr and counters_prev
    result,     \* what this iteration has appended a result from
    unstopped,  \* the last request to stop the test failed
    begun,      \* history: samples begun since the user asked to stop (0..2)
    \* the environment
    expired,    \* the test duration is over
    up,         \* up-time of the receiver
    clock,      \* the wall clock
    epoch,      \* history: resets of a receiver up for SkewLimit or longer
    test        \* the test the transmitter runs: "none", "ours", "other"

device == <<up, clock, epoch>>
samples == <<sampling, upSeen, curr, prev, result>>
vars == <<main, running, netinf, pc, stop, last, samples, unstopped, begun,
          expired, device, test>>

-----------------------------------------------------------------------------
(* Samples.  "age" counts the iterations since a sample was read: 0 in the *)
(* iteration that read it, at most 2.                                      *)

Counters == [up : Nat, clock : Nat, epoch : Nat, age : 0..2]

\* memset() of Netinf_Test: counters that were never read.
ZeroCounters == [up |-> 0, clock |-> 0, epoch |-> 0, age |-> 2]
NoResult == [from |-> ZeroCounters, to |-> ZeroCounters]

\* The counters of the receiver as a request finds them.
Reading == [up |-> up, clock |-> clock, epoch |-> epoch, age |-> 0]

Older(c) == [c EXCEPT !.age = IF @ < 2 THEN @ + 1 ELSE 2]

Abs(n) == IF n < 0 THEN -n ELSE n

\* Mutant: a clock that is ahead of the up-time is let through.
SkewedOneWay == (curr.up - prev.up) - (curr.clock - prev.clock) > SkewLimit

\* Netinf_CalcCEParameters: the interval by the up-time and by the clock.
Skewed == Abs((curr.clock - prev.clock) - (curr.up - prev.up)) > SkewLimit

-----------------------------------------------------------------------------
Init ==
    /\ main = "key" /\ running = FALSE
    /\ netinf \in Configs
    /\ pc = "created"
    /\ stop = FALSE /\ last = FALSE
    /\ sampling = "Recover" /\ upSeen = 0
    /\ curr = ZeroCounters /\ prev = ZeroCounters /\ result = NoResult
    /\ unstopped = FALSE /\ begun = 0
    /\ expired = FALSE
    /\ up \in 0..SkewLimit /\ clock = up /\ epoch = 0
    /\ test \in {"none", "other"}

-----------------------------------------------------------------------------
(* The thread: before the samples.                                         *)

Goto(from, to) == main # "exited" /\ pc = from /\ pc' = to

ThreadStarts ==
    /\ Goto("created", "setup")
    /\ running' = TRUE
    /\ UNCHANGED <<main, netinf, stop, last, samples, unstopped, begun,
                   expired, device, test>>

\* The stations and the addresses of the transmitter and the receiver; each of
\* these requests may fail.
Setup ==
    /\ \/ Goto("setup", "return")
       \/ Goto("setup", IF netinf.generate THEN "check" ELSE "begin")
    /\ UNCHANGED <<main, running, netinf, stop, last, samples, unstopped, begun,
                   expired, device, test>>

\* "Check if there is already running netinf on that channel"
CheckRunning ==
    /\ \/ Goto("check", "return")
       \/ /\ test # "none" => netinf.override
          /\ Goto("check", "stopOld")
    /\ UNCHANGED <<main, running, netinf, stop, last, samples, unstopped, begun,
                   expired, device, test>>

\* Set_Data_Model fails when the request or its answer is lost: the device may
\* have carried it out.
Request(value, ok) ==
    \/ ok /\ test' = value
    \/ ~ok /\ test' \in {test, value}

StopOld ==
    /\ \/ Request("none", TRUE) /\ Goto("stopOld", "start")
       \/ Request("none", FALSE) /\ Goto("stopOld", "return")
    /\ UNCHANGED <<main, running, netinf, stop, last, samples, unstopped, begun,
                   expired, device>>

StartTest ==
    /\ \/ Request("ours", TRUE) /\ Goto("start", "begin")
       \/ /\ Request("ours", FALSE)
          /\ Goto("start", IF netinf.stopOnError THEN "return" ELSE "begin")
    /\ UNCHANGED <<main, running, netinf, stop, last, samples, unstopped, begun,
                   expired, device>>

\* g_bStopNetinf and the state of the samples are set after all of that.
Begin ==
    /\ Goto("begin", "top")
    /\ stop' = FALSE /\ last' = FALSE
    /\ sampling' = "Recover"
    /\ UNCHANGED <<main, running, netinf, upSeen, curr, prev, result, unstopped,
                   begun, expired, device, test>>

-----------------------------------------------------------------------------
(* The thread: one iteration, "top" - "read" - "bitload" - "calc".         *)

\* Mutant: only the duration ends the loop.
IgnoresStop == netinf.timed /\ expired

\* What makes an iteration the last one.
LastIteration == stop \/ (netinf.timed /\ expired)

\* while (bLastIteration == FALSE), and its new value
NextIteration ==
    /\ IF last
       THEN /\ Goto("top", IF netinf.generate THEN "finalStop" ELSE "return")
            /\ UNCHANGED <<last, begun, curr, prev, result>>
       ELSE /\ Goto("top", "read")
            /\ last' = LastIteration
            /\ begun' = IF main = "join" /\ begun < 2 THEN begun + 1 ELSE begun
            /\ curr' = Older(curr) /\ prev' = Older(prev)
            /\ result' = NoResult
    /\ UNCHANGED <<main, running, netinf, stop, sampling, upSeen, unstopped,
                   expired, device, test>>

\* Mutant: the next sample is compared with the one before the gap.
RecoverForgets(from) ==
    /\ Goto(from, IF netinf.stopOnError THEN "return" ELSE "top")
    /\ UNCHANGED sampling

\* A sample that cannot be had: the next iteration recovers, or the call returns.
Recover(from) ==
    /\ Goto(from, IF netinf.stopOnError THEN "return" ELSE "top")
    /\ sampling' = IF netinf.stopOnError THEN sampling ELSE "Recover"

\* Get_Data_Model() or the parser fails, or there is no UpTime.
ReadFails ==
    /\ Recover("read")
    /\ UNCHANGED <<main, running, netinf, stop, last, upSeen, curr, prev, result,
                   unstopped, begun, expired, device, test>>

\* Mutant: the up-time so far is subtracted.
ResetUnderflows ==
    /\ up < upSeen
    /\ Goto("read", "top")
    /\ upSeen' = up - upSeen /\ sampling' = "Recover"
    /\ UNCHANGED <<main, running, netinf, stop, last, curr, prev, result,
                   unstopped, begun, expired, device, test>>

\* "Check if the device was reset from last sampling"
ReadReset ==
    /\ up < upSeen
    /\ Goto("read", "top")
    /\ upSeen' = 0 /\ sampling' = "Recover"
    /\ UNCHANGED <<main, running, netinf, stop, last, curr, prev, result,
                   unstopped, begun, expired, device, test>>

\* Netinf_ReadCEParameters fails.
ParseFails ==
    /\ up >= upSeen
    /\ Recover("read")
    /\ upSeen' = up
    /\ UNCHANGED <<main, running, netinf, stop, last, curr, prev, result,
                   unstopped, begun, expired, device, test>>

\* Netinf_ReadCEParameters succeeds; then there may not be enough traffic, and
\* the bit loading table may be due.
ReadSample ==
    /\ up >= upSeen
    /\ upSeen' = up
    /\ prev' = curr /\ curr' = Reading
    /\ \/ Goto("read", "top") /\ sampling' = "Recover"
       \/ Goto("read", "bitload") /\ UNCHANGED sampling
       \/ Goto("read", "calc") /\ UNCHANGED sampling
    /\ UNCHANGED <<main, running, netinf, stop, last, result, unstopped, begun,
                   expired, device, test>>

\* The second request.  A table that cannot be parsed is left out.
ReadBitLoading ==
    /\ \/ Recover("bitload")
       \/ Goto("bitload", "calc") /\ UNCHANGED sampling
    /\ UNCHANGED <<main, running, netinf, stop, last, upSeen, curr, prev, result,
                   unstopped, begun, expired, device, test>>

\* After a failed sample nothing is computed.
SkipResult ==
    /\ sampling = "Recover"
    /\ Goto("calc", "top")
    /\ sampling' = "After_Recover"
    /\ UNCHANGED <<main, running, netinf, stop, last, upSeen, curr, prev, result,
                   unstopped, begun, expired, device, test>>

\* Netinf_CalcCEParameters finds the two samples at odds: by their times, or by
\* the number of intervals, the code rates or the ids of the devices.
CalcFails ==
    /\ sampling # "Recover"
    /\ Goto("calc", IF netinf.stopOnError THEN "return" ELSE "top")
    /\ UNCHANGED <<main, running, netinf, stop, last, samples, unstopped, begun,
                   expired, device, test>>

SaveResult ==
    /\ sampling # "Recover"
    /\ ~Skewed
    /\ Goto("calc", "top")
    /\ result' = [from |-> prev, to |-> curr]
    /\ sampling' = "Normal"
    /\ UNCHANGED <<main, running, netinf, stop, last, upSeen, curr, prev,
                   unstopped, begun, expired, device, test>>

\* Mutant: a user who stops the tool has stopped the test.
SkipsFinalStop ==
    /\ Goto("finalStop", "return")
    /\ \/ stop /\ UNCHANGED <<test, unstopped>>
       \/ ~stop /\ \E ok \in BOOLEAN : Request("none", ok) /\ unstopped' = ~ok
    /\ UNCHANGED <<main, running, netinf, stop, last, samples, begun, expired,
                   device>>

\* The test is stopped at the end.
FinalStop ==
    /\ Goto("finalStop", "return")
    /\ \E ok \in BOOLEAN : Request("none", ok) /\ unstopped' = ~ok
    /\ UNCHANGED <<main, running, netinf, stop, last, samples, begun, expired,
                   device>>

\* Mutant: the flag is not cleared.
StaysRunning ==
    /\ Goto("return", "done")
    /\ UNCHANGED <<main, running, netinf, stop, last, samples, unstopped, begun,
                   expired, device, test>>

ThreadEnds ==
    /\ Goto("return", "done")
    /\ running' = FALSE
    /\ UNCHANGED <<main, netinf, stop, last, samples, unstopped, begun, expired,
                   device, test>>

ThreadStep ==
    \/ ThreadStarts \/ Setup \/ CheckRunning \/ StopOld \/ StartTest \/ Begin
    \/ NextIteration \/ ReadFails \/ ReadReset \/ ParseFails \/ ReadSample
    \/ ReadBitLoading \/ SkipResult \/ CalcFails \/ SaveResult
    \/ FinalStop \/ ThreadEnds

-----------------------------------------------------------------------------
(* main(): the keyboard, a sleep of a second, ThreadProc_Is_Running.        *)

\* 'q': Ghn_Stop_Netinf() and pthread_join()
PressQ ==
    /\ main = "key"
    /\ main' = "join"
    /\ stop' = TRUE
    /\ UNCHANGED <<running, netinf, pc, last, samples, unstopped, begun, expired,
                   device, test>>

Joined ==
    /\ main = "join" /\ pc = "done"
    /\ main' = "wait"
    /\ UNCHANGED <<running, netinf, pc, stop, last, samples, unstopped, begun,
                   expired, device, test>>

NoKey ==
    /\ main = "key"
    /\ main' = "wait"
    /\ UNCHANGED <<running, netinf, pc, stop, last, samples, unstopped, begun,
                   expired, device, test>>

CheckThread ==
    /\ main = "wait"
    /\ main' = IF running THEN "key" ELSE "exited"
    /\ UNCHANGED <<running, netinf, pc, stop, last, samples, unstopped, begun,
                   expired, device, test>>

MainStep == PressQ \/ Joined \/ NoKey \/ CheckThread

-----------------------------------------------------------------------------
(* The environment.                                                        *)

TimePasses ==
    /\ clock < MaxClock
    /\ clock' = clock + 1 /\ up' = up + 1
    /\ UNCHANGED <<main, running, netinf, pc, stop, last, samples, unstopped,
                   begun, expired, epoch, test>>

\* The receiver boots for a tick.
ReceiverResets ==
    /\ clock < MaxClock
    /\ clock' = clock + 1 /\ up' = 0
    /\ epoch' = IF up >= SkewLimit THEN epoch + 1 ELSE epoch
    /\ UNCHANGED <<main, running, netinf, pc, stop, last, samples, unstopped,
                   begun, expired, test>>

DurationEnds ==
    /\ ~expired /\ expired' = TRUE
    /\ UNCHANGED <<main, running, netinf, pc, stop, last, samples, unstopped,
                   begun, device, test>>

\* Another process starts a test or stops the one that runs; the transmitter
\* ends its test after PhyDiagTrafficTimeOut, and when it is reset.
TestChanges ==
    /\ test' \in {"none", "other"} \ {test}
    /\ UNCHANGED <<main, running, netinf, pc, stop, last, samples, unstopped,
                   begun, expired, device>>

Environment ==
    /\ main # "exited"
    /\ TimePasses \/ ReceiverResets \/ DurationEnds \/ TestChanges

Next == ThreadStep \/ MainStep \/ Environment

Spec == Init /\ [][Next]_vars

\* Requests end (libcurl and the console have timeouts), both threads are
\* scheduled, and the duration passes; nobody needs to press a key.
Fairness ==
    /\ WF_vars(ThreadStep)
    /\ WF_vars(NoKey \/ Joined \/ CheckThread)
    /\ WF_vars(DurationEnds)

FairSpec == Spec /\ Fairness

-----------------------------------------------------------------------------
(* Properties.                                                             *)

TypeOK ==
    /\ main \in {"key", "wait", "join", "exited"}
    /\ running \in BOOLEAN
    /\ netinf \in Config
    /\ pc \in {"created", "setup", "check", "stopOld", "start", "begin", "top",
               "read", "bitload", "calc", "finalStop", "return", "done"}
    /\ stop \in BOOLEAN /\ last \in BOOLEAN
    /\ unstopped \in BOOLEAN /\ expired \in BOOLEAN
    /\ sampling \in {"Recover", "After_Recover", "Normal"}
    /\ upSeen \in Nat /\ up \in Nat /\ clock \in Nat /\ epoch \in Nat
    /\ curr \in Counters /\ prev \in Counters
    /\ result \in [from : Counters, to : Counters]
    /\ begun \in 0..2
    /\ test \in {"none", "ours", "other"}

\* A saved result compares samples of two consecutive iterations, whatever
\* failed in between: no gap is taken for one sampling period.
ResultIsConsecutive ==
    result # NoResult => result.from.age = 1 /\ result.to.age = 0

\* A saved result never spans a reset of a receiver that had been up for
\* SkewLimit or longer, even one up again for as long as before: the check of
\* the up-time ("Device had reset") misses it, but then that of the clocks does
\* not.  And the up-time never goes back from one sample to the other.
ResultSpansNoReset ==
    /\ result.from.epoch = result.to.epoch
    /\ result.from.up <= result.to.up

\* When the tool has ended, the transmitter does not run its test any more,
\* unless the request to stop it failed.
TrafficIsStopped ==
    (main = "exited" /\ ~netinf.stopOnError /\ test = "ours") => unstopped

\* At most one more sample is begun after a stop that the thread sees.  (One
\* that comes while it sets the test up is undone by Begin.)
StopIsHeeded == stop => begun <= 1

\* The tool ends when its duration is over or it is stopped in the loop.
Sampling == pc \in {"top", "read", "bitload", "calc"}
ToolEnds == (netinf.timed \/ (stop /\ Sampling)) ~> main = "exited"

-----------------------------------------------------------------------------
(* The inductive invariant of the proofs, by parts.                        *)

BeforeLoop == {"created", "setup", "check", "stopOld", "start", "begin"}

\* What ThreadProc_Is_Running says of the thread, and main() of the flag.
FlagFollows ==
    /\ running <=> pc \notin {"created", "done"}
    /\ main = "exited" => ~running

\* After the user has asked to stop, main() only waits for the thread; the
\* thread that has begun a sample since will begin no other.
StopIsLast ==
    /\ begun > 0 => pc \notin BeforeLoop /\ main # "key"
    /\ begun > 0 /\ main = "wait" => ~running
    /\ stop /\ begun > 0 => last
    /\ StopIsHeeded

\* The transmitter runs the test of the thread only as long as the thread is
\* to stop it, or could not.
TrafficIsOwned ==
    /\ pc \in {"check", "stopOld", "start"} => netinf.generate
    /\ test = "ours" =>
          /\ netinf.generate
          /\ \/ pc \in {"begin", "finalStop"} \/ Sampling
             \/ pc \in {"return", "done"} /\ (unstopped \/ netinf.stopOnError)

\* As long as nothing failed, the samples at hand are those of this iteration
\* and the one before.
SamplesAreFresh ==
    /\ pc \in BeforeLoop => sampling = "Recover"
    /\ pc \in {"bitload", "calc"} => curr.age = 0 /\ curr.up = upSeen
    /\ sampling # "Recover" =>
          /\ pc = "top" => curr.age = 0 /\ curr.up = upSeen
          /\ pc = "read" => curr.age = 1 /\ curr.up = upSeen
          /\ pc \in {"bitload", "calc"} => prev.age = 1 /\ prev.up <= curr.up

\* The clock runs ahead of the up-time, by more with every reset.
NotBefore(c, d) ==
    LET lead == (d.clock - d.up) - (c.clock - c.up) IN
    /\ 0 <= lead
    /\ c.epoch # d.epoch => lead > SkewLimit
TimesAreOrdered == NotBefore(prev, curr) /\ NotBefore(curr, Reading)

IInv == /\ TypeOK /\ FlagFollows /\ StopIsLast /\ TrafficIsOwned
        /\ SamplesAreFresh /\ TimesAreOrdered
        /\ ResultIsConsecutive /\ ResultSpansNoReset

=============================================================================
