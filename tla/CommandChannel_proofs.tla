----------------------- MODULE CommandChannel_proofs ------------------------
(***************************************************************************)
(* Proof that PacketHandling implements CommandChannel, for any number of  *)
(* connections, devices, commands and tries and any sizes of the ids and   *)
(* of the buffers, and what that channel promises its callers.             *)
(***************************************************************************)
EXTENDS PacketHandling_proofs

\* What the step of the channel depends on.
chVars == <<program, number, Status, failed, Executions>>

\* The executions, without the packets that led to them.
LEMMA ExecutionsAre ==
    /\ \A c, n, ok : <<c, n, ok>> \in Executions <=>
            \E e \in effects : /\ e.request.conn = c /\ e.request.number = n
                               /\ e.ok = ok
    /\ \A e \in effects : <<e.request.conn, e.request.number, e.ok>> \in Executions
BY DEF Executions

\* A connection's status follows what its call does.
LEMMA StatusChanges ==
    ASSUME TypeOK, NEW c \in Conn, NEW p, NEW st, NEW s,
           phase' = [phase EXCEPT ![c] = p],
           result' = [result EXCEPT ![c] = st],
           s = IF p = "waiting" THEN "waiting" ELSE st
    PROVE  Status' = [Status EXCEPT ![c] = s]
<1> DEFINE Of(ph, res) ==
        [d \in Conn |-> IF ph[d] = "waiting" THEN "waiting" ELSE res[d]]
<1>1. phase \in [Conn -> {"new", "ready", "waiting", "closed"}] /\ DOMAIN result = Conn
  BY DEF TypeOK
<1>2. Of(phase', result') = [Of(phase, result) EXCEPT ![c] = s]
  BY <1>1
<1> QED BY <1>2 DEF Status

\* Opening, closing and retransmitting do nothing the caller could tell.
LEMMA ConnectionStutters ==
    ASSUME TypeOK, Counts, NEW c \in Conn, Open(c) \/ Close(c) \/ Retransmit(c)
    PROVE  UNCHANGED chVars
<1>1. UNCHANGED <<program, number, failed, result, effects>>
  BY DEF Open, Close, Retransmit
<1>2. \A d \in Conn : phase'[d] = "waiting" <=> phase[d] = "waiting"
  BY DEF TypeOK, Open, Close, Retransmit
<1>3. UNCHANGED Status
  BY <1>1, <1>2 DEF Status
<1>4. UNCHANGED Executions
  BY <1>1 DEF Executions
<1> QED BY <1>1, <1>3, <1>4 DEF chVars

\* Sending a command gives it.
LEMMA SendGives ==
    ASSUME TypeOK, NEW c \in Conn, Send(c)
    PROVE  Channel!Give(c)
<1> DEFINE n == number[c] + 1
           k == program[c][n]
<1>1. /\ n \in Number
      /\ phase[c] = "ready"
      /\ k = "command" => ~failed[c]
      /\ number' = [number EXCEPT ![c] = n]
      /\ \/ /\ k = "oneWay"
            /\ result' = [result EXCEPT ![c] = "SUCCESS"]
            /\ phase' = phase
         \/ /\ k # "oneWay"
            /\ result' = [result EXCEPT ![c] = "none"]
            /\ phase' = [phase EXCEPT ![c] = "waiting"]
      /\ UNCHANGED <<program, failed, effects>>
  BY SendFacts
<1>2. n \in Channel!Number
  BY <1>1 DEF Number, Channel!Number
<1> HIDE DEF n, k
<1>3. Status[c] = result[c] /\ Status[c] # "waiting"
  BY <1>1 DEF Status, TypeOK
<1>4. Status' = [Status EXCEPT ![c] = IF k = "oneWay" THEN "SUCCESS" ELSE "waiting"]
  <2>1. CASE k = "oneWay"
    <3>1. phase' = [phase EXCEPT ![c] = "ready"]
      BY <1>1, <2>1 DEF TypeOK
    <3>2. result' = [result EXCEPT ![c] = "SUCCESS"]
      BY <1>1, <2>1
    <3>3. Status' = [Status EXCEPT ![c] = "SUCCESS"]
      BY <3>1, <3>2, StatusChanges
    <3> QED BY <2>1, <3>3
  <2>2. CASE k # "oneWay"
    <3>1. /\ phase' = [phase EXCEPT ![c] = "waiting"]
          /\ result' = [result EXCEPT ![c] = "none"]
      BY <1>1, <2>2
    <3>2. Status' = [Status EXCEPT ![c] = "waiting"]
      BY <3>1, StatusChanges
    <3> QED BY <2>2, <3>2
  <2> QED BY <2>1, <2>2
<1>5. UNCHANGED Executions
  BY <1>1 DEF Executions
<1> QED BY <1>1, <1>2, <1>3, <1>4, <1>5 DEF Channel!Give, n, k

\* A call that ends returns its status, if that is what the device did.
LEMMA FinishReturns ==
    ASSUME TypeOK, NEW c \in Conn, NEW st \in {"SUCCESS", "FAILURE", "TIMEOUT"},
           phase[c] = "waiting", Finish(c, st), UNCHANGED <<program, number, effects>>,
           st = "SUCCESS" => <<c, number[c], TRUE>> \in Executions,
           st = "FAILURE" => <<c, number[c], FALSE>> \in Executions
    PROVE  Channel!Return(c, st)
<1>1. Status[c] = "waiting"
  BY DEF Status
<1>2. Status' = [Status EXCEPT ![c] = st]
  <2>1. /\ phase' = [phase EXCEPT ![c] = "ready"]
        /\ result' = [result EXCEPT ![c] = st]
    BY DEF Finish
  <2> QED BY <2>1, StatusChanges
<1>3. UNCHANGED Executions
  BY DEF Executions
<1>4. failed' = [failed EXCEPT ![c] =
            @ \/ (program[c][number[c]] = "command" /\ st # "SUCCESS")]
  BY DEF Finish
<1> QED BY <1>1, <1>2, <1>3, <1>4 DEF Channel!Return

\* A reply that is accepted is the outcome that is returned; any other packet
\* leaves the call as it was.
LEMMA ReceiveReturns ==
    ASSUME IInv, NEW c \in Conn, Receive(c)
    PROVE  \/ \E st \in {"SUCCESS", "FAILURE"} : Channel!Return(c, st)
           \/ UNCHANGED chVars
<1>1. PICK r : r = Head(inbox[c])
  OBVIOUS
<1>2. /\ r \in Reply /\ r = inbox[c][1] /\ 1 \in 1..Len(inbox[c])
      /\ phase[c] = "waiting"
      /\ \/ /\ Matches(c, r)
            /\ \E st \in {"SUCCESS", "FAILURE"} :
                   Finish(c, st) /\ (st = "SUCCESS" <=> r.ok)
         \/ UNCHANGED <<phase, result, failed>>
      /\ UNCHANGED <<program, number, effects>>
  BY <1>1, ReceiveFacts DEF IInv
<1>3. CASE UNCHANGED <<phase, result, failed>>
  BY <1>2, <1>3 DEF chVars, Status, Executions
<1>4. ASSUME Matches(c, r), NEW st \in {"SUCCESS", "FAILURE"},
             Finish(c, st), st = "SUCCESS" <=> r.ok
      PROVE  Channel!Return(c, st)
  <2>1. r.request.conn = c /\ r.request.number = number[c]
    BY <1>2, <1>4, MatchIsOwn DEF IInv
  <2>2. r \in effects /\ r.ok \in BOOLEAN
    BY <1>2 DEF IInv, PacketsAccounted, Reply
  <2>3. <<c, number[c], r.ok>> \in Executions
    BY <2>1, <2>2, ExecutionsAre
  <2>4. st = "SUCCESS" => <<c, number[c], TRUE>> \in Executions
    BY <1>4, <2>2, <2>3
  <2>5. st = "FAILURE" => <<c, number[c], FALSE>> \in Executions
    BY <1>4, <2>2, <2>3
  <2> QED BY <1>2, <1>4, <2>4, <2>5, FinishReturns DEF IInv
<1> QED BY <1>2, <1>3, <1>4

\* A packet a device executes is an execution the channel allows: only a query
\* has been executed before, and a command is awaited or was given up.
LEMMA ExecuteExecutes ==
    ASSUME IInv, NEW p \in requests, Execute(p)
    PROVE  /\ p.conn \in Conn /\ p.number \in Channel!Number
           /\ Channel!Execute(p.conn, p.number)
<1>1. PICK ok \in BOOLEAN :
          /\ effects' = effects \cup {[request |-> p, ok |-> ok]}
          /\ UNCHANGED <<phase, program, number, result, failed>>
  BY DEF Execute, hostVars
<1> DEFINE c == p.conn
           n == p.number
<1>2. p \in Request /\ c \in Conn /\ n \in Number
  BY ElementTypes DEF IInv
<1>3. n \in Channel!Number /\ n \in 1..number[c]
  BY <1>2 DEF IInv, PacketsAccounted, WasSent, TypeOK, Number, Channel!Number
<1>4. ASSUME program[c][n] # "query" PROVE ~Channel!Executed(c, n)
  <2> SUFFICES ASSUME Channel!Executed(c, n) PROVE FALSE
    OBVIOUS
  <2>1. PICK o \in BOOLEAN : <<c, n, o>> \in Executions
    BY DEF Channel!Executed
  <2>2. PICK e \in effects : e.request.conn = c /\ e.request.number = n
    BY <2>1, ExecutionsAre
  <2>3. e.request \in Request
    BY ElementTypes DEF IInv
  <2>4. p.try = 1 /\ e.request.try = 1
    BY <1>4, <2>2 DEF IInv, PacketsAccounted, WasSent, KindOf
  <2>5. e.request = p
    BY <1>2, <2>3, <2>4, <2>2 DEF Request
  <2> QED BY <2>5 DEF IInv, PacketsAccounted
<1>5. program[c][n] = "command" =>
          (Status[c] = "waiting" /\ number[c] = n) \/ failed[c]
  BY <1>2 DEF IInv, Progress, KindOf, Status
<1>6. Executions' = Executions \cup {<<c, n, ok>>}
  <2> DEFINE Of(e) == <<e.request.conn, e.request.number, e.ok>>
             new == [request |-> p, ok |-> ok]
  <2>1. Of(new) = <<c, n, ok>>
    OBVIOUS
  <2>2. {Of(e) : e \in effects \cup {new}} = {Of(e) : e \in effects} \cup {Of(new)}
    OBVIOUS
  <2> QED BY <1>1, <2>1, <2>2 DEF Executions
<1>7. UNCHANGED <<program, number, Status, failed>>
  BY <1>1 DEF Status
<1> HIDE DEF c, n
<1>8. Channel!Execute(c, n)
  BY <1>3, <1>4, <1>5, <1>6, <1>7 DEF Channel!Execute
<1> QED BY <1>2, <1>3, <1>8 DEF c, n

\* Every step of the threads, the network and the devices is one of the channel
\* or none.
LEMMA ChannelStep ==
    ASSUME IInv, [Next]_vars
    PROVE  Channel!Next \/ UNCHANGED chVars
<1> USE DEF Channel!Next
<1>1. ASSUME NEW c \in Conn, Open(c) \/ Close(c) \/ Retransmit(c)
      PROVE  UNCHANGED chVars
  BY <1>1, ConnectionStutters DEF IInv
<1>2. ASSUME NEW c \in Conn, Send(c) PROVE Channel!Next
  BY <1>2, SendGives DEF IInv
<1>3. ASSUME NEW c \in Conn, GiveUp(c) PROVE Channel!Next
  <2>1. /\ phase[c] = "waiting" /\ Finish(c, "TIMEOUT")
        /\ UNCHANGED <<program, number, effects>>
    BY <1>3 DEF GiveUp
  <2>2. Channel!Return(c, "TIMEOUT")
    BY <2>1, FinishReturns DEF IInv
  <2> QED BY <2>2
<1>4. ASSUME NEW c \in Conn, Receive(c) PROVE Channel!Next \/ UNCHANGED chVars
  BY <1>4, ReceiveReturns
<1>5. ASSUME NEW p \in requests, Execute(p) PROVE Channel!Next
  BY <1>5, ExecuteExecutes
<1>6. ASSUME NEW r \in replies, Deliver(r) PROVE UNCHANGED chVars
  BY <1>6 DEF Deliver, hostVars, chVars, Status, Executions
<1>7. CASE UNCHANGED vars
  BY <1>7 DEF vars, chVars, Status, Executions
<1> QED BY <1>1, <1>2, <1>3, <1>4, <1>5, <1>6, <1>7 DEF Next

-----------------------------------------------------------------------------
(* The theorems. *)

\* Pkt_Send_Receive, over a network that loses, delays and reorders packets and
\* brings every reply to every thread, is a channel that executes a command at
\* most once and returns its own outcome.
THEOREM ChannelRefinement == Spec => ImplementsCommandChannel
<1>1. Init => Channel!Init
  BY DEF Init, Channel!Init, Channel!Kind, Channel!Number, Kind, Number,
         Status, Executions
<1>2. IInv /\ [Next]_vars => [Channel!Next]_chVars
  BY ChannelStep
<1> QED BY <1>1, <1>2, InvariantHolds, PTL
       DEF Spec, ImplementsCommandChannel, Channel!Spec, Channel!vars, chVars

-----------------------------------------------------------------------------
(* What the channel promises. *)

\* Of the channel's connection c: the command ok or not; nothing was executed
\* that was not given; without a failure every command but the one awaited
\* succeeded; and a command was given only after those before it had.
Did(c, n, ok) == <<c, n, ok>> \in Executions
Before(c, n) == \A m \in Number :
                    m < n /\ program[c][m] = "command" => Did(c, m, TRUE)
OnceOnly(c) == \A n \in Number : program[c][n] = "command" =>
                    ~(Did(c, n, TRUE) /\ Did(c, n, FALSE))
OnlyGiven(c) == \A n \in Number, ok \in BOOLEAN : Did(c, n, ok) => n <= number[c]
NoneLost(c) == ~failed[c] => \A n \in Number :
                    n <= number[c] /\ program[c][n] = "command" =>
                        (Status[c] = "waiting" /\ n = number[c]) \/ Did(c, n, TRUE)
GivenAfter(c) == \A n \in Number :
                    n <= number[c] /\ program[c][n] = "command" => Before(c, n)

ConnectionInv(c) == OnceOnly(c) /\ OnlyGiven(c) /\ NoneLost(c) /\ GivenAfter(c)
ChannelInv == Channel!TypeOK /\ \A c \in Conn : ConnectionInv(c)

\* A connection nothing is done with keeps its part of the invariant.
LEMMA OtherConnection ==
    ASSUME NEW c, ConnectionInv(c),
           UNCHANGED <<program, number[c], Status[c], failed[c]>>,
           \A n, ok : Did(c, n, ok)' <=> Did(c, n, ok)
    PROVE  ConnectionInv(c)'
BY DEF ConnectionInv, OnceOnly, OnlyGiven, NoneLost, GivenAfter, Before

\* Giving a command keeps the invariant.
LEMMA GiveKeeps ==
    ASSUME ChannelInv, NEW c \in Conn, Channel!Give(c)
    PROVE  ChannelInv'
<1>1. PICK n \in Number : n = number[c] + 1
  BY DEF Channel!Give, Channel!Number, Number
<1>2. PICK st \in {"SUCCESS", "waiting"} :
          /\ Status' = [Status EXCEPT ![c] = st]
          /\ program[c][n] = "command" => ~failed[c] /\ st = "waiting"
  BY <1>1 DEF Channel!Give
<1>3. /\ Status[c] # "waiting"
      /\ number' = [number EXCEPT ![c] = n]
      /\ UNCHANGED <<program, failed, Executions>>
  BY <1>1 DEF Channel!Give
<1>4. Channel!TypeOK'
  <2>1. n \in 0..MaxCommands
    BY BoundAssumption DEF Number
  <2> QED BY <1>2, <1>3, <2>1 DEF ChannelInv, Channel!TypeOK
<1>5. ASSUME NEW d \in Conn PROVE ConnectionInv(d)'
  <2>0. /\ number \in [Conn -> 0..MaxCommands] /\ DOMAIN Status = Conn
        /\ ConnectionInv(d)
        /\ \A x, m, ok : Did(x, m, ok)' <=> Did(x, m, ok)
    BY <1>3 DEF ChannelInv, Channel!TypeOK, Did
  <2>1. CASE d # c
    BY <1>2, <1>3, <2>0, <2>1, OtherConnection
  <2>2. CASE d = c
    <3>1. /\ number[c] \in Nat /\ number'[c] = n /\ Status'[c] = st
          /\ \A m \in Number : m \in Nat /\ (m <= n => m <= number[c] \/ m = n)
      BY <1>1, <1>2, <1>3, <2>0, BoundAssumption DEF Number
    <3>2. OnceOnly(c)' /\ OnlyGiven(c)'
      <4>1. OnceOnly(c) /\ OnlyGiven(c)
        BY <2>0, <2>2 DEF ConnectionInv
      <4>2. OnceOnly(c)'
        BY <1>3, <2>0, <4>1 DEF OnceOnly
      <4>3. OnlyGiven(c)'
        <5> SUFFICES ASSUME NEW m \in Number, NEW ok \in BOOLEAN, Did(c, m, ok)'
                     PROVE  m <= n
          BY <3>1 DEF OnlyGiven
        <5>1. m <= number[c]
          BY <2>0, <4>1 DEF OnlyGiven
        <5> QED BY <1>1, <3>1, <5>1
      <4> QED BY <4>2, <4>3
    <3>3. ~failed[c] => \A m \in Number :
              m <= number[c] /\ program[c][m] = "command" => Did(c, m, TRUE)
      BY <1>3, <2>0, <2>2 DEF ConnectionInv, NoneLost
    <3>4. NoneLost(c)'
      BY <1>2, <1>3, <2>0, <3>1, <3>3 DEF NoneLost
    <3>5. ASSUME NEW i \in Number, i <= n, program[c][i] = "command"
          PROVE  Before(c, i)'
      <4>1. CASE i = n
        <5>1. \A m \in Number : m < n /\ program[c][m] = "command" => Did(c, m, TRUE)
          <6>1. \A m \in Number : m < n => m <= number[c]
            BY <1>1, <3>1
          <6> QED BY <1>2, <3>3, <3>5, <4>1, <6>1
        <5> QED BY <1>3, <2>0, <4>1, <5>1 DEF Before
      <4>2. CASE i # n
        BY <1>3, <2>0, <2>2, <3>1, <3>5, <4>2
           DEF ConnectionInv, GivenAfter, Before
      <4> QED BY <4>1, <4>2
    <3> QED BY <1>3, <2>2, <3>1, <3>2, <3>4, <3>5 DEF ConnectionInv, GivenAfter
  <2> QED BY <2>1, <2>2
<1> QED BY <1>4, <1>5 DEF ChannelInv

\* An execution the channel allows keeps the invariant.
LEMMA ExecuteKeeps ==
    ASSUME ChannelInv, NEW c \in Conn, NEW n \in Number, Channel!Execute(c, n)
    PROVE  ChannelInv'
<1>1. PICK ok \in BOOLEAN : Executions' = Executions \cup {<<c, n, ok>>}
  BY DEF Channel!Execute
<1>2. /\ n <= number[c]
      /\ program[c][n] = "command" => \A o \in BOOLEAN : ~Did(c, n, o)
      /\ UNCHANGED <<program, number, Status, failed>>
  <2>1. n \in 1..number[c] /\ number[c] \in Nat
    BY DEF Channel!Execute, ChannelInv, Channel!TypeOK
  <2>2. program[c][n] = "command" => ~Channel!Executed(c, n)
    BY DEF Channel!Execute
  <2>3. UNCHANGED <<program, number, Status, failed>>
    BY DEF Channel!Execute
  <2>4. \A o \in BOOLEAN : Did(c, n, o) => Channel!Executed(c, n)
    BY DEF Channel!Executed, Did
  <2> QED BY <2>1, <2>2, <2>3, <2>4
<1>3. Channel!TypeOK'
  <2>1. <<c, n, ok>> \in Conn \X Channel!Number \X BOOLEAN
    BY DEF Number, Channel!Number
  <2> QED BY <1>1, <1>2, <2>1 DEF ChannelInv, Channel!TypeOK
<1>4. /\ \A d, m, o : Did(d, m, o) => Did(d, m, o)'
      /\ \A d, m : \A o \in BOOLEAN : Did(d, m, o)' =>
              Did(d, m, o) \/ (d = c /\ m = n /\ o = ok)
  <2>1. \A x : x \in Executions' <=> x \in Executions \/ x = <<c, n, ok>>
    BY <1>1
  <2>2. \A d, m, o : Did(d, m, o) => Did(d, m, o)'
    BY <2>1 DEF Did
  <2>3. ASSUME NEW d, NEW m, NEW o \in BOOLEAN, Did(d, m, o)', ~Did(d, m, o)
        PROVE  d = c /\ m = n /\ o = ok
    <3>1. <<d, m, o>> = <<c, n, ok>>
      BY <2>1, <2>3 DEF Did
    <3> QED BY <3>1
  <2> QED BY <2>2, <2>3
<1>5. ASSUME NEW d \in Conn PROVE ConnectionInv(d)'
  <2>0. ConnectionInv(d)
    BY DEF ChannelInv
  <2>1. OnceOnly(d)'
    <3> SUFFICES ASSUME NEW m \in Number, program[d][m] = "command"
                 PROVE  ~(Did(d, m, TRUE)' /\ Did(d, m, FALSE)')
      BY <1>2 DEF OnceOnly
    <3>1. ~(Did(d, m, TRUE) /\ Did(d, m, FALSE))
      BY <2>0 DEF ConnectionInv, OnceOnly
    <3>2. CASE d = c /\ m = n
      <4>1. ~Did(c, n, TRUE) /\ ~Did(c, n, FALSE)
        BY <1>2, <3>2
      <4>2. CASE ok
        BY <1>4, <3>2, <4>1, <4>2
      <4>3. CASE ~ok
        BY <1>4, <3>2, <4>1, <4>3
      <4> QED BY <4>2, <4>3
    <3>3. CASE ~(d = c /\ m = n)
      <4>1. \A o \in BOOLEAN : Did(d, m, o)' => Did(d, m, o)
        BY <1>4, <3>3
      <4> QED BY <3>1, <4>1
    <3> QED BY <3>2, <3>3
  <2>2. OnlyGiven(d)'
    BY <1>2, <1>4, <2>0 DEF ConnectionInv, OnlyGiven
  <2>3. NoneLost(d)' /\ GivenAfter(d)'
    BY <1>2, <1>4, <2>0 DEF ConnectionInv, NoneLost, GivenAfter, Before
  <2> QED BY <2>1, <2>2, <2>3 DEF ConnectionInv
<1> QED BY <1>3, <1>5 DEF ChannelInv

\* A return keeps the invariant: SUCCESS stands for an execution.
LEMMA ReturnKeeps ==
    ASSUME ChannelInv, NEW c \in Conn,
           NEW st \in {"SUCCESS", "FAILURE", "TIMEOUT"}, Channel!Return(c, st)
    PROVE  ChannelInv'
<1>1. /\ Status[c] = "waiting"
      /\ st = "SUCCESS" => Did(c, number[c], TRUE)
      /\ Status' = [Status EXCEPT ![c] = st]
      /\ UNCHANGED <<program, number, Executions>>
  BY DEF Channel!Return, Did
<1>2. PICK b \in BOOLEAN :
          /\ b = (program[c][number[c]] = "command" /\ st # "SUCCESS")
          /\ failed' = [failed EXCEPT ![c] = failed[c] \/ b]
  BY DEF Channel!Return
<1>3. Channel!TypeOK'
  <2>1. failed[c] \/ b \in BOOLEAN
    OBVIOUS
  <2> QED BY <1>1, <1>2, <2>1 DEF ChannelInv, Channel!TypeOK
<1>4. ASSUME NEW d \in Conn PROVE ConnectionInv(d)'
  <2>0. /\ ConnectionInv(d) /\ DOMAIN Status = Conn /\ DOMAIN failed = Conn
        /\ \A x, m, ok : Did(x, m, ok)' <=> Did(x, m, ok)
    BY <1>1 DEF ChannelInv, Channel!TypeOK, Did
  <2>1. CASE d # c
    BY <1>1, <1>2, <2>0, <2>1, OtherConnection
  <2>2. CASE d = c
    <3>1. OnceOnly(c)' /\ OnlyGiven(c)' /\ GivenAfter(c)'
      BY <1>1, <2>0, <2>2 DEF ConnectionInv, OnceOnly, OnlyGiven, GivenAfter, Before
    <3>2. ~failed'[c] => ~failed[c] /\ (program[c][number[c]] = "command" => st = "SUCCESS")
      BY <1>2, <2>0
    <3>3. NoneLost(c)'
      BY <1>1, <2>0, <2>2, <3>2 DEF ConnectionInv, NoneLost
    <3> QED BY <2>2, <3>1, <3>3 DEF ConnectionInv
  <2> QED BY <2>1, <2>2
<1> QED BY <1>3, <1>4 DEF ChannelInv

\* Whoever writes data in pieces over such a channel writes them in order, each
\* once, and with no hole.
THEOREM ChannelInOrder == Channel!Spec => []Channel!InOrder
<1>1. Channel!Init => ChannelInv
  BY BoundAssumption
     DEF Channel!Init, ChannelInv, Channel!TypeOK, Channel!Kind, Channel!Number,
         Number, ConnectionInv, OnceOnly, OnlyGiven, NoneLost, GivenAfter, Before, Did
<1>2. ChannelInv /\ [Channel!Next]_(Channel!vars) => ChannelInv'
  <2> SUFFICES ASSUME ChannelInv, [Channel!Next]_(Channel!vars) PROVE ChannelInv'
    OBVIOUS
  <2>1. CASE UNCHANGED Channel!vars
    BY <2>1 DEF Channel!vars, ChannelInv, Channel!TypeOK, ConnectionInv,
                OnceOnly, OnlyGiven, NoneLost, GivenAfter, Before, Did
  <2>2. \A n \in Channel!Number : n \in Number
    BY DEF Channel!Number, Number
  <2> QED BY <2>1, <2>2, GiveKeeps, ExecuteKeeps, ReturnKeeps DEF Channel!Next
<1>3. ChannelInv => Channel!InOrder
  <2> SUFFICES ASSUME ChannelInv, NEW c \in Conn, NEW n \in Number,
                      program[c][n] = "command", NEW ok \in BOOLEAN, Did(c, n, ok)
               PROVE  /\ ~(Did(c, n, TRUE) /\ Did(c, n, FALSE))
                      /\ \A m \in 1..(n - 1) :
                            program[c][m] = "command" => Did(c, m, TRUE)
    BY DEF Channel!InOrder, Channel!Executed, Channel!Number, Number, Did
  <2>1. ConnectionInv(c)
    BY DEF ChannelInv
  <2>2. n <= number[c] /\ \A m \in 1..(n - 1) : m \in Number /\ m < n
    BY <2>1, BoundAssumption DEF ConnectionInv, OnlyGiven, Number
  <2> QED BY <2>1, <2>2 DEF ConnectionInv, OnceOnly, GivenAfter, Before
<1> QED BY <1>1, <1>2, <1>3, PTL DEF Channel!Spec

\* So are the commands of Pkt_Send_Receive.
THEOREM TransportInOrder == Spec => []Channel!InOrder
BY ChannelRefinement, ChannelInOrder, PTL DEF ImplementsCommandChannel

=============================================================================
