------------------------ MODULE PacketHandling_proofs ------------------------
(***************************************************************************)
(* Proofs about PacketHandling, for any number of connections, devices,    *)
(* commands and tries, and any sizes of the ids and of the buffers.        *)
(***************************************************************************)
EXTENDS PacketHandling, TLAPS

-----------------------------------------------------------------------------
(* Type correctness. *)

\* A packet is sent once or up to QueryTries times.
LEMMA TriesType == \A k : Tries(k) \in Nat \ {0}
BY BoundAssumption DEF Tries

\* What Pkt_Send_Receive returns keeps the types of the thread's state.
LEMMA FinishTypes ==
    ASSUME TypeOK, NEW c \in Conn, NEW st \in {"SUCCESS", "FAILURE", "TIMEOUT"},
           Finish(c, st)
    PROVE  /\ phase' \in [Conn -> {"new", "ready", "waiting", "closed"}]
           /\ result' \in [Conn -> {"none", "SUCCESS", "FAILURE", "TIMEOUT"}]
           /\ failed' \in [Conn -> BOOLEAN]
<1>1. phase' \in [Conn -> {"new", "ready", "waiting", "closed"}]
  BY DEF TypeOK, Finish
<1>2. result' \in [Conn -> {"none", "SUCCESS", "FAILURE", "TIMEOUT"}]
  BY DEF TypeOK, Finish
<1>3. failed' \in [Conn -> BOOLEAN]
  <2> DEFINE b == failed[c] \/ (program[c][number[c]] = "command" /\ st # "SUCCESS")
  <2>1. b \in BOOLEAN
    OBVIOUS
  <2>2. failed' = [failed EXCEPT ![c] = b]
    BY DEF Finish
  <2> HIDE DEF b
  <2> QED BY <2>1, <2>2 DEF TypeOK
<1> QED BY <1>1, <1>2, <1>3

\* The n-th transmission of a command, for the packet that Transmit adds.
Sent(c, n, t) == [conn |-> c, number |-> n, try |-> t]

LEMMA SentType ==
    \A c \in Conn : \A n \in Number : \A t \in Nat :
        /\ Sent(c, n, t) \in Request
        /\ Sent(c, n, t).conn = c
        /\ Sent(c, n, t).number = n
        /\ Sent(c, n, t).try = t
BY DEF Sent, Request

\* What Send does, with the number of the transmission worked out.
LEMMA SendFacts ==
    ASSUME TypeOK, NEW c \in Conn, Send(c)
    PROVE  LET n == number[c] + 1
               k == program[c][n]
           IN  /\ n \in Number
               /\ n \in 0..MaxCommands
               /\ k \in Kind
               /\ phase[c] = "ready"
               /\ k = "command" => ~failed[c]
               /\ number' = [number EXCEPT ![c] = n]
               /\ left' = [left EXCEPT ![c] = Tries(k) - 1]
               /\ Tries(k) - 1 \in Nat
               /\ requests' = requests \cup {Sent(c, n, 1)}
               /\ answer' = [answer EXCEPT ![c] = {}]
               /\ \/ /\ k = "oneWay"
                     /\ result' = [result EXCEPT ![c] = "SUCCESS"]
                     /\ phase' = phase
                  \/ /\ k # "oneWay"
                     /\ result' = [result EXCEPT ![c] = "none"]
                     /\ phase' = [phase EXCEPT ![c] = "waiting"]
               /\ UNCHANGED <<program, failed, inbox, replies, effects>>
<1> DEFINE n == number[c] + 1
           k == program[c][n]
<1>1. n \in Number /\ n \in 0..MaxCommands /\ k \in Kind
  <2>1. n \in Number
    BY DEF Send
  <2>2. program[c] \in [Number -> Kind]
    BY DEF TypeOK
  <2>3. n \in 0..MaxCommands
    BY <2>1, BoundAssumption DEF Number
  <2> QED BY <2>1, <2>2, <2>3
<1>2. Tries(k) - 1 \in Nat /\ Tries(k) - (Tries(k) - 1) = 1
  BY TriesType
<1>3. requests' = requests \cup {Sent(c, n, Tries(k) - (Tries(k) - 1))}
  BY DEF Send, Transmit, Sent
<1>4. requests' = requests \cup {Sent(c, n, 1)}
  BY <1>2, <1>3
<1> QED BY <1>1, <1>2, <1>4 DEF Send, MaySend

\* What Retransmit does, with the number of the transmission worked out.
LEMMA RetransmitFacts ==
    ASSUME TypeOK, Counts, NEW c \in Conn, Retransmit(c)
    PROVE  LET n == number[c]
               k == program[c][n]
               t == Tries(k) - left[c] + 1
           IN  /\ n \in Number
               /\ phase[c] = "waiting"
               /\ k = "query"
               /\ left[c] \in Nat \ {0}
               /\ Tries(k) \in Nat \ {0}
               /\ left[c] < Tries(k)
               /\ t \in Nat
               /\ left' = [left EXCEPT ![c] = left[c] - 1]
               /\ requests' = requests \cup {Sent(c, n, t)}
               /\ UNCHANGED <<phase, program, number, result, answer, failed,
                              inbox, replies, effects>>
<1> DEFINE n == number[c]
           k == program[c][n]
           t == Tries(k) - left[c] + 1
<1>1. n \in Number /\ phase[c] = "waiting" /\ left[c] \in Nat \ {0}
  BY DEF Retransmit, TypeOK, Counts, Number
<1>2. Tries(k) \in Nat \ {0} /\ left[c] < Tries(k)
  BY <1>1, TriesType DEF Counts, Number
<1>3. k = "query"
  BY <1>1, <1>2 DEF Tries
<1>4. t \in Nat /\ Tries(k) - (left[c] - 1) = t
  BY <1>1, <1>2
<1>5. requests' = requests \cup {Sent(c, n, Tries(k) - (left[c] - 1))}
  BY DEF Retransmit, Transmit, Sent
<1>6. requests' = requests \cup {Sent(c, n, t)}
  BY <1>4, <1>5
<1> QED BY <1>1, <1>2, <1>3, <1>4, <1>6 DEF Retransmit

\* What Receive does: the first packet leaves the buffer; it ends the wait or
\* changes nothing else.
LEMMA ReceiveFacts ==
    ASSUME TypeOK, NEW c \in Conn, Receive(c)
    PROVE  LET r == Head(inbox[c])
           IN  /\ r \in Reply
               /\ inbox[c] \in Seq(Reply) /\ inbox[c] # <<>>
               /\ r = inbox[c][1] /\ 1 \in 1..Len(inbox[c])
               /\ phase[c] = "waiting"
               /\ inbox' = [inbox EXCEPT ![c] = Tail(inbox[c])]
               /\ \/ /\ Matches(c, r)
                     /\ answer' = [answer EXCEPT ![c] = {r}]
                     /\ \E st \in {"SUCCESS", "FAILURE"} :
                            Finish(c, st) /\ (st = "SUCCESS" <=> r.ok)
                  \/ UNCHANGED <<answer, phase, result, failed>>
               /\ UNCHANGED <<program, number, left, requests, replies, effects>>
<1> DEFINE r == Head(inbox[c])
           st == IF r.ok THEN "SUCCESS" ELSE "FAILURE"
<1>1. inbox[c] \in Seq(Reply) /\ inbox[c] # <<>>
  BY DEF TypeOK, Receive
<1>2. r \in Reply /\ r = inbox[c][1] /\ 1 \in 1..Len(inbox[c])
  BY <1>1
<1>3. st \in {"SUCCESS", "FAILURE"} /\ (st = "SUCCESS" <=> r.ok)
  OBVIOUS
<1>4. \/ /\ Matches(c, r)
         /\ answer' = [answer EXCEPT ![c] = {r}]
         /\ Finish(c, st)
      \/ UNCHANGED <<answer, phase, result, failed>>
  BY DEF Receive
<1>5. /\ phase[c] = "waiting"
      /\ inbox' = [inbox EXCEPT ![c] = Tail(inbox[c])]
      /\ UNCHANGED <<program, number, left, requests, replies, effects>>
  BY DEF Receive
<1> HIDE DEF r, st
<1>6. \/ /\ Matches(c, r)
         /\ answer' = [answer EXCEPT ![c] = {r}]
         /\ \E z \in {"SUCCESS", "FAILURE"} :
                Finish(c, z) /\ (z = "SUCCESS" <=> r.ok)
      \/ UNCHANGED <<answer, phase, result, failed>>
  BY <1>3, <1>4
<1> QED BY <1>1, <1>2, <1>5, <1>6 DEF r

\* Every step keeps the types and the count of tries.
LEMMA StepTypes == TypeOK /\ Counts /\ [Next]_vars => TypeOK' /\ Counts'
<1> SUFFICES ASSUME TypeOK, Counts, [Next]_vars PROVE TypeOK' /\ Counts'
  OBVIOUS
<1>1. ASSUME NEW c \in Conn, Open(c) PROVE TypeOK' /\ Counts'
  BY <1>1 DEF TypeOK, Open, Counts
<1>2. ASSUME NEW c \in Conn, Send(c) PROVE TypeOK' /\ Counts'
  <2> DEFINE n == number[c] + 1
             k == program[c][n]
  <2>1. /\ n \in Number /\ n \in 0..MaxCommands
        /\ number' = [number EXCEPT ![c] = n]
        /\ left' = [left EXCEPT ![c] = Tries(k) - 1]
        /\ Tries(k) - 1 \in Nat
        /\ requests' = requests \cup {Sent(c, n, 1)}
        /\ answer' = [answer EXCEPT ![c] = {}]
        /\ result' \in {[result EXCEPT ![c] = "SUCCESS"], [result EXCEPT ![c] = "none"]}
        /\ phase' \in {phase, [phase EXCEPT ![c] = "waiting"]}
        /\ UNCHANGED <<program, failed, inbox, replies, effects>>
    BY <1>2, SendFacts
  <2>2. Sent(c, n, 1) \in Request /\ Tries(k) \in Nat
    BY <2>1, SentType, TriesType
  <2>3. k = program'[c][number'[c]] /\ number'[c] = n /\ n > 0
    BY <2>1 DEF TypeOK, Number
  <2> HIDE DEF n, k
  <2>4. TypeOK'
    BY <2>1, <2>2 DEF TypeOK
  <2>5. Counts'
    BY <2>1, <2>2, <2>3 DEF Counts, TypeOK
  <2> QED BY <2>4, <2>5
<1>3. ASSUME NEW c \in Conn, Retransmit(c) PROVE TypeOK' /\ Counts'
  <2> DEFINE n == number[c]
             k == program[c][n]
             t == Tries(k) - left[c] + 1
  <2>1. /\ n \in Number
        /\ left[c] \in Nat \ {0} /\ left[c] < Tries(k) /\ Tries(k) \in Nat
        /\ t \in Nat
        /\ left' = [left EXCEPT ![c] = left[c] - 1]
        /\ requests' = requests \cup {Sent(c, n, t)}
        /\ UNCHANGED <<phase, program, number, result, answer, failed,
                       inbox, replies, effects>>
    BY <1>3, RetransmitFacts
  <2>2. Sent(c, n, t) \in Request
    BY <2>1, SentType
  <2> HIDE DEF t
  <2>3. TypeOK'
    BY <2>1, <2>2 DEF TypeOK
  <2>4. Counts'
    BY <2>1 DEF Counts, TypeOK
  <2> QED BY <2>3, <2>4
<1>4. ASSUME NEW c \in Conn, GiveUp(c) PROVE TypeOK' /\ Counts'
  <2>1. TypeOK'
    BY <1>4, FinishTypes DEF TypeOK, GiveUp
  <2>2. Counts'
    BY <1>4 DEF TypeOK, GiveUp, Finish, Counts
  <2> QED BY <2>1, <2>2
<1>5. ASSUME NEW c \in Conn, Receive(c) PROVE TypeOK' /\ Counts'
  <2> DEFINE r == Head(inbox[c])
  <2>1. /\ r \in Reply
        /\ inbox[c] \in Seq(Reply) /\ inbox[c] # <<>>
        /\ inbox' = [inbox EXCEPT ![c] = Tail(inbox[c])]
        /\ \/ /\ answer' = [answer EXCEPT ![c] = {r}]
              /\ \E st \in {"SUCCESS", "FAILURE"} : Finish(c, st)
           \/ UNCHANGED <<answer, phase, result, failed>>
        /\ UNCHANGED <<program, number, left, requests, replies, effects>>
    BY <1>5, ReceiveFacts
  <2> HIDE DEF r
  <2>2. inbox' \in [Conn -> Seq(Reply)]
    <3>1. Tail(inbox[c]) \in Seq(Reply)
      BY <2>1
    <3> QED BY <2>1, <3>1 DEF TypeOK
  <2>3. CASE /\ answer' = [answer EXCEPT ![c] = {r}]
             /\ \E st \in {"SUCCESS", "FAILURE"} : Finish(c, st)
    <3>1. answer' \in [Conn -> SUBSET Reply]
      BY <2>1, <2>3 DEF TypeOK
    <3>2. TypeOK'
      BY <2>1, <2>2, <2>3, <3>1, FinishTypes DEF TypeOK
    <3>3. Counts'
      BY <2>1, <2>3 DEF Counts, Finish, TypeOK
    <3> QED BY <3>2, <3>3
  <2>4. CASE UNCHANGED <<answer, phase, result, failed>>
    BY <2>1, <2>2, <2>4 DEF TypeOK, Counts
  <2> QED BY <2>1, <2>3, <2>4
<1>6. ASSUME NEW c \in Conn, Close(c) PROVE TypeOK' /\ Counts'
  <2>1. inbox' \in [Conn -> Seq(Reply)]
    BY <1>6 DEF Close, TypeOK
  <2> QED BY <1>6, <2>1 DEF TypeOK, Close, Counts
<1>7. ASSUME NEW p \in requests, Execute(p) PROVE TypeOK' /\ Counts'
  <2>1. PICK ok \in BOOLEAN :
            /\ effects' = effects \cup {[request |-> p, ok |-> ok]}
            /\ replies' \subseteq replies \cup {[request |-> p, ok |-> ok]}
    BY <1>7 DEF Execute
  <2>2. [request |-> p, ok |-> ok] \in Reply
    BY DEF TypeOK, Reply
  <2> QED BY <1>7, <2>1, <2>2 DEF TypeOK, Execute, hostVars, Counts
<1>8. ASSUME NEW r \in replies, Deliver(r) PROVE TypeOK' /\ Counts'
  <2>1. r \in Reply
    BY DEF TypeOK
  <2>2. \A c \in Conn : Append(inbox[c], r) \in Seq(Reply)
    BY <2>1 DEF TypeOK
  <2>3. inbox' \in [Conn -> Seq(Reply)]
    BY <1>8, <2>2 DEF Deliver, TypeOK
  <2> QED BY <1>8, <2>3 DEF TypeOK, Deliver, hostVars, Counts
<1>9. CASE UNCHANGED vars
  BY <1>9 DEF TypeOK, vars, Counts
<1> QED BY <1>1, <1>2, <1>3, <1>4, <1>5, <1>6, <1>7, <1>8, <1>9 DEF Next

\* The types hold initially, with the count of tries.
LEMMA InitTypes == Init => TypeOK /\ Counts
BY BoundAssumption DEF Init, TypeOK, Counts

\* Every variable has its type in every reachable state.
THEOREM TypesHold == Spec => []TypeOK
<1>1. Init => TypeOK /\ Counts
  BY InitTypes
<1>2. (TypeOK /\ Counts) /\ [Next]_vars => (TypeOK /\ Counts)'
  BY StepTypes
<1> QED BY <1>1, <1>2, PTL DEF Spec

-----------------------------------------------------------------------------
(* Packets. *)

\* A packet that was sent stays so when numbers grow and tries are used up.
LEMMA WasSentStable ==
    ASSUME TypeOK, Counts, NEW p \in Request, WasSent(p),
           UNCHANGED program, Counts', TypeOK',
           \A c \in Conn : \/ number'[c] > number[c]
                           \/ number'[c] = number[c] /\ left'[c] <= left[c]
    PROVE  WasSent(p)'
<1>1. /\ p.conn \in Conn /\ p.number \in Number /\ p.try \in Nat
      /\ KindOf(p)' = KindOf(p)
  BY DEF Request, KindOf
<1>2. /\ number[p.conn] \in Nat /\ number'[p.conn] \in Nat
      /\ left[p.conn] \in Nat /\ left'[p.conn] \in Nat
      /\ p.number \in Nat
      /\ Tries(program[p.conn][p.number]) \in Nat
  BY <1>1, TriesType DEF TypeOK, Number
<1>3. p.number <= number'[p.conn]
  BY <1>1, <1>2 DEF WasSent
<1>4. p.number = number'[p.conn] =>
        p.try <= Tries(program[p.conn][p.number]) - left'[p.conn]
  BY <1>1, <1>2 DEF WasSent
<1> QED BY <1>1, <1>3, <1>4 DEF WasSent

\* No step undoes a transmission.
LEMMA StepWasSent ==
    ASSUME TypeOK, Counts, [Next]_vars, NEW p \in Request, WasSent(p)
    PROVE  WasSent(p)'
<1>1. TypeOK' /\ Counts'
  BY StepTypes
<1> DEFINE Grows == \A c \in Conn :
                \/ number'[c] > number[c]
                \/ number'[c] = number[c] /\ left'[c] <= left[c]
<1> SUFFICES UNCHANGED program /\ Grows
  BY <1>1, WasSentStable
<1>2. \A c \in Conn : number[c] \in Nat /\ left[c] \in Nat
  BY DEF TypeOK
<1>3. CASE UNCHANGED <<program, number, left>>
  BY <1>2, <1>3
<1>4. ASSUME NEW c \in Conn, Send(c) PROVE UNCHANGED program /\ Grows
  <2>1. number' = [number EXCEPT ![c] = number[c] + 1] /\ UNCHANGED program
    BY <1>4, SendFacts
  <2>2. \A d \in Conn \ {c} : number'[d] = number[d] /\ left'[d] = left[d]
    BY <1>4 DEF Send, TypeOK
  <2>3. number'[c] > number[c]
    BY <1>2, <2>1 DEF TypeOK
  <2> QED BY <1>2, <2>1, <2>2, <2>3
<1>5. ASSUME NEW c \in Conn, Retransmit(c) PROVE UNCHANGED program /\ Grows
  <2>1. left' = [left EXCEPT ![c] = left[c] - 1] /\ UNCHANGED <<program, number>>
    BY <1>5, RetransmitFacts
  <2> QED BY <1>2, <2>1 DEF TypeOK
<1>6. ASSUME NEW c \in Conn, Open(c) \/ GiveUp(c) \/ Receive(c) \/ Close(c)
      PROVE  UNCHANGED <<program, number, left>>
  BY <1>6 DEF Open, GiveUp, Receive, Close
<1>7. ASSUME NEW q \in requests, Execute(q) PROVE UNCHANGED <<program, number, left>>
  BY <1>7 DEF Execute, hostVars
<1>8. ASSUME NEW r \in replies, Deliver(r) PROVE UNCHANGED <<program, number, left>>
  BY <1>8 DEF Deliver, hostVars
<1>9. CASE UNCHANGED vars
  BY <1>3, <1>9 DEF vars
<1> QED BY <1>3, <1>4, <1>5, <1>6, <1>7, <1>8, <1>9 DEF Next

\* The kind of a packet does not change.
LEMMA KindStable == [Next]_vars => UNCHANGED program
BY DEF Next, Open, Send, Retransmit, GiveUp, Receive, Close, Execute, Deliver,
       hostVars, vars

\* The types of the elements of the sets.
LEMMA ElementTypes ==
    ASSUME TypeOK
    PROVE  /\ \A p \in requests : p \in Request
           /\ \A e \in effects : e \in Reply /\ e.request \in Request
           /\ \A p \in Request : p.conn \in Conn /\ p.number \in Number /\ p.try \in Nat
BY DEF TypeOK, Reply, Request

\* A transmission just made is new: it equals none that was made before.
LEMMA TransmitKeepsPackets ==
    ASSUME TypeOK, PacketsAccounted, [Next]_vars, Counts,
           NEW q \in Request, ~WasSent(q), WasSent(q)',
           requests' = requests \cup {q},
           UNCHANGED <<inbox, replies, effects>>
    PROVE  PacketsAccounted'
<1>1. \A p \in requests' : WasSent(p)' /\ \A e \in effects' : e.request # p
  BY StepWasSent, ElementTypes DEF PacketsAccounted
<1>2. \A e \in effects' : WasSent(e.request)'
  BY StepWasSent, ElementTypes DEF PacketsAccounted
<1> QED BY <1>1, <1>2 DEF PacketsAccounted

\* Packets stay accounted for when nothing is sent or executed.
LEMMA HostKeepsPackets ==
    ASSUME TypeOK, PacketsAccounted, [Next]_vars, Counts,
           requests' \subseteq requests, UNCHANGED effects,
           replies' \subseteq replies,
           \A c \in Conn : \A i \in 1..Len(inbox'[c]) : inbox'[c][i] \in effects
    PROVE  PacketsAccounted'
<1>1. \A p \in requests' : WasSent(p)' /\ \A e \in effects' : e.request # p
  BY StepWasSent, ElementTypes DEF PacketsAccounted
<1>2. \A e \in effects' : WasSent(e.request)'
  BY StepWasSent, ElementTypes DEF PacketsAccounted
<1> QED BY <1>1, <1>2 DEF PacketsAccounted

\* Every step keeps the account of the packets.
LEMMA StepPackets ==
    ASSUME TypeOK, Counts, PacketsAccounted, [Next]_vars
    PROVE  PacketsAccounted'
<1>1. TypeOK' /\ Counts' /\ UNCHANGED program
  BY StepTypes, KindStable
<1>2. \A c \in Conn : number[c] \in Nat /\ left[c] \in Nat
  BY DEF TypeOK
<1>3. ASSUME NEW c \in Conn, Send(c) PROVE PacketsAccounted'
  <2> DEFINE n == number[c] + 1
             k == program[c][n]
  <2>0. PICK q : q = Sent(c, n, 1)
    OBVIOUS
  <2>1. /\ n \in Number
        /\ number' = [number EXCEPT ![c] = n]
        /\ left' = [left EXCEPT ![c] = Tries(k) - 1]
        /\ requests' = requests \cup {q}
        /\ UNCHANGED <<program, inbox, replies, effects>>
    BY <1>3, <2>0, SendFacts
  <2>2. q \in Request /\ q.conn = c /\ q.number = n /\ q.try = 1
    BY <2>0, <2>1, SentType
  <2>3. number'[c] = n /\ left'[c] = Tries(k) - 1 /\ Tries(k) \in Nat
    BY <2>1, TriesType DEF TypeOK
  <2>4. ~WasSent(q)
    BY <1>2, <2>2 DEF WasSent
  <2>5. WasSent(q)'
    <3>1. program'[c][n] = k
      BY <2>1
    <3> HIDE DEF k
    <3>2. n <= number'[c] /\ 1 <= Tries(k) - left'[c]
      BY <1>2, <2>3
    <3> QED BY <2>2, <3>1, <3>2 DEF WasSent
  <2> QED BY <2>1, <2>2, <2>4, <2>5, TransmitKeepsPackets
<1>4. ASSUME NEW c \in Conn, Retransmit(c) PROVE PacketsAccounted'
  <2> DEFINE n == number[c]
             k == program[c][n]
             t == Tries(k) - left[c] + 1
  <2>0. PICK q : q = Sent(c, n, t)
    OBVIOUS
  <2>1. /\ n \in Number
        /\ k = "query"
        /\ left[c] \in Nat \ {0} /\ Tries(k) \in Nat /\ t \in Nat
        /\ left' = [left EXCEPT ![c] = left[c] - 1]
        /\ requests' = requests \cup {q}
        /\ UNCHANGED <<program, number, inbox, replies, effects>>
    BY <1>4, <2>0, RetransmitFacts
  <2>2. q \in Request /\ q.conn = c /\ q.number = n /\ q.try = t
    BY <2>0, <2>1, SentType
  <2>3. left'[c] = left[c] - 1 /\ number'[c] = n /\ program'[c][n] = k
    BY <2>1 DEF TypeOK
  <2>4. ~WasSent(q)
    <3>1. ~(t <= Tries(k) - left[c])
      BY <2>1
    <3> QED BY <2>2, <3>1 DEF WasSent
  <2>5. WasSent(q)'
    <3>1. t <= Tries(k) - left'[c]
      BY <2>1, <2>3
    <3>2. n <= number'[c] /\ KindOf(q)' = "query"
      BY <1>2, <2>1, <2>2, <2>3 DEF KindOf
    <3> QED BY <2>2, <2>3, <3>1, <3>2 DEF WasSent
  <2> QED BY <2>1, <2>2, <2>4, <2>5, TransmitKeepsPackets
<1>5. ASSUME NEW c \in Conn, Open(c) \/ GiveUp(c) PROVE PacketsAccounted'
  <2>1. UNCHANGED <<inbox, requests, replies, effects>>
    BY <1>5 DEF Open, GiveUp
  <2>2. \A d \in Conn : \A i \in 1..Len(inbox'[d]) : inbox'[d][i] \in effects
    BY <2>1 DEF PacketsAccounted
  <2> QED BY <2>1, <2>2, HostKeepsPackets
<1>6. ASSUME NEW c \in Conn, Receive(c) PROVE PacketsAccounted'
  <2>1. /\ inbox[c] \in Seq(Reply) /\ inbox[c] # <<>>
        /\ inbox' = [inbox EXCEPT ![c] = Tail(inbox[c])]
        /\ UNCHANGED <<requests, replies, effects>>
    BY <1>6, ReceiveFacts
  <2>2. \A i \in 1..Len(Tail(inbox[c])) :
            i + 1 \in 1..Len(inbox[c]) /\ Tail(inbox[c])[i] = inbox[c][i + 1]
    BY <2>1
  <2>3. \A i \in 1..Len(Tail(inbox[c])) : Tail(inbox[c])[i] \in effects
    BY <2>2 DEF PacketsAccounted
  <2>4. \A d \in Conn : inbox'[d] = IF d = c THEN Tail(inbox[c]) ELSE inbox[d]
    BY <2>1 DEF TypeOK
  <2>5. \A d \in Conn : \A i \in 1..Len(inbox'[d]) : inbox'[d][i] \in effects
    BY <2>3, <2>4 DEF PacketsAccounted
  <2> QED BY <2>1, <2>5, HostKeepsPackets
<1>7. ASSUME NEW c \in Conn, Close(c) PROVE PacketsAccounted'
  <2>1. /\ inbox' = [inbox EXCEPT ![c] = <<>>]
        /\ UNCHANGED <<requests, replies, effects>>
    BY <1>7 DEF Close
  <2>2. \A d \in Conn : inbox'[d] = IF d = c THEN <<>> ELSE inbox[d]
    BY <2>1 DEF TypeOK
  <2>3. \A d \in Conn : \A i \in 1..Len(inbox'[d]) : inbox'[d][i] \in effects
    BY <2>2 DEF PacketsAccounted
  <2> QED BY <2>1, <2>3, HostKeepsPackets
<1>8. ASSUME NEW p \in requests, Execute(p) PROVE PacketsAccounted'
  <2>1. PICK ok \in BOOLEAN :
            /\ effects' = effects \cup {[request |-> p, ok |-> ok]}
            /\ replies' \subseteq replies \cup {[request |-> p, ok |-> ok]}
    BY <1>8 DEF Execute
  <2> DEFINE r == [request |-> p, ok |-> ok]
  <2>2. requests' = requests \ {p} /\ UNCHANGED inbox
    BY <1>8 DEF Execute
  <2>3. r.request = p /\ p \in Request
    BY DEF TypeOK
  <2> HIDE DEF r
  <2>4. \A q \in requests' : WasSent(q)' /\ \A e \in effects' : e.request # q
    BY <2>1, <2>2, <2>3, StepWasSent, ElementTypes DEF PacketsAccounted, r
  <2>5. \A e \in effects' : WasSent(e.request)'
    BY <2>1, <2>3, StepWasSent, ElementTypes DEF PacketsAccounted, r
  <2>6. \A e, f \in effects' : e.request = f.request => e = f
    BY <2>1, <2>3 DEF PacketsAccounted, r
  <2>7. \A d \in Conn : \A i \in 1..Len(inbox'[d]) : inbox'[d][i] \in effects'
    BY <2>1, <2>2 DEF PacketsAccounted
  <2>8. replies' \subseteq effects'
    BY <2>1 DEF PacketsAccounted
  <2> QED BY <2>4, <2>5, <2>6, <2>7, <2>8 DEF PacketsAccounted
<1>9. ASSUME NEW r \in replies, Deliver(r) PROVE PacketsAccounted'
  <2>1. /\ replies' \subseteq replies /\ UNCHANGED <<requests, effects>>
        /\ r \in effects /\ r \in Reply
    BY <1>9 DEF Deliver, PacketsAccounted, TypeOK
  <2>2. \A d \in Conn : inbox'[d] = Append(inbox[d], r) \/ inbox'[d] = inbox[d]
    BY <1>9 DEF Deliver
  <2>3. ASSUME NEW d \in Conn, NEW i \in 1..Len(inbox'[d])
        PROVE  inbox'[d][i] \in effects
    <3>1. inbox[d] \in Seq(Reply)
      BY DEF TypeOK
    <3>2. CASE inbox'[d] = inbox[d]
      BY <2>3, <3>2 DEF PacketsAccounted
    <3>3. CASE inbox'[d] = Append(inbox[d], r)
      <4>1. \/ i \in 1..Len(inbox[d]) /\ inbox'[d][i] = inbox[d][i]
            \/ inbox'[d][i] = r
        BY <2>1, <2>3, <3>1, <3>3
      <4> QED BY <2>1, <4>1 DEF PacketsAccounted
    <3> QED BY <2>2, <3>2, <3>3
  <2> QED BY <2>1, <2>3, HostKeepsPackets
<1>10. CASE UNCHANGED vars
  <2>1. UNCHANGED <<inbox, requests, replies, effects>>
    BY <1>10 DEF vars
  <2>2. \A d \in Conn : \A i \in 1..Len(inbox'[d]) : inbox'[d][i] \in effects
    BY <2>1 DEF PacketsAccounted
  <2> QED BY <2>1, <2>2, HostKeepsPackets
<1> QED BY <1>3, <1>4, <1>5, <1>6, <1>7, <1>8, <1>9, <1>10 DEF Next

-----------------------------------------------------------------------------
(* Answers. *)

\* What is executed stays executed.
LEMMA EffectsGrow == [Next]_vars => effects \subseteq effects'
BY DEF Next, Open, Send, Retransmit, GiveUp, Receive, Close, Execute, Deliver,
       hostVars, vars

\* A reply that matches answers the command that is awaited.
LEMMA MatchIsOwn ==
    ASSUME TypeOK, Counts, NEW c \in Conn, phase[c] = "waiting",
           NEW r \in Reply, Matches(c, r)
    PROVE  r.request.conn = c /\ r.request.number = number[c]
<1>1. number[c] \in Number
  BY DEF TypeOK, Counts, Number
<1>2. r.request.conn \in Conn /\ r.request.number \in Number
  BY DEF Reply, Request
<1> QED BY <1>1, <1>2, DistinctIds DEF Matches

\* Every step keeps the answers the own ones.
LEMMA StepAnswers ==
    ASSUME TypeOK, Counts, PacketsAccounted, AnswerIsOwn, [Next]_vars
    PROVE  AnswerIsOwn'
<1>1. effects \subseteq effects'
  BY EffectsGrow
<1>2. CASE UNCHANGED <<answer, number>>
  BY <1>1, <1>2 DEF AnswerIsOwn
<1>3. ASSUME NEW c \in Conn, Send(c) PROVE AnswerIsOwn'
  <2>1. /\ number' = [number EXCEPT ![c] = number[c] + 1]
        /\ answer' = [answer EXCEPT ![c] = {}]
    BY <1>3, SendFacts
  <2> QED BY <1>1, <2>1 DEF AnswerIsOwn, TypeOK
<1>4. ASSUME NEW c \in Conn, Receive(c) PROVE AnswerIsOwn'
  <2> DEFINE r == Head(inbox[c])
  <2>1. /\ r \in Reply /\ r = inbox[c][1] /\ 1 \in 1..Len(inbox[c])
        /\ phase[c] = "waiting"
        /\ UNCHANGED number
        /\ \/ Matches(c, r) /\ answer' = [answer EXCEPT ![c] = {r}]
           \/ UNCHANGED answer
    BY <1>4, ReceiveFacts
  <2>2. r \in effects
    BY <2>1 DEF PacketsAccounted
  <2> HIDE DEF r
  <2>3. CASE UNCHANGED answer
    BY <1>2, <2>1, <2>3
  <2>4. CASE Matches(c, r) /\ answer' = [answer EXCEPT ![c] = {r}]
    <3>1. r.request.conn = c /\ r.request.number = number[c]
      BY <2>1, <2>4, MatchIsOwn
    <3> QED BY <1>1, <2>1, <2>2, <2>4, <3>1 DEF AnswerIsOwn, TypeOK
  <2> QED BY <2>1, <2>3, <2>4
<1>5. ASSUME NEW c \in Conn, Open(c) \/ Retransmit(c) \/ GiveUp(c) \/ Close(c)
      PROVE  UNCHANGED <<answer, number>>
  BY <1>5 DEF Open, Retransmit, GiveUp, Close
<1>6. ASSUME NEW p \in requests, Execute(p) PROVE UNCHANGED <<answer, number>>
  BY <1>6 DEF Execute, hostVars
<1>7. ASSUME NEW r \in replies, Deliver(r) PROVE UNCHANGED <<answer, number>>
  BY <1>7 DEF Deliver, hostVars
<1>8. CASE UNCHANGED vars
  BY <1>2, <1>8 DEF vars
<1> QED BY <1>2, <1>3, <1>4, <1>5, <1>6, <1>7, <1>8 DEF Next

-----------------------------------------------------------------------------
(* No gap. *)

\* What a device has executed, earlier commands included, it has executed for
\* good.
LEMMA DoneStable ==
    ASSUME [Next]_vars, NEW c, NEW n
    PROVE  /\ Done(c, n) => Done(c, n)'
           /\ EarlierDone(c, n) => EarlierDone(c, n)'
BY EffectsGrow, KindStable DEF Done, EarlierDone

\* Progress for one connection, and for one packet.
Consistent(c) ==
    ~failed[c] =>
        EarlierDone(c, IF phase[c] = "waiting" THEN number[c] ELSE number[c] + 1)
Pending(p) ==
    KindOf(p) = "command" =>
        /\ EarlierDone(p.conn, p.number)
        /\ \/ phase[p.conn] = "waiting" /\ number[p.conn] = p.number
           \/ failed[p.conn]

LEMMA ProgressParts ==
    /\ Progress <=> /\ \A c \in Conn : Consistent(c)
                    /\ \A p \in requests : Pending(p)
    /\ Progress' <=> /\ \A c \in Conn : Consistent(c)'
                     /\ \A p \in requests' : Pending(p)'
BY DEF Progress, Consistent, Pending

\* A connection and a packet whose thread does nothing.
LEMMA OthersProgress ==
    ASSUME [Next]_vars, NEW c, UNCHANGED <<phase[c], number[c], failed[c]>>
    PROVE  /\ Consistent(c) => Consistent(c)'
           /\ \A p : p.conn = c /\ Pending(p) => Pending(p)'
<1>1. ASSUME Consistent(c) PROVE Consistent(c)'
  <2>1. PICK n : n = IF phase[c] = "waiting" THEN number[c] ELSE number[c] + 1
    OBVIOUS
  <2>2. n = (IF phase[c] = "waiting" THEN number[c] ELSE number[c] + 1)'
    BY <2>1
  <2>3. ~failed'[c] => EarlierDone(c, n)'
    BY <1>1, <2>1, DoneStable DEF Consistent
  <2> QED BY <2>2, <2>3 DEF Consistent
<1>2. ASSUME NEW p, p.conn = c, Pending(p) PROVE Pending(p)'
  <2>1. EarlierDone(p.conn, p.number) => EarlierDone(p.conn, p.number)'
    BY DoneStable
  <2>2. KindOf(p)' = KindOf(p)
    BY KindStable DEF KindOf
  <2> QED BY <1>2, <2>1, <2>2 DEF Pending
<1> QED BY <1>1, <1>2

\* One more command, which was executed or is of another kind.
LEMMA OneMoreDone ==
    ASSUME NEW c, NEW n \in Nat, EarlierDone(c, n),
           program[c][n] = "command" => Done(c, n)
    PROVE  EarlierDone(c, n + 1)
<1>1. \A m \in 1..((n + 1) - 1) : m \in 1..(n - 1) \/ m = n
  OBVIOUS
<1> QED BY <1>1 DEF EarlierDone

\* A call that returns keeps the progress, when SUCCESS means executed and
\* nothing on the way.
LEMMA FinishProgress ==
    ASSUME TypeOK, Counts, Progress, [Next]_vars,
           NEW c \in Conn, NEW st \in {"SUCCESS", "FAILURE", "TIMEOUT"},
           phase[c] = "waiting", Finish(c, st),
           UNCHANGED <<program, number, requests, effects>>,
           st = "SUCCESS" /\ program[c][number[c]] = "command" =>
                /\ Done(c, number[c])
                /\ \A p \in requests : ~(p.conn = c /\ p.number = number[c])
    PROVE  Progress'
<1>1. /\ phase'[c] = "ready"
      /\ failed'[c] = (failed[c] \/ (program[c][number[c]] = "command" /\ st # "SUCCESS"))
      /\ \A d \in Conn \ {c} : UNCHANGED <<phase[d], failed[d], number[d]>>
  BY DEF TypeOK, Finish
<1>2. number[c] \in Nat
  BY DEF TypeOK
<1>3. Consistent(c)'
  <2> SUFFICES ASSUME ~failed'[c] PROVE EarlierDone(c, number[c] + 1)'
    BY <1>1 DEF Consistent
  <2>1. ~failed[c] /\ (program[c][number[c]] = "command" => st = "SUCCESS")
    BY <1>1
  <2>2. EarlierDone(c, number[c])
    BY <2>1 DEF Progress
  <2>3. EarlierDone(c, number[c] + 1)
    BY <1>2, <2>1, <2>2, OneMoreDone
  <2>4. PICK n : n = number[c] + 1
    OBVIOUS
  <2>5. EarlierDone(c, n)'
    BY <2>3, <2>4, DoneStable
  <2> QED BY <2>4, <2>5
<1>4. ASSUME NEW d \in Conn \ {c} PROVE Consistent(d)'
  <2>1. Consistent(d)
    BY ProgressParts
  <2> QED BY <1>1, <2>1, OthersProgress
<1>5. ASSUME NEW p \in requests PROVE Pending(p)'
  <2>0. Pending(p) /\ p.conn \in Conn
    BY ProgressParts, ElementTypes
  <2>1. CASE p.conn # c
    BY <1>1, <2>0, <2>1, OthersProgress
  <2>2. CASE p.conn = c
    <3> SUFFICES ASSUME KindOf(p)' = "command"
                 PROVE  EarlierDone(p.conn, p.number)' /\ failed'[c]
      BY <2>2 DEF Pending
    <3>1. KindOf(p) = "command"
      BY DEF KindOf
    <3>2. EarlierDone(p.conn, p.number)'
      BY <2>0, <3>1, DoneStable DEF Pending
    <3>3. number[c] = p.number \/ failed[c]
      BY <2>0, <2>2, <3>1 DEF Pending
    <3>4. failed'[c]
      BY <1>1, <2>2, <3>1, <3>3 DEF KindOf
    <3> QED BY <3>2, <3>4
  <2> QED BY <2>1, <2>2
<1> QED BY <1>3, <1>4, <1>5, ProgressParts

\* Steps of the devices and the network, and steps of a thread that leave its
\* progress alone, with no new command on the way.
LEMMA IdleProgress ==
    ASSUME TypeOK, Progress, [Next]_vars,
           UNCHANGED <<number, failed>>,
           \A c \in Conn : phase'[c] = "waiting" <=> phase[c] = "waiting",
           \A p \in requests' : p \in requests \/ KindOf(p) # "command"
    PROVE  Progress'
<1>1. ASSUME NEW c \in Conn PROVE Consistent(c)'
  <2>1. Consistent(c)
    BY ProgressParts
  <2>2. PICK n : n = IF phase[c] = "waiting" THEN number[c] ELSE number[c] + 1
    OBVIOUS
  <2>3. n = (IF phase[c] = "waiting" THEN number[c] ELSE number[c] + 1)'
    BY <2>2
  <2>4. ~failed'[c] => EarlierDone(c, n)'
    BY <2>1, <2>2, DoneStable DEF Consistent
  <2> QED BY <2>3, <2>4 DEF Consistent
<1>2. ASSUME NEW p \in requests' PROVE Pending(p)'
  <2>1. KindOf(p)' = KindOf(p)
    BY KindStable DEF KindOf
  <2>2. CASE p \in requests
    <3>1. Pending(p) /\ p.conn \in Conn
      BY <2>2, ProgressParts, ElementTypes
    <3>2. EarlierDone(p.conn, p.number) => EarlierDone(p.conn, p.number)'
      BY DoneStable
    <3> QED BY <2>1, <3>1, <3>2 DEF Pending
  <2>3. CASE KindOf(p) # "command"
    BY <2>1, <2>3 DEF Pending
  <2> QED BY <2>2, <2>3
<1> QED BY <1>1, <1>2, ProgressParts

\* Sending the next command keeps the progress.
LEMMA SendProgress ==
    ASSUME TypeOK, Counts, Progress, [Next]_vars, NEW c \in Conn, Send(c)
    PROVE  Progress'
<1>1. PICK n : n = number[c] + 1
  OBVIOUS
<1>2. PICK k : k = program[c][n]
  OBVIOUS
<1>3. PICK q : q = Sent(c, n, 1)
  OBVIOUS
<1>4. /\ n \in Number
      /\ phase[c] = "ready"
      /\ k = "command" => ~failed[c]
      /\ number' = [number EXCEPT ![c] = n]
      /\ requests' = requests \cup {q}
      /\ \/ k = "oneWay" /\ phase' = phase
         \/ k # "oneWay" /\ phase' = [phase EXCEPT ![c] = "waiting"]
      /\ UNCHANGED <<program, failed, effects>>
  BY <1>1, <1>2, <1>3, SendFacts
<1>5. q.conn = c /\ q.number = n /\ KindOf(q) = k
  BY <1>2, <1>3, <1>4, SentType DEF KindOf
<1>6. /\ number'[c] = n
      /\ phase'[c] = IF k = "oneWay" THEN "ready" ELSE "waiting"
      /\ \A d \in Conn \ {c} : UNCHANGED <<phase[d], failed[d], number[d]>>
  BY <1>4 DEF TypeOK
<1>7. ~failed[c] => EarlierDone(c, n)
  BY <1>1, <1>4 DEF Progress
<1>8. Consistent(c)'
  <2> SUFFICES ASSUME ~failed'[c]
               PROVE  EarlierDone(c, IF k = "oneWay" THEN n + 1 ELSE n)'
    BY <1>6 DEF Consistent
  <2>1. EarlierDone(c, n)
    BY <1>4, <1>7
  <2>2. CASE k = "oneWay"
    <3>1. n \in Nat /\ program[c][n] # "command"
      BY <1>2, <1>4, <2>2 DEF Number
    <3>2. EarlierDone(c, n + 1)
      BY <2>1, <3>1, OneMoreDone
    <3> QED BY <2>2, <3>2, DoneStable
  <2>3. CASE k # "oneWay"
    BY <2>1, <2>3, DoneStable
  <2> QED BY <2>2, <2>3
<1>9. ASSUME NEW d \in Conn \ {c} PROVE Consistent(d)'
  <2>1. Consistent(d)
    BY ProgressParts
  <2> QED BY <1>6, <2>1, OthersProgress
<1>10. ASSUME NEW p \in requests PROVE Pending(p)'
  <2>0. Pending(p) /\ p.conn \in Conn
    BY ProgressParts, ElementTypes
  <2>1. CASE p.conn # c
    BY <1>6, <2>0, <2>1, OthersProgress
  <2>2. CASE p.conn = c
    <3>1. KindOf(p)' = KindOf(p)
      BY KindStable DEF KindOf
    <3>2. KindOf(p) = "command" => EarlierDone(p.conn, p.number)' /\ failed'[c]
      BY <1>4, <2>0, <2>2, DoneStable DEF Pending
    <3> QED BY <2>2, <3>1, <3>2 DEF Pending
  <2> QED BY <2>1, <2>2
<1>11. Pending(q)'
  <2> SUFFICES ASSUME KindOf(q)' = "command"
               PROVE  EarlierDone(c, n)' /\ phase'[c] = "waiting" /\ number'[c] = n
    BY <1>5 DEF Pending
  <2>1. k = "command"
    BY <1>5, KindStable DEF KindOf
  <2> QED BY <1>4, <1>6, <1>7, <2>1, DoneStable
<1> QED BY <1>4, <1>8, <1>9, <1>10, <1>11, ProgressParts

\* Every step keeps the progress and leaves no gap.
LEMMA StepProgress ==
    ASSUME TypeOK, Counts, PacketsAccounted, NoGap, Progress, [Next]_vars
    PROVE  NoGap' /\ Progress'
<1>1. UNCHANGED program
  BY KindStable
<1>2. CASE UNCHANGED effects
  <2>1. NoGap'
    <3> SUFFICES ASSUME NEW e \in effects, KindOf(e.request) = "command"
                 PROVE  EarlierDone(e.request.conn, e.request.number)'
      BY <1>1, <1>2 DEF NoGap, KindOf
    <3>1. EarlierDone(e.request.conn, e.request.number)
      BY DEF NoGap
    <3> QED BY <3>1, DoneStable
  <2>2. ASSUME NEW c \in Conn, Open(c) \/ Close(c) PROVE Progress'
    <3>1. /\ UNCHANGED <<number, failed, requests>>
          /\ \A d \in Conn : phase'[d] = "waiting" <=> phase[d] = "waiting"
      BY <2>2 DEF Open, Close, TypeOK
    <3> QED BY <3>1, IdleProgress
  <2>3. ASSUME NEW c \in Conn, Retransmit(c) PROVE Progress'
    <3>1. PICK q : q = Sent(c, number[c], Tries(program[c][number[c]]) - left[c] + 1)
      OBVIOUS
    <3>2. /\ UNCHANGED <<number, failed, phase>>
          /\ requests' = requests \cup {q}
          /\ q.conn = c /\ q.number = number[c]
          /\ program[c][number[c]] = "query"
      BY <2>3, <3>1, RetransmitFacts, SentType
    <3>3. KindOf(q) # "command"
      BY <3>2 DEF KindOf
    <3> QED BY <3>2, <3>3, IdleProgress
  <2>4. ASSUME NEW c \in Conn, GiveUp(c) PROVE Progress'
    BY <2>4, FinishProgress DEF GiveUp
  <2>5. ASSUME NEW c \in Conn, Receive(c) PROVE Progress'
    <3>1. PICK r : r = Head(inbox[c])
      OBVIOUS
    <3>2. /\ r \in Reply /\ r = inbox[c][1] /\ 1 \in 1..Len(inbox[c])
          /\ phase[c] = "waiting"
          /\ \/ /\ Matches(c, r)
                /\ \E st \in {"SUCCESS", "FAILURE"} :
                       Finish(c, st) /\ (st = "SUCCESS" <=> r.ok)
             \/ UNCHANGED <<phase, failed>>
          /\ UNCHANGED <<program, number, requests, effects>>
      BY <2>5, <3>1, ReceiveFacts
    <3>3. CASE UNCHANGED <<phase, failed>>
      BY <3>2, <3>3, IdleProgress
    <3>4. ASSUME Matches(c, r), NEW st \in {"SUCCESS", "FAILURE"},
                 Finish(c, st), st = "SUCCESS" <=> r.ok
          PROVE  Progress'
      <4>1. r.request.conn = c /\ r.request.number = number[c]
        BY <3>2, <3>4, MatchIsOwn
      <4>2. r \in effects
        BY <3>2 DEF PacketsAccounted
      <4>3. ASSUME st = "SUCCESS", program[c][number[c]] = "command"
            PROVE  /\ Done(c, number[c])
                   /\ \A p \in requests : ~(p.conn = c /\ p.number = number[c])
        <5>1. Done(c, number[c])
          BY <3>4, <4>1, <4>2, <4>3 DEF Done
        <5>2. ASSUME NEW p \in requests, p.conn = c, p.number = number[c]
              PROVE  FALSE
          <6>1. p \in Request /\ r.request \in Request
            BY <4>2, ElementTypes
          <6>2. p.try = 1 /\ r.request.try = 1
            BY <4>1, <4>2, <4>3, <5>2 DEF PacketsAccounted, WasSent, KindOf
          <6>3. p = r.request
            BY <4>1, <5>2, <6>1, <6>2 DEF Request
          <6> QED BY <4>2, <6>3 DEF PacketsAccounted
        <5> QED BY <5>1, <5>2
      <4> QED BY <3>2, <3>4, <4>3, FinishProgress
    <3> QED BY <3>2, <3>3, <3>4
  <2>6. ASSUME NEW c \in Conn, Send(c) PROVE Progress'
    BY <2>6, SendProgress
  <2>7. ASSUME NEW r \in replies, Deliver(r) PROVE Progress'
    BY <2>7, IdleProgress DEF Deliver, hostVars
  <2>8. ASSUME NEW p \in requests, Execute(p) PROVE Progress'
    BY <2>8, IdleProgress DEF Execute, hostVars
  <2>9. ASSUME UNCHANGED vars PROVE Progress'
    BY <2>9, IdleProgress DEF vars
  <2>10. Progress'
    BY <2>2, <2>3, <2>4, <2>5, <2>6, <2>7, <2>8, <2>9 DEF Next
  <2> QED BY <2>1, <2>10
<1>3. ASSUME NEW p \in requests, Execute(p) PROVE NoGap' /\ Progress'
  <2>1. PICK ok \in BOOLEAN : effects' = effects \cup {[request |-> p, ok |-> ok]}
    BY <1>3 DEF Execute
  <2>2. KindOf(p) = "command" => EarlierDone(p.conn, p.number)
    BY DEF Progress
  <2>3. NoGap'
    <3> SUFFICES ASSUME NEW e \in effects', KindOf(e.request) = "command"
                 PROVE  EarlierDone(e.request.conn, e.request.number)'
      BY <1>1 DEF NoGap, KindOf
    <3>1. EarlierDone(e.request.conn, e.request.number)
      BY <2>1, <2>2 DEF NoGap
    <3> QED BY <3>1, DoneStable
  <2>4. Progress'
    BY <1>3, IdleProgress DEF Execute, hostVars
  <2> QED BY <2>3, <2>4
<1>4. UNCHANGED effects \/ \E p \in requests : Execute(p)
  BY DEF Next, Open, Send, Retransmit, GiveUp, Receive, Close, Deliver,
         hostVars, vars
<1>5. CASE \E p \in requests : Execute(p)
  BY <1>3, <1>5
<1> QED BY <1>2, <1>4, <1>5

-----------------------------------------------------------------------------
(* The theorems. *)

\* The inductive invariant holds in every reachable state.
THEOREM InvariantHolds == Spec => []IInv
<1>1. Init => IInv
  <2> SUFFICES ASSUME Init PROVE IInv
    OBVIOUS
  <2>1. TypeOK /\ Counts
    BY InitTypes
  <2>2. PacketsAccounted /\ AnswerIsOwn /\ NoGap
    BY DEF Init, PacketsAccounted, AnswerIsOwn, NoGap
  <2>3. Progress
    BY DEF Init, Progress, EarlierDone
  <2> QED BY <2>1, <2>2, <2>3 DEF IInv
<1>2. IInv /\ [Next]_vars => IInv'
  BY StepTypes, StepPackets, StepAnswers, StepProgress DEF IInv
<1> QED BY <1>1, <1>2, PTL DEF Spec

\* The reply that Pkt_Send_Receive accepts is its device's reply to this
\* command, for any traffic of other threads and of earlier connections.
THEOREM AnswersAreOwn == Spec => []AnswerIsOwn
<1>1. IInv => AnswerIsOwn
  BY DEF IInv
<1> QED BY <1>1, InvariantHolds, PTL

\* Data written by successive commands has no hole.
THEOREM ProgrammedWithoutGap == Spec => []NoGap
<1>1. IInv => NoGap
  BY DEF IInv
<1> QED BY <1>1, InvariantHolds, PTL

\* A command that is not retransmitted is executed at most once.
THEOREM AtMostOnce == Spec => []ExecutedOnce
<1>1. IInv => ExecutedOnce
  <2> SUFFICES ASSUME IInv, NEW e \in effects, NEW f \in effects,
                      KindOf(e.request) = "command",
                      SameCommand(e.request, f.request)
               PROVE  e = f
    BY DEF ExecutedOnce
  <2>1. e.request \in Request /\ f.request \in Request
    BY ElementTypes DEF IInv
  <2>2. e.request.try = 1 /\ f.request.try = 1
    BY DEF IInv, PacketsAccounted, WasSent, KindOf, SameCommand
  <2>3. e.request = f.request
    BY <2>1, <2>2 DEF Request, SameCommand
  <2> QED BY <2>3 DEF IInv, PacketsAccounted
<1> QED BY <1>1, InvariantHolds, PTL

\* After SUCCESS or FAILURE a command has no effect any more.
THEOREM NoLateEffect == Spec => NoEffectAfterAnswer
<1> DEFINE Awaited == \A e \in effects' \ effects :
                LET c == e.request.conn
                IN  KindOf(e.request) = "command" =>
                        \/ phase[c] = "waiting" /\ number[c] = e.request.number
                        \/ failed[c]
<1>1. IInv /\ [Next]_vars => [Awaited]_vars
  <2> SUFFICES ASSUME IInv, [Next]_vars PROVE Awaited
    OBVIOUS
  <2>1. UNCHANGED effects \/ \E p \in requests : Execute(p)
    BY DEF Next, Open, Send, Retransmit, GiveUp, Receive, Close, Deliver,
           hostVars, vars
  <2>2. CASE UNCHANGED effects
    BY <2>2
  <2>3. ASSUME NEW p \in requests, Execute(p) PROVE Awaited
    <3>1. PICK ok \in BOOLEAN : effects' = effects \cup {[request |-> p, ok |-> ok]}
      BY <2>3 DEF Execute
    <3>2. KindOf(p) = "command" =>
            \/ phase[p.conn] = "waiting" /\ number[p.conn] = p.number
            \/ failed[p.conn]
      BY DEF IInv, Progress
    <3> QED BY <3>1, <3>2
  <2> QED BY <2>1, <2>2, <2>3
<1> QED BY <1>1, InvariantHolds, PTL DEF Spec, NoEffectAfterAnswer

=============================================================================
