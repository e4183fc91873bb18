--------------------------- MODULE PacketHandling ---------------------------
(***************************************************************************)
(* Pkt_Send_Receive() of console/src/console_PacketHandling.c: a thread    *)
(* sends a command to a device over its own layer 2 connection (a raw      *)
(* socket) and waits for the reply with the transaction id of the command, *)
(* until a timeout; a query is then sent again, any other command is not   *)
(* (the Makefile defines CONSOLE_NO_LAYER2_RETRANSMISSION).                *)
(*                                                                         *)
(* All sockets are bound to one network card, and each gets every reply    *)
(* that arrives there.  The network delays and reorders packets and loses  *)
(* them (a lost packet is one that never arrives); it does not duplicate   *)
(* them.  The devices are not in the repository.                           *)
(***************************************************************************)
EXTENDS Integers, Sequences

CONSTANTS
    Device,         \* the devices of the network
    Conn,           \* the connections, each opened once
    Target,         \* m_MAC_Address: the device of each connection
    IdSpace,        \* how many values a TransId has (2^16)
    FirstId,        \* the random first m_transIdCounter of each connection
    QueryTries,     \* DEV_QUERY_TIMEOUT / DEV_SHORT_TIMEOUT (15)
    MaxCommands,    \* bound: commands sent over one connection
    Programs,       \* Programs[c]: the kinds of commands the caller of c may send
    InboxSize       \* bound: replies the buffer of a socket holds

\* "query": QueryDevice, sent again until it is answered; "command": any other
\* command whose reply is awaited; "oneWay": a reset, whose reply is not.
Kind == {"query", "command", "oneWay"}
Number == 1..MaxCommands

\* The TransId of the n-th command of connection c, a field of 16 bits.
TransId(c, n) == (FirstId[c] + n - 1) % IdSpace

ASSUME ConnAssumption == Target \in [Conn -> Device] /\ FirstId \in [Conn -> Nat]
ASSUME BoundAssumption == /\ {IdSpace, QueryTries, InboxSize} \subseteq Nat \ {0}
                          /\ MaxCommands \in Nat
ASSUME ProgramAssumption == Programs \in [Conn -> SUBSET [Number -> Kind]]

\* Connections to the same device do not use the same ids.  Within one this is
\* MaxCommands <= IdSpace; of two, rand() makes it likely.
ASSUME DistinctIds ==
    \A c1, c2 \in Conn : \A n1, n2 \in Number :
        Target[c1] = Target[c2] /\ TransId(c1, n1) = TransId(c2, n2)
            => c1 = c2 /\ n1 = n2

VARIABLES
    \* the threads
    phase,          \* "new", "ready", "waiting" (in Pkt_Send_Receive), "closed"
    program,        \* program[c][n]: the kind of the n-th command
    number,         \* commands sent so far: m_transIdCounter less its first value
    left,           \* LeftRetries
    result,         \* what the last Pkt_Send_Receive returned
    answer,         \* ReceivePacket when it was accepted: {} or one reply
    failed,         \* an earlier "command" did not return SUCCESS
    inbox,          \* the receive buffer of the socket
    \* the network and the devices
    requests,       \* packets on the way to the devices
    replies,        \* packets on the way to the host
    effects         \* what the devices have executed, with the outcome

hostVars == <<phase, program, number, left, result, answer, failed>>
vars == <<phase, program, number, left, result, answer, failed, inbox,
          requests, replies, effects>>

\* A packet: the try-th transmission of the n-th command of a connection.
Request == [conn : Conn, number : Number, try : Nat]
Reply == [request : Request, ok : BOOLEAN]
KindOf(p) == program[p.conn][p.number]

TypeOK ==
    /\ phase \in [Conn -> {"new", "ready", "waiting", "closed"}]
    /\ program \in [Conn -> [Number -> Kind]]
    /\ number \in [Conn -> 0..MaxCommands]
    /\ left \in [Conn -> Nat]
    /\ result \in [Conn -> {"none", "SUCCESS", "FAILURE", "TIMEOUT"}]
    /\ answer \in [Conn -> SUBSET Reply]
    /\ failed \in [Conn -> BOOLEAN]
    /\ inbox \in [Conn -> Seq(Reply)]
    /\ requests \subseteq Request
    /\ replies \subseteq Reply
    /\ effects \subseteq Reply

Init ==
    /\ phase = [c \in Conn |-> "new"]
    /\ program \in [Conn -> [Number -> Kind]]
    /\ \A c \in Conn : program[c] \in Programs[c]
    /\ number = [c \in Conn |-> 0]
    /\ left = [c \in Conn |-> 0]
    /\ result = [c \in Conn |-> "none"]
    /\ answer = [c \in Conn |-> {}]
    /\ failed = [c \in Conn |-> FALSE]
    /\ inbox = [c \in Conn |-> <<>>]
    /\ requests = {} /\ replies = {} /\ effects = {}

-----------------------------------------------------------------------------
(* A thread and its connection. *)

\* Mutant: without CONSOLE_NO_LAYER2_RETRANSMISSION.
AlwaysRetries(k) == QueryTries

\* How often a packet is sent at most: with the build's flag only the query
\* (xi_bMustUseRetransmission) is sent again.
Tries(k) == IF k = "query" THEN QueryTries ELSE 1

Open(c) ==
    /\ phase[c] = "new"
    /\ phase' = [phase EXCEPT ![c] = "ready"]
    /\ UNCHANGED <<program, number, left, result, answer, failed, inbox,
                   requests, replies, effects>>

Close(c) ==
    /\ phase[c] = "ready"
    /\ phase' = [phase EXCEPT ![c] = "closed"]
    /\ inbox' = [inbox EXCEPT ![c] = <<>>]
    /\ UNCHANGED <<program, number, left, result, answer, failed,
                   requests, replies, effects>>

\* TxPkt.  Its status is not used: a send that fails is a packet that is lost.
Transmit(c, n, k, remaining) ==
    requests' = requests \cup
        {[conn |-> c, number |-> n, try |-> Tries(k) - remaining]}

\* Mutant: a caller that ignores the status of a piece.
IgnoresFailure(c, k) == TRUE

\* The callers that program flash or memory in pieces go on to the next command
\* only after SUCCESS; a query or a reset may follow a failure.
MaySend(c, k) == k = "command" => ~failed[c]

\* Init_Ghn_Packet takes the next id; the first transmission; without a
\* ReceivePacket the function returns at once.
Send(c) ==
    LET n == number[c] + 1
        k == program[c][n]
    IN  /\ phase[c] = "ready"
        /\ n \in Number
        /\ MaySend(c, k)
        /\ number' = [number EXCEPT ![c] = n]
        /\ left' = [left EXCEPT ![c] = Tries(k) - 1]
        /\ Transmit(c, n, k, Tries(k) - 1)
        /\ answer' = [answer EXCEPT ![c] = {}]
        /\ IF k = "oneWay"
           THEN /\ result' = [result EXCEPT ![c] = "SUCCESS"]
                /\ phase' = phase
           ELSE /\ result' = [result EXCEPT ![c] = "none"]
                /\ phase' = [phase EXCEPT ![c] = "waiting"]
        /\ UNCHANGED <<program, failed, inbox, replies, effects>>

\* Mutant: LeftRetries is not decremented.
RetransmitForever(c) ==
    /\ phase[c] = "waiting"
    /\ left[c] > 0
    /\ Transmit(c, number[c], program[c][number[c]], left[c] - 1)
    /\ UNCHANGED <<phase, program, number, left, result, answer, failed, inbox,
                   replies, effects>>

\* Mutant: the loop runs once more (LeftRetries >= 0).
RetransmitOnceMore(c) ==
    /\ phase[c] = "waiting"
    /\ left' = [left EXCEPT ![c] = @ - 1]
    /\ Transmit(c, number[c], program[c][number[c]], left[c] - 1)
    /\ UNCHANGED <<phase, program, number, result, answer, failed, inbox,
                   replies, effects>>

\* A try is over without the reply and another is left: the same packet again.
Retransmit(c) ==
    /\ phase[c] = "waiting"
    /\ left[c] > 0
    /\ left' = [left EXCEPT ![c] = @ - 1]
    /\ Transmit(c, number[c], program[c][number[c]], left[c] - 1)
    /\ UNCHANGED <<phase, program, number, result, answer, failed, inbox,
                   replies, effects>>

\* Pkt_Send_Receive returns st.
Finish(c, st) ==
    /\ phase' = [phase EXCEPT ![c] = "ready"]
    /\ result' = [result EXCEPT ![c] = st]
    /\ failed' = [failed EXCEPT ![c] =
            @ \/ (program[c][number[c]] = "command" /\ st # "SUCCESS")]

GiveUp(c) ==
    /\ phase[c] = "waiting"
    /\ left[c] = 0
    /\ Finish(c, "TIMEOUT")
    /\ UNCHANGED <<program, number, left, answer, inbox,
                   requests, replies, effects>>

\* Mutant: the source MAC address is not compared.
MatchesAnyDevice(c, r) ==
    TransId(r.request.conn, r.request.number) = TransId(c, number[c])

\* The reply comes from the device asked and carries the id of the command.
Matches(c, r) ==
    /\ Target[r.request.conn] = Target[c]
    /\ TransId(r.request.conn, r.request.number) = TransId(c, number[c])

\* Mutant: the first packet received ends the wait, as in Pkt_Receive.
ReceiveOnce(c) ==
    /\ phase[c] = "waiting"
    /\ inbox[c] # <<>>
    /\ inbox' = [inbox EXCEPT ![c] = Tail(@)]
    /\ LET r == Head(inbox[c])
       IN  /\ answer' = [answer EXCEPT ![c] = {r}]
           /\ Finish(c, IF r.ok THEN "SUCCESS" ELSE "FAILURE")
    /\ UNCHANGED <<program, number, left, requests, replies, effects>>

\* RxPkt returns the next packet of the socket; one that does not match is
\* dropped and the wait goes on.
Receive(c) ==
    /\ phase[c] = "waiting"
    /\ inbox[c] # <<>>
    /\ inbox' = [inbox EXCEPT ![c] = Tail(@)]
    /\ LET r == Head(inbox[c])
       IN  IF Matches(c, r)
           THEN /\ answer' = [answer EXCEPT ![c] = {r}]
                /\ Finish(c, IF r.ok THEN "SUCCESS" ELSE "FAILURE")
           ELSE UNCHANGED <<answer, phase, result, failed>>
    /\ UNCHANGED <<program, number, left, requests, replies, effects>>

\* The steps of a call of Pkt_Send_Receive that waits.
WaitStep(c) == Retransmit(c) \/ GiveUp(c) \/ Receive(c)

-----------------------------------------------------------------------------
(* The network and the devices. *)

\* A device executes a request, successfully or not (ErrorCode), and answers;
\* after a reset it does not.  Each copy it gets it executes again.
Execute(p) ==
    /\ p \in requests
    /\ requests' = requests \ {p}
    /\ \E ok \in BOOLEAN :
        LET r == [request |-> p, ok |-> ok]
        IN  /\ effects' = effects \cup {r}
            /\ replies' = IF KindOf(p) = "oneWay" THEN replies
                                                  ELSE replies \cup {r}
    /\ UNCHANGED <<hostVars, inbox>>

\* A reply arrives: ETH_rx of every open socket will read it.  It compares only
\* the address of the host and the ether type: the connections are made with
\* the broadcast address for their device.  A full buffer drops it.
Deliver(r) ==
    /\ r \in replies
    /\ replies' = replies \ {r}
    /\ inbox' = [c \in Conn |->
            IF phase[c] \in {"ready", "waiting"} /\ Len(inbox[c]) < InboxSize
            THEN Append(inbox[c], r) ELSE inbox[c]]
    /\ UNCHANGED <<hostVars, requests, effects>>

-----------------------------------------------------------------------------

Next ==
    \/ \E c \in Conn : \/ Open(c) \/ Send(c) \/ Retransmit(c)
                       \/ GiveUp(c) \/ Receive(c) \/ Close(c)
    \/ \E p \in requests : Execute(p)
    \/ \E r \in replies : Deliver(r)

Spec == Init /\ [][Next]_vars

\* A thread that waits is scheduled and its clock goes on.
FairSpec == Spec /\ \A c \in Conn : WF_vars(WaitStep(c))

-----------------------------------------------------------------------------
(* Properties. *)

SameCommand(p, q) == p.conn = q.conn /\ p.number = q.number

\* The device of connection c has executed its n-th command successfully.
Done(c, n) ==
    \E e \in effects : e.request.conn = c /\ e.request.number = n /\ e.ok

\* So it has every earlier command that is not a query or a reset.
EarlierDone(c, n) ==
    \A m \in 1..(n - 1) : program[c][m] = "command" => Done(c, m)

\* Whatever else arrives at the network card (replies to other threads, to an
\* earlier connection, to an earlier try), the reply that ends the wait for a
\* command is one its device gave to this very command, and it did execute it.
AnswerIsOwn ==
    \A c \in Conn : \A r \in answer[c] :
        /\ r.request.conn = c
        /\ r.request.number = number[c]
        /\ r \in effects

\* A device executes a command that is not a query at most once.
ExecutedOnce ==
    \A e, f \in effects :
        KindOf(e.request) = "command" /\ SameCommand(e.request, f.request)
            => e = f

\* When a device has executed a command, it has successfully executed every
\* earlier command of the connection: data programmed in pieces has no hole,
\* although packets are lost, late and out of order.
NoGap ==
    \A e \in effects : KindOf(e.request) = "command" =>
        EarlierDone(e.request.conn, e.request.number)

\* A command takes effect while its caller waits for it, or after the caller
\* gave up: never when the caller was told SUCCESS or FAILURE.
NoEffectAfterAnswer ==
    [][\A e \in effects' \ effects :
        LET c == e.request.conn
        IN  KindOf(e.request) = "command" =>
                \/ phase[c] = "waiting" /\ number[c] = e.request.number
                \/ failed[c]]_vars

\* Every call of Pkt_Send_Receive returns.
CommandsEnd == \A c \in Conn : phase[c] = "waiting" ~> phase[c] # "waiting"

-----------------------------------------------------------------------------
(* The inductive invariant of the proofs, by parts. *)

\* LeftRetries counts the tries that are left of the last command.
Counts ==
    \A c \in Conn :
        /\ phase[c] = "waiting" => number[c] > 0
        /\ number[c] > 0 => left[c] < Tries(program[c][number[c]])

\* Transmission p has been made.
WasSent(p) ==
    /\ p.number <= number[p.conn]
    /\ p.number = number[p.conn] =>
            p.try <= Tries(program[p.conn][p.number]) - left[p.conn]
    /\ KindOf(p) # "query" => p.try = 1

\* Packets on the way were sent, and each is executed when it arrives; every
\* reply stands for one execution, wherever it is.
PacketsAccounted ==
    /\ \A p \in requests : WasSent(p) /\ \A e \in effects : e.request # p
    /\ \A e \in effects : WasSent(e.request)
    /\ \A e, f \in effects : e.request = f.request => e = f
    /\ replies \subseteq effects
    /\ \A c \in Conn : \A i \in 1..Len(inbox[c]) : inbox[c][i] \in effects

\* As long as no command has failed, those that returned were executed; a
\* command on the way is the one awaited, or its caller gave up.
Progress ==
    /\ \A c \in Conn : ~failed[c] =>
            EarlierDone(c, IF phase[c] = "waiting" THEN number[c] ELSE number[c] + 1)
    /\ \A p \in requests : KindOf(p) = "command" =>
            /\ EarlierDone(p.conn, p.number)
            /\ \/ phase[p.conn] = "waiting" /\ number[p.conn] = p.number
               \/ failed[p.conn]

IInv == TypeOK /\ Counts /\ PacketsAccounted /\ AnswerIsOwn /\ NoGap /\ Progress

-----------------------------------------------------------------------------
(* The abstract specification. *)

\* What the caller sees of a connection, and the devices of its commands.
Status == [c \in Conn |-> IF phase[c] = "waiting" THEN "waiting" ELSE result[c]]
Executions == {<<e.request.conn, e.request.number, e.ok>> : e \in effects}

Channel == INSTANCE CommandChannel WITH status <- Status, done <- Executions

\* However packets are lost, delayed and reordered, and although every thread
\* gets every reply that arrives at the network card, each connection is a
\* channel that executes a command at most once and returns its own outcome.
ImplementsCommandChannel == Channel!Spec

=============================================================================
