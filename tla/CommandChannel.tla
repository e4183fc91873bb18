--------------------------- MODULE CommandChannel ---------------------------
(***************************************************************************)
(* What a caller of Pkt_Send_Receive relies on, without packets, ids, re-  *)
(* transmissions or sockets: a command is executed at most once, as long   *)
(* as its caller waits for it or after it gave up; the status returned is  *)
(* the outcome of an execution of this very command; and of a program of   *)
(* commands that each need the one before, none is given after a failure.  *)
(***************************************************************************)
EXTENDS Integers

CONSTANTS
    Conn,           \* the connections, each with one caller
    MaxCommands     \* how many commands a caller has

Kind == {"query", "command", "oneWay"}
Number == 1..MaxCommands

VARIABLES
    program,        \* program[c][n]: the kind of the n-th command
    number,         \* number[c]: the commands given so far
    status,         \* status[c]: "waiting", or what the last command returned
    failed,         \* failed[c]: a "command" has not returned SUCCESS
    done            \* <<c, n, ok>>: an execution of the n-th command of c

vars == <<program, number, status, failed, done>>

Init ==
    /\ program \in [Conn -> [Number -> Kind]]
    /\ number = [c \in Conn |-> 0]
    /\ status = [c \in Conn |-> "none"]
    /\ failed = [c \in Conn |-> FALSE]
    /\ done = {}

Executed(c, n) == \E ok \in BOOLEAN : <<c, n, ok>> \in done

\* The caller gives its next command.  A reset is not waited for.
Give(c) ==
    LET n == number[c] + 1
        k == program[c][n]
    IN  /\ status[c] # "waiting"
        /\ n \in Number
        /\ k = "command" => ~failed[c]
        /\ number' = [number EXCEPT ![c] = n]
        /\ status' = [status EXCEPT ![c] =
                            IF k = "oneWay" THEN "SUCCESS" ELSE "waiting"]
        /\ UNCHANGED <<program, failed, done>>

\* The device executes a command it was given: a query as often as it likes,
\* any other once, and one that is waited for not after its caller got an answer.
Execute(c, n) ==
    /\ n \in 1..number[c]
    /\ program[c][n] # "query" => ~Executed(c, n)
    /\ program[c][n] = "command" =>
            (status[c] = "waiting" /\ number[c] = n) \/ failed[c]
    /\ \E ok \in BOOLEAN : done' = done \cup {<<c, n, ok>>}
    /\ UNCHANGED <<program, number, status, failed>>

\* The command returns st: the outcome of an execution, or TIMEOUT.
Return(c, st) ==
    LET n == number[c]
    IN  /\ status[c] = "waiting"
        /\ st = "SUCCESS" => <<c, n, TRUE>> \in done
        /\ st = "FAILURE" => <<c, n, FALSE>> \in done
        /\ status' = [status EXCEPT ![c] = st]
        /\ failed' = [failed EXCEPT ![c] =
                @ \/ (program[c][n] = "command" /\ st # "SUCCESS")]
        /\ UNCHANGED <<program, number, done>>

Next ==
    \E c \in Conn :
        \/ Give(c)
        \/ \E n \in Number : Execute(c, n)
        \/ \E st \in {"SUCCESS", "FAILURE", "TIMEOUT"} : Return(c, st)

Spec == Init /\ [][Next]_vars

-----------------------------------------------------------------------------

\* Every variable holds values of its kind.
TypeOK ==
    /\ program \in [Conn -> [Number -> Kind]]
    /\ number \in [Conn -> 0..MaxCommands]
    /\ status \in [Conn -> {"none", "waiting", "SUCCESS", "FAILURE", "TIMEOUT"}]
    /\ failed \in [Conn -> BOOLEAN]
    /\ done \subseteq Conn \X Number \X BOOLEAN

\* What a caller that writes data in pieces gets from such a channel: a piece
\* is written only after every earlier one was, and never twice.
InOrder ==
    \A c \in Conn, n \in Number :
        program[c][n] = "command" /\ Executed(c, n) =>
            /\ ~(<<c, n, TRUE>> \in done /\ <<c, n, FALSE>> \in done)
            /\ \A m \in 1..(n - 1) :
                    program[c][m] = "command" => <<c, m, TRUE>> \in done

=============================================================================
