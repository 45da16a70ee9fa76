------------------------------- MODULE Console -------------------------------
(***************************************************************************)
(* The process a Raft server of examples/aaa runs in: the main thread      *)
(* constructs the server, serves commands from the standard input and ends *)
(* with it; a reader thread receives datagrams; a timer thread calls the   *)
(* server each second.  One lock guards the server.  What the server does  *)
(* in a call is in RaftUdpServer; here a call may send or not.             *)
(*                                                                         *)
(* Left out: other calls of the operating system that fail, and end the    *)
(* process with exit(1).                                                   *)
(***************************************************************************)
EXTENDS Naturals, Sequences, SequencesExt

CONSTANTS
    Scripts,        \* what may be on the standard input: commands, one per line
    Unended,        \* does the last line lack its end?
    MaxTicks,       \* bound: how often the timer calls the server
    MaxDatagrams    \* bound: how many datagrams arrive

\* A command the server has, one it does not have, one that cannot be parsed, one
\* with the wrong number of arguments or with an argument of the wrong form.
Command == {"append", "get", "undefined", "ill_formed", "wrong_arity", "bad_value"}

ASSUME ScriptsAssumption == Scripts \subseteq Seq(Command)
ASSUME BoundsAssumption == Unended \in BOOLEAN /\ MaxTicks \in Nat /\ MaxDatagrams \in Nat

Installed == {"reader", "timer"}
Thread == Installed \cup {"main"}

VARIABLES
    lock,       \* the thread that has the lock of the server, or "free"
    pc,         \* where each thread is
    whole,      \* is the object constructed, the derived class included?
    bound,      \* the flag of the reader
    arrived,    \* datagrams in the socket
    ticks,      \* what is left of the bound on the timer
    traffic,    \* what is left of the bound on datagrams
    script,     \* the commands on the standard input
    typed,      \* what is left of the standard input
    buf,        \* what stdin_reader has read and not processed
    eof,        \* has it seen the end?
    cmd,        \* the line that is processed
    served,     \* the commands processed so far
    cancelled   \* the threads that were cancelled

network == <<arrived, traffic>>
console == <<script, typed, buf, eof, cmd, served>>
vars == <<lock, pc, whole, bound, network, ticks, console, cancelled>>
-----------------------------------------------------------------------------
(***************************************************************************)
(* Texts: a command is read in two pieces, for the reads may cut it.       *)
(***************************************************************************)
newline == [command |-> "newline", piece |-> 0]
pieces(c) == <<[command |-> c, piece |-> 1], [command |-> c, piece |-> 2]>>
lines == FlattenSeq([k \in 1 .. Len(script) |-> pieces(script[k]) \o <<newline>>])
input == IF Unended THEN Front(lines) ELSE lines

ends_of_lines == {k \in 1 .. Len(buf) : buf[k] = newline}
first_end == CHOOSE k \in ends_of_lines : \A j \in ends_of_lines : k <= j

\* A line that is not the two pieces of one command is not one of its commands.
parse_command(line) ==
    LET shown == SelectSeq(line, LAMBDA p : p # newline)
    IN  IF \E c \in Command : shown = pieces(c) THEN shown[1].command ELSE "ill_formed"

parses(line) == parse_command(line) # "ill_formed"
throws(line) == parse_command(line) \in {"wrong_arity", "bad_value"}
-----------------------------------------------------------------------------
(***************************************************************************)
(* The constructor takes the lock.                                         *)
(***************************************************************************)
Init ==
    /\ lock = "main" /\ pc = [t \in Thread |-> IF t = "main" THEN "install_reader" ELSE "new"]
    /\ whole = FALSE /\ bound = FALSE
    /\ arrived = 0 /\ traffic = MaxDatagrams /\ ticks = MaxTicks
    /\ script \in Scripts /\ typed = input /\ buf = <<>> /\ eof = FALSE /\ cmd = <<>> /\ served = <<>>
    /\ cancelled = {}

goes(t, from, to) == pc[t] = from /\ pc' = [pc EXCEPT ![t] = to]
takes_lock(t) == lock = "free" /\ lock' = t
lets_go == lock' = "free"

install_reader ==
    /\ pc["main"] = "install_reader"
    /\ pc' = [pc EXCEPT !["main"] = "install_timer", !["reader"] = "bind_lock"]
    /\ UNCHANGED <<lock, whole, bound, network, ticks, console, cancelled>>

\* Fault: the constructor lets go of the lock.
install_timer_and_unlock ==
    /\ pc["main"] = "install_timer" /\ lets_go
    /\ pc' = [pc EXCEPT !["main"] = "derive", !["timer"] = "idle"]
    /\ UNCHANGED <<whole, bound, network, ticks, console, cancelled>>

install_timer ==
    /\ pc["main"] = "install_timer"
    /\ pc' = [pc EXCEPT !["main"] = "derive", !["timer"] = "idle"]
    /\ UNCHANGED <<lock, whole, bound, network, ticks, console, cancelled>>

\* The constructor of the class with the callbacks ends, and main lets go of the lock.
derive ==
    /\ goes("main", "derive", "lines") /\ whole' = TRUE /\ lets_go
    /\ UNCHANGED <<bound, network, ticks, console, cancelled>>
-----------------------------------------------------------------------------
(***************************************************************************)
(* The call of a thread: it takes the lock, calls the server, which may    *)
(* send, and lets go.  Sending binds the socket if need be.                *)
(***************************************************************************)

\* Fault: the reader binds without the lock.
acquire_unless_binding(t) ==
    \/ /\ goes(t, "bind_lock", "test")
       /\ UNCHANGED <<lock, whole, bound, network, ticks, console, cancelled>>
    \/ /\ goes(t, "call_lock", "call") /\ takes_lock(t)
       /\ UNCHANGED <<whole, bound, network, ticks, console, cancelled>>

acquire(t) ==
    /\ \/ goes(t, "bind_lock", "test")
       \/ goes(t, "call_lock", "call")
    /\ takes_lock(t)
    /\ UNCHANGED <<whole, bound, network, ticks, console, cancelled>>

call(t) ==
    /\ t \in Installed
    /\ goes(t, "call", "test") \/ goes(t, "call", "unlock")
    /\ UNCHANGED <<lock, whole, bound, network, ticks, console, cancelled>>

test(t) ==
    /\ goes(t, "test", IF bound THEN "unlock" ELSE "bind")
    /\ UNCHANGED <<lock, whole, bound, network, ticks, console, cancelled>>

\* To bind it again would fail, which ends the process.
bind_int(t) ==
    /\ pc[t] = "bind" /\ bound' = TRUE
    /\ pc' = IF bound THEN [u \in Thread |-> "exited"] ELSE [pc EXCEPT ![t] = "unlock"]
    /\ UNCHANGED <<lock, whole, network, ticks, console, cancelled>>

release(t) ==
    /\ goes(t, "unlock", IF t = "main" THEN "lines" ELSE "idle") /\ lets_go
    /\ UNCHANGED <<whole, bound, network, ticks, console, cancelled>>
-----------------------------------------------------------------------------
arrive ==
    /\ bound /\ traffic > 0
    /\ arrived' = arrived + 1 /\ traffic' = traffic - 1
    /\ UNCHANGED <<lock, pc, whole, bound, ticks, console, cancelled>>

\* A datagram that is no message is dropped.
receive ==
    /\ arrived > 0 /\ arrived' = arrived - 1
    /\ goes("reader", "idle", "call_lock") \/ goes("reader", "idle", "idle")
    /\ UNCHANGED <<lock, whole, bound, traffic, ticks, console, cancelled>>

sleep ==
    /\ ticks > 0 /\ ticks' = ticks - 1
    /\ goes("timer", "idle", "call_lock")
    /\ UNCHANGED <<lock, whole, bound, network, console, cancelled>>
-----------------------------------------------------------------------------
(***************************************************************************)
(* The console.                                                            *)
(***************************************************************************)

\* A read brings any part of what is there.
read_stdin ==
    /\ pc["main"] = "lines" /\ ends_of_lines = {} /\ ~eof
    /\ \E k \in 1 .. Len(typed) :
        buf' = buf \o SubSeq(typed, 1, k) /\ typed' = SubSeq(typed, k + 1, Len(typed))
    /\ UNCHANGED <<lock, pc, whole, bound, network, ticks, script, eof, cmd, served, cancelled>>

\* The end of the input ends the line that has been read.
read_end ==
    /\ ends_of_lines = {} /\ ~eof /\ typed = <<>>
    /\ eof' = TRUE /\ cmd' = buf
    /\ goes("main", "lines", IF buf = <<>> THEN "exit" ELSE "process")
    /\ UNCHANGED <<lock, whole, bound, network, ticks, script, typed, buf, served, cancelled>>

next_line ==
    /\ goes("main", "lines", "process") /\ ends_of_lines # {} /\ ~eof
    /\ cmd' = SubSeq(buf, 1, first_end) /\ buf' = SubSeq(buf, first_end + 1, Len(buf))
    /\ UNCHANGED <<lock, whole, bound, network, ticks, script, typed, eof, served, cancelled>>

last_line ==
    /\ goes("main", "lines", "exit") /\ eof
    /\ UNCHANGED <<lock, whole, bound, network, ticks, console, cancelled>>

\* What is not parsed is answered without the lock.
process ==
    /\ goes("main", "process", IF parses(cmd) THEN "call_lock" ELSE "lines")
    /\ served' = IF parses(cmd) THEN served ELSE Append(served, "ill_formed")
    /\ UNCHANGED <<lock, whole, bound, network, ticks, script, typed, buf, eof, cmd, cancelled>>

\* The handlers of exceptions do not let go of the lock.
execute ==
    /\ \/ throws(cmd) /\ goes("main", "call", "lines")
       \/ ~throws(cmd) /\ goes("main", "call", "unlock")
       \/ parse_command(cmd) = "append" /\ goes("main", "call", "test")
    /\ served' = Append(served, parse_command(cmd))
    /\ UNCHANGED <<lock, whole, bound, network, ticks, script, typed, buf, eof, cmd, cancelled>>
-----------------------------------------------------------------------------
(***************************************************************************)
(* The destructor.  A cancelled thread dies where it waits for the         *)
(* network, the clock or the terminal; a thread that waits for a mutex     *)
(* goes on waiting.                                                        *)
(***************************************************************************)

\* Fault: the destructor does without the lock.
exit_anyway ==
    /\ goes("main", "exit", "join_reader")
    /\ cancelled' = cancelled \cup {"reader"}
    /\ UNCHANGED <<lock, whole, bound, network, ticks, console>>

exit ==
    /\ goes("main", "exit", "join_reader") /\ takes_lock("main")
    /\ cancelled' = cancelled \cup {"reader"}
    /\ UNCHANGED <<whole, bound, network, ticks, console>>

join_reader ==
    /\ goes("main", "join_reader", "join_timer") /\ pc["reader"] = "dead"
    /\ cancelled' = cancelled \cup {"timer"}
    /\ UNCHANGED <<lock, whole, bound, network, ticks, console>>

join_timer ==
    /\ goes("main", "join_timer", "ended") /\ pc["timer"] = "dead" /\ lets_go
    /\ UNCHANGED <<whole, bound, network, ticks, console, cancelled>>

die(t) ==
    /\ t \in cancelled /\ goes(t, pc[t], "dead") /\ pc[t] \in {"idle", "call"}
    /\ UNCHANGED <<lock, whole, bound, network, ticks, console, cancelled>>
-----------------------------------------------------------------------------
steps(t) == acquire(t) \/ call(t) \/ test(t) \/ bind_int(t) \/ release(t) \/ die(t)

main ==
    \/ install_reader \/ install_timer \/ derive
    \/ read_stdin \/ read_end \/ next_line \/ last_line \/ process \/ execute
    \/ exit \/ join_reader \/ join_timer

\* When all has ended nothing is left to do.
Next == arrive \/ receive \/ sleep \/ main \/ \E t \in Thread : steps(t)

\* The operating system runs every thread.  The timer calls a bounded number of
\* times: a thread that waits for the lock gets it, as it would between two seconds.
Spec ==
    /\ Init /\ [][Next]_vars
    /\ WF_vars(receive) /\ WF_vars(sleep) /\ WF_vars(main)
    /\ \A t \in Thread : WF_vars(steps(t))
-----------------------------------------------------------------------------
\* The threads are started by the constructor of the base class.  None calls the
\* server before the derived class, which has the callbacks, is constructed.
CallsFindTheWholeObject == \A t \in Installed : pc[t] = "call" => whole

\* The destructor takes the lock so that no thread dies holding it.
NobodyDiesHoldingTheLock == \A t \in Thread : pc[t] = "dead" => lock # t

\* Every line that is typed is served.
CommandsAreServed == <>(served = script)
=============================================================================
