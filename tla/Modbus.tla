------------------------------- MODULE Modbus -------------------------------
(***************************************************************************)
(* A Modbus master and a Modbus slave of this stack (Template/ls2k/modbus) *)
(* at the two ends of a serial line, in RTU or in ASCII mode.  The master  *)
(* is an application that calls modbus_master_fcXX() again and again, the  *)
(* slave the loop of modbus_os_rx_task(); each has the interrupt of its    *)
(* silence timer, modbus_rtu_timer_update(), between any two steps.        *)
(*                                                                         *)
(* Time is not counted: the timer may tick and the master's RxTimeout may  *)
(* end whenever the code allows it.  A message is given by its length,     *)
(* which is one for the requests and regular answers of a mode, and a      *)
(* shorter one for a refusal: in ASCII that of MODBUS_ASCII_MIN_MSG_SIZE.  *)
(* The byte <<r, i>> is the i-th of request r or of its answer: the first  *)
(* stands for the address, the function and the byte count (and the ':' of *)
(* ASCII), the last for the check sum (and the LF of ASCII).  The line may *)
(* lose a byte, and a frame may be interrupted by a silence.               *)
(***************************************************************************)
EXTENDS Naturals, Sequences

CONSTANTS
    Served,     \* requests the slave performs and answers
    Kinds,      \* bound: the requests of the application
    FrameSize,  \* by mode: bytes of a request or of a regular answer
    RefusalSize,    \* by mode: bytes of an exception answer (5 and 11)
    MinSize,    \* by mode: MODBUS_RTU_MIN_MSG_SIZE and MODBUS_ASCII_MIN_MSG_SIZE
    BufSize,    \* MODBUS_CFG_BUF_SIZE
    Cnts,       \* RTU_TimeoutCnts
    MaxCalls,   \* bound: calls of the application
    MaxFaults   \* bound: lost bytes and silences inside a frame

Modes == {"RTU", "ASCII"}

\* bound: every frame fits into the buffers (an ASCII frame of more than 123 bytes of
\* data would not)
ASSUME ModbusAssumption ==
    /\ Kinds \subseteq Served \cup {"broadcast", "foreign", "illegal"}
    /\ Served \cap {"broadcast", "foreign", "illegal"} = {}
    /\ BufSize \in Nat
    /\ \A mode \in Modes : /\ MinSize[mode] \in Nat \ {0, 1}
                           /\ RefusalSize[mode] \in Nat /\ FrameSize[mode] \in Nat
                           /\ MinSize[mode] <= RefusalSize[mode]
                           /\ RefusalSize[mode] < FrameSize[mode]
                           /\ FrameSize[mode] <= BufSize
    /\ RefusalSize["ASCII"] = MinSize["ASCII"]
    /\ FrameSize["ASCII"] % 2 = 1
    /\ Cnts \in Nat \ {0, 1}
    /\ MaxCalls \in Nat
    /\ MaxFaults \in Nat

VARIABLES
    Mode,                       \* "RTU" or "ASCII", the same at both ends
    wire,                       \* the bytes on their way to each end
    uart,                       \* the bytes its UART driver holds
    RxBuf, RxBufByteCtr, RxBufPtr,
    RTU_TimeoutEn, RTU_TimeoutCtr,
    RxDoneFlag,
    sent,                       \* the requests of the application, in order
    mpc,                        \* where the application is in modbus_master_fcXX()
    rx_byte,                    \* the byte the master has read
    elapsed,                    \* RxTimeout has passed since start_time
    err,                        \* what the last call returned
    spc,                        \* where the slave's loop is
    performed,                  \* history: requests the slave has performed or refused, in order
    accepted, whole,            \* history: the answers decoded, and that all of the last was there
    fresh,                      \* history: a byte has been read in this wait
    clean,                      \* history: the call began on a quiet line and met no fault
    faults                      \* history: lost bytes and silences inside a frame

lineVars == <<wire, uart>>
bufVars == <<RxBuf, RxBufByteCtr, RxBufPtr>>
timerVars == <<RTU_TimeoutEn, RTU_TimeoutCtr>>
masterVars == <<sent, mpc, rx_byte, elapsed, err, accepted, whole, fresh>>
slaveVars == <<spc, performed>>
histVars == <<clean, faults>>
vars == <<Mode, lineVars, bufVars, timerVars, RxDoneFlag, masterVars, slaveVars, histVars>>

Ends == {"master", "slave"}
Bytes == (1..MaxCalls) \X (1..BufSize)
NoByte == <<0, 0>>
Message(r, size) == [i \in 1..size |-> <<r, i>>]

\* modbus_slave_set_response_error() answers with one byte of data
Size(n, r) == IF n = "master" /\ sent[r] = "illegal" THEN RefusalSize[Mode] ELSE FrameSize[Mode]

Request(r) == Message(r, FrameSize[Mode])
Answer(r) == Message(r, Size("master", r))

First(b) == b[2] = 1
Last(n, b) == b[2] = Size(n, b[1])

TypeOK ==
    /\ Mode \in Modes
    /\ wire \in [Ends -> Seq(Bytes)]
    /\ uart \in [Ends -> Seq(Bytes)]
    /\ RxBuf \in [Ends -> [0..(BufSize - 1) -> Bytes \cup {NoByte}]]
    /\ RxBufByteCtr \in [Ends -> 0..BufSize]
    /\ RxBufPtr \in [Ends -> 0..BufSize]
    /\ RTU_TimeoutEn \in [Ends -> BOOLEAN]
    /\ RTU_TimeoutCtr \in [Ends -> 0..Cnts]
    /\ RxDoneFlag \in [Ends -> {0, 1}]
    /\ sent \in Seq(Kinds) /\ Len(sent) <= MaxCalls
    /\ mpc \in {"idle", "flush", "wait", "test", "read", "store", "reply"}
    /\ rx_byte \in Bytes \cup {NoByte}
    /\ elapsed \in BOOLEAN
    /\ err \in {"NONE", "TIMED_OUT", "RX", "MISMATCH"}
    /\ spc \in {"read", "check", "clear"}
    /\ performed \in Seq(1..MaxCalls)
    /\ accepted \in Seq(1..MaxCalls)
    /\ whole \in BOOLEAN
    /\ fresh \in BOOLEAN
    /\ clean \in BOOLEAN
    /\ faults \in 0..MaxFaults

Init ==
    /\ Mode \in Modes
    /\ wire = [n \in Ends |-> <<>>]
    /\ uart = [n \in Ends |-> <<>>]
    /\ RxBuf = [n \in Ends |-> [i \in 0..(BufSize - 1) |-> NoByte]]
    /\ RxBufByteCtr = [n \in Ends |-> 0]
    /\ RxBufPtr = [n \in Ends |-> 0]
    /\ RTU_TimeoutEn = [n \in Ends |-> n = "slave"]
    /\ RTU_TimeoutCtr = [n \in Ends |-> Cnts]
    /\ RxDoneFlag = [n \in Ends |-> 0]
    /\ sent = <<>> /\ mpc = "idle" /\ rx_byte = NoByte /\ elapsed = FALSE /\ err = "NONE"
    /\ spc = "read"
    /\ performed = <<>> /\ accepted = <<>> /\ whole = TRUE /\ fresh = FALSE
    /\ clean = FALSE /\ faults = 0

-----------------------------------------------------------------------------
(***************************************************************************)
(* The channel: what modbus_rx_byte() and the frame decoders do.           *)
(***************************************************************************)
Received(n) == [i \in 1..RxBufByteCtr[n] |-> RxBuf[n][i - 1]]

EmptyBuf == [i \in 0..(BufSize - 1) |-> NoByte]

\* RxBufByteCtr = 0 and RxBufPtr = &RxBuf[0]; what lies beyond the counter is not read
ResetBuf(n) ==
    /\ RxBuf' = [RxBuf EXCEPT ![n] = EmptyBuf]
    /\ RxBufByteCtr' = [RxBufByteCtr EXCEPT ![n] = 0]
    /\ RxBufPtr' = [RxBufPtr EXCEPT ![n] = 0]

Store(n, b) ==
    IF RxBufByteCtr[n] < BufSize
    THEN /\ RxBuf' = [RxBuf EXCEPT ![n][RxBufPtr[n]] = b]
         /\ RxBufByteCtr' = [RxBufByteCtr EXCEPT ![n] = @ + 1]
         /\ RxBufPtr' = [RxBufPtr EXCEPT ![n] = @ + 1]
    ELSE UNCHANGED bufVars

\* modbus_ascii_rx_byte() up to the end of a frame: ':' starts a new one
StoreAscii(n, b) ==
    IF First(b) THEN /\ RxBuf' = [RxBuf EXCEPT ![n] = [EmptyBuf EXCEPT ![0] = b]]
                     /\ RxBufByteCtr' = [RxBufByteCtr EXCEPT ![n] = 1]
                     /\ RxBufPtr' = [RxBufPtr EXCEPT ![n] = 1]
                ELSE Store(n, b)

\* modbus_rtu_rx() and modbus_ascii_rx(): no check sum is computed here
Parsed(n, m) ==
    IF Mode = "RTU" THEN Len(m) >= MinSize["RTU"]
                    ELSE /\ Len(m) % 2 = 1 /\ Len(m) > MinSize["ASCII"]
                         /\ First(m[1]) /\ Last(n, m[Len(m)])

\* the check sum of a buffer is right for a whole frame and for no other
Sound(m) == Parsed("slave", m) /\ \E r \in 1..Len(sent) : m = Request(r)

\* modbus_slave_fcxx_handler() answers all but a broadcast and a frame for another slave
Performs(kind) == kind # "foreign"
Answers(kind) == kind \notin {"foreign", "broadcast"}

\* Mutant: does not leave the buffer empty when the frame was bad.
TaskKeepsBadFrame(m) ==
    IF Sound(m)
    THEN LET r == m[1][1] IN
           /\ performed' = IF Performs(sent[r]) THEN Append(performed, r) ELSE performed
           /\ wire' = IF Answers(sent[r]) THEN [wire EXCEPT !["master"] = @ \o Answer(r)]
                                          ELSE wire
           /\ ResetBuf("slave")
    ELSE /\ RxBuf' = [RxBuf EXCEPT !["slave"] = [i \in 0..(BufSize - 1) |->
                                                  IF i < Len(m) THEN m[i + 1] ELSE NoByte]]
         /\ RxBufByteCtr' = [RxBufByteCtr EXCEPT !["slave"] = Len(m)]
         /\ RxBufPtr' = [RxBufPtr EXCEPT !["slave"] = Len(m)]
         /\ UNCHANGED <<performed, wire>>

\* modbus_slave_rtu_task() or modbus_slave_ascii_task() on the received bytes m
SlaveTask(m) ==
    /\ IF Sound(m)
       THEN LET r == m[1][1] IN
              /\ performed' = IF Performs(sent[r]) THEN Append(performed, r) ELSE performed
              /\ wire' = IF Answers(sent[r]) THEN [wire EXCEPT !["master"] = @ \o Answer(r)]
                                             ELSE wire
       ELSE UNCHANGED <<performed, wire>>
    /\ ResetBuf("slave")

-----------------------------------------------------------------------------
(***************************************************************************)
(* The line.                                                               *)
(***************************************************************************)
Deliver(n) ==
    /\ wire[n] # <<>>
    /\ uart' = [uart EXCEPT ![n] = Append(@, Head(wire[n]))]
    /\ wire' = [wire EXCEPT ![n] = Tail(@)]
    /\ UNCHANGED <<Mode, bufVars, timerVars, RxDoneFlag, masterVars, slaveVars, histVars>>

Lose(n) ==
    /\ wire[n] # <<>>
    /\ faults < MaxFaults
    /\ faults' = faults + 1
    /\ clean' = FALSE
    /\ wire' = [wire EXCEPT ![n] = Tail(@)]
    /\ UNCHANGED <<Mode, uart, bufVars, timerVars, RxDoneFlag, masterVars, slaveVars>>

\* the rest of a frame is still to come
InFrame(n) == LET rest == uart[n] \o wire[n] IN rest # <<>> /\ ~First(Head(rest))

\* Mutant: counts down without looking at the end.
TickUnchecked(n) ==
    /\ Mode = "RTU" /\ RTU_TimeoutEn[n]
    /\ RTU_TimeoutCtr' = [RTU_TimeoutCtr EXCEPT ![n] = @ - 1]
    /\ IF RTU_TimeoutCtr[n] = 1
       THEN /\ RTU_TimeoutEn' = [RTU_TimeoutEn EXCEPT ![n] = n = "slave"]
            /\ RxDoneFlag' = [RxDoneFlag EXCEPT ![n] = 1]
       ELSE UNCHANGED <<RTU_TimeoutEn, RxDoneFlag>>
    /\ UNCHANGED <<Mode, lineVars, bufVars, masterVars, slaveVars, histVars>>

\* modbus_rtu_timer_update()
Tick(n) ==
    /\ Mode = "RTU"
    /\ IF RTU_TimeoutEn[n]
       THEN /\ RTU_TimeoutCtr[n] > 0
            /\ RTU_TimeoutCtr' = [RTU_TimeoutCtr EXCEPT ![n] = @ - 1]
            /\ IF RTU_TimeoutCtr[n] = 1
               THEN /\ RTU_TimeoutEn' = [RTU_TimeoutEn EXCEPT ![n] = n = "slave"]
                    /\ RxDoneFlag' = [RxDoneFlag EXCEPT ![n] = 1]
                    /\ IF InFrame(n) THEN /\ faults < MaxFaults
                                          /\ faults' = faults + 1
                                          /\ clean' = FALSE
                                     ELSE UNCHANGED histVars
               ELSE UNCHANGED <<RTU_TimeoutEn, RxDoneFlag, histVars>>
       ELSE /\ RTU_TimeoutCtr[n] # Cnts
            /\ RTU_TimeoutCtr' = [RTU_TimeoutCtr EXCEPT ![n] = Cnts]
            /\ UNCHANGED <<RTU_TimeoutEn, RxDoneFlag, histVars>>
    /\ UNCHANGED <<Mode, lineVars, bufVars, masterVars, slaveVars>>

\* nothing is under way at either end
Settled ==
    /\ \A n \in Ends : wire[n] = <<>> /\ uart[n] = <<>>
    /\ Mode = "RTU" => \A n \in Ends : /\ RTU_TimeoutEn[n] => RTU_TimeoutCtr[n] = 0
                                       /\ RxDoneFlag[n] = 0
    /\ spc = "read"

-----------------------------------------------------------------------------
(***************************************************************************)
(* A call of modbus_master_fcXX().                                         *)
(***************************************************************************)
\* modbus_master_tx_command() up to the end of the transmission
Call(kind) ==
    /\ mpc = "idle"
    /\ Len(sent) < MaxCalls
    /\ sent' = Append(sent, kind)
    /\ wire' = [wire EXCEPT !["slave"] = @ \o Request(Len(sent) + 1)]
    /\ clean' = Settled
    /\ mpc' = "flush"
    /\ UNCHANGED <<Mode, uart, bufVars, timerVars, RxDoneFlag, rx_byte, elapsed, err, accepted,
                   whole, fresh, slaveVars, faults>>

\* Mutant: leaves the silence timer running.
FlushOnlyBuffer ==
    /\ mpc = "flush"
    /\ RxBufByteCtr' = [RxBufByteCtr EXCEPT !["master"] = 0]
    /\ mpc' = "wait"
    /\ UNCHANGED <<Mode, lineVars, RxBuf, RxBufPtr, timerVars, RxDoneFlag, sent, rx_byte, elapsed,
                   err, accepted, whole, fresh, slaveVars, histVars>>

\* the end of modbus_tx_bytes(); RxBufPtr stays
Flush ==
    /\ mpc = "flush"
    /\ RTU_TimeoutEn' = [RTU_TimeoutEn EXCEPT !["master"] = FALSE]
    /\ RxBufByteCtr' = [RxBufByteCtr EXCEPT !["master"] = 0]
    /\ mpc' = "wait"
    /\ UNCHANGED <<Mode, lineVars, RxBuf, RxBufPtr, RTU_TimeoutCtr, RxDoneFlag, sent, rx_byte,
                   elapsed, err, accepted, whole, fresh, slaveVars, histVars>>

\* modbus_os_rx_wait()
WaitBegins ==
    /\ mpc = "wait"
    /\ RxDoneFlag' = [RxDoneFlag EXCEPT !["master"] = 0]
    /\ elapsed' = FALSE
    /\ fresh' = FALSE
    /\ mpc' = "test"
    /\ UNCHANGED <<Mode, lineVars, bufVars, timerVars, sent, rx_byte, err, accepted, whole,
                   slaveVars, histVars>>

WaitTests ==
    /\ mpc = "test"
    /\ mpc' = IF RxDoneFlag["master"] = 0 THEN "read" ELSE "reply"
    /\ UNCHANGED <<Mode, lineVars, bufVars, timerVars, RxDoneFlag, sent, rx_byte, elapsed, err,
                   accepted, whole, fresh, slaveVars, histVars>>

\* modbus_rx_1byte(), and modbus_rtu_timer_reset() of modbus_rtu_rx_byte()
WaitReads ==
    /\ mpc = "read"
    /\ uart["master"] # <<>>
    /\ rx_byte' = Head(uart["master"])
    /\ uart' = [uart EXCEPT !["master"] = Tail(@)]
    /\ RTU_TimeoutCtr' = IF Mode = "RTU" THEN [RTU_TimeoutCtr EXCEPT !["master"] = Cnts]
                                         ELSE RTU_TimeoutCtr
    /\ fresh' = TRUE
    /\ mpc' = "store"
    /\ UNCHANGED <<Mode, wire, bufVars, RTU_TimeoutEn, RxDoneFlag, sent, elapsed, err, accepted,
                   whole, slaveVars, histVars>>

\* the rest of modbus_rx_byte(); an ASCII frame is done with its LF
WaitStores ==
    /\ mpc = "store"
    /\ IF Mode = "RTU"
       THEN /\ RTU_TimeoutEn' = [RTU_TimeoutEn EXCEPT !["master"] = TRUE]
            /\ Store("master", rx_byte)
            /\ UNCHANGED RxDoneFlag
       ELSE /\ StoreAscii("master", rx_byte)
            /\ RxDoneFlag' = IF Last("master", rx_byte) THEN [RxDoneFlag EXCEPT !["master"] = 1]
                                              ELSE RxDoneFlag
            /\ UNCHANGED RTU_TimeoutEn
    /\ rx_byte' = NoByte
    /\ mpc' = "test"
    /\ UNCHANGED <<Mode, lineVars, RTU_TimeoutCtr, sent, elapsed, err, accepted, whole, fresh,
                   slaveVars, histVars>>

WaitSleeps ==
    /\ mpc = "read"
    /\ uart["master"] = <<>>
    /\ ~elapsed
    /\ mpc' = "test"
    /\ UNCHANGED <<Mode, lineVars, bufVars, timerVars, RxDoneFlag, sent, rx_byte, elapsed, err,
                   accepted, whole, fresh, slaveVars, histVars>>

\* the clock passes start_time + RxTimeout
Elapse ==
    /\ mpc \in {"test", "read", "store"}
    /\ ~elapsed
    /\ elapsed' = TRUE
    /\ clean' = (clean /\ Settled)
    /\ UNCHANGED <<Mode, lineVars, bufVars, timerVars, RxDoneFlag, sent, mpc, rx_byte, err,
                   accepted, whole, fresh, slaveVars, faults>>

\* Mutant: forgets to leave the buffer empty.
ReturnKeepsBuffer(e) ==
    /\ err' = e
    /\ mpc' = "idle"
    /\ UNCHANGED bufVars

\* the end of modbus_master_fcXX()
Return(e) ==
    /\ err' = e
    /\ ResetBuf("master")
    /\ mpc' = "idle"

\* Mutant: gives up only while nothing has come.
TimesOutUntouched ==
    /\ mpc = "read"
    /\ uart["master"] = <<>>
    /\ elapsed /\ RxBufByteCtr["master"] = 0
    /\ IF Mode = "RTU" THEN Return("TIMED_OUT")
                       ELSE mpc' = "reply" /\ UNCHANGED <<bufVars, err>>
    /\ UNCHANGED <<Mode, lineVars, timerVars, RxDoneFlag, sent, rx_byte, elapsed, accepted,
                   whole, fresh, slaveVars, histVars>>

\* in ASCII mode the wait ends without an error, and what has come is decoded
WaitTimesOut ==
    /\ mpc = "read"
    /\ uart["master"] = <<>>
    /\ elapsed
    /\ IF Mode = "RTU" THEN Return("TIMED_OUT")
                       ELSE mpc' = "reply" /\ UNCHANGED <<bufVars, err>>
    /\ UNCHANGED <<Mode, lineVars, timerVars, RxDoneFlag, sent, rx_byte, elapsed, accepted,
                   whole, fresh, slaveVars, histVars>>

\* The answer has the slave's address, the function and the byte count of the
\* request.  bound: a byte that is not the first of an answer never looks like one
Matches(m) ==
    /\ First(m[1])
    /\ sent[m[1][1]] = sent[Len(sent)]
    /\ sent[Len(sent)] # "illegal"

\* modbus_master_rx_reply() and the decoding of the answer, which trusts the check sum
Reply ==
    /\ mpc = "reply"
    /\ LET m == Received("master") IN
         IF ~Parsed("master", m) THEN Return("RX") /\ UNCHANGED <<accepted, whole>>
         ELSE IF ~Matches(m) THEN Return("MISMATCH") /\ UNCHANGED <<accepted, whole>>
         ELSE /\ Return("NONE")
              /\ accepted' = Append(accepted, m[1][1])
              /\ whole' = (m = Answer(m[1][1]))
    /\ UNCHANGED <<Mode, lineVars, timerVars, RxDoneFlag, sent, rx_byte, elapsed, fresh,
                   slaveVars, histVars>>

-----------------------------------------------------------------------------
(***************************************************************************)
(* The loop of modbus_os_rx_task().                                        *)
(***************************************************************************)
\* In ASCII mode a frame whose LF has come is handled at once, if its address
\* is the slave's own (a broadcast has not), and is dropped otherwise.
SlaveReads ==
    /\ spc = "read"
    /\ uart["slave"] # <<>>
    /\ uart' = [uart EXCEPT !["slave"] = Tail(@)]
    /\ LET b == Head(uart["slave"])
           start == IF RxBufByteCtr["slave"] = 0 THEN b ELSE RxBuf["slave"][0]
           m == IF RxBufByteCtr["slave"] < BufSize THEN Append(Received("slave"), b)
                                                  ELSE Received("slave")
       IN  IF Mode = "RTU"
           THEN /\ RTU_TimeoutCtr' = [RTU_TimeoutCtr EXCEPT !["slave"] = Cnts]
                /\ Store("slave", b)
                /\ spc' = "check"
                /\ UNCHANGED <<performed, wire>>
           ELSE /\ IF ~Last("slave", b) THEN StoreAscii("slave", b) /\ UNCHANGED <<performed, wire>>
                   ELSE IF First(start) /\ Answers(sent[start[1]]) THEN SlaveTask(m)
                   ELSE ResetBuf("slave") /\ UNCHANGED <<performed, wire>>
                /\ UNCHANGED <<RTU_TimeoutCtr, spc>>
    /\ UNCHANGED <<Mode, RTU_TimeoutEn, RxDoneFlag, masterVars, histVars>>

SlaveSleeps ==
    /\ spc = "read"
    /\ uart["slave"] = <<>>
    /\ spc' = IF Mode = "RTU" THEN "check" ELSE spc
    /\ UNCHANGED <<Mode, lineVars, bufVars, timerVars, RxDoneFlag, masterVars, performed,
                   histVars>>

SlaveChecks ==
    /\ spc = "check"
    /\ IF RxDoneFlag["slave"] = 0
       THEN /\ spc' = "read"
            /\ UNCHANGED <<performed, wire, bufVars>>
       ELSE /\ spc' = "clear"
            /\ SlaveTask(Received("slave"))
    /\ UNCHANGED <<Mode, uart, timerVars, RxDoneFlag, masterVars, histVars>>

SlaveClears ==
    /\ spc = "clear"
    /\ RxDoneFlag' = [RxDoneFlag EXCEPT !["slave"] = 0]
    /\ spc' = "read"
    /\ UNCHANGED <<Mode, lineVars, bufVars, timerVars, masterVars, performed, histVars>>

-----------------------------------------------------------------------------
WaitStep == WaitBegins \/ WaitTests \/ WaitReads \/ WaitStores \/ WaitSleeps \/ WaitTimesOut
MasterStep == Flush \/ WaitStep \/ Reply
SlaveStep == SlaveReads \/ SlaveSleeps \/ SlaveChecks \/ SlaveClears

Next ==
    \/ \E kind \in Kinds : Call(kind)
    \/ MasterStep
    \/ Elapse
    \/ SlaveStep
    \/ \E n \in Ends : Deliver(n) \/ Lose(n) \/ Tick(n)

Spec == Init /\ [][Next]_vars

\* the master's task runs, and its clock
Fairness == WF_vars(MasterStep) /\ WF_vars(Elapse)

FairSpec == Spec /\ Fairness

-----------------------------------------------------------------------------
(***************************************************************************)
(* Correctness properties.                                                 *)
(***************************************************************************)
\* The next byte goes behind the bytes counted, though modbus_tx_bytes() resets
\* the counter of the master and not the pointer: every path out of a call and
\* out of the slave's task has reset both.
PointerFollowsCounter == \A n \in Ends : RxBufPtr[n] = RxBufByteCtr[n]

\* In RTU mode a wait is ended only by the silence after a byte it has read
\* itself: a signal of the timer that was started by a byte of an earlier call
\* never ends it, though RxDoneFlag and RTU_TimeoutEn are reset at two places
\* between which the timer's interrupt may come.
SignalIsFresh == Mode = "RTU" /\ mpc = "reply" => fresh

\* A call that begins on a quiet line, and meets no lost byte, no silence inside
\* a frame and no timeout before the line is quiet again, ends as the slave
\* decides: with the whole answer to this very request, or without one.  A refusal
\* is seen as such in RTU mode only: in ASCII mode modbus_ascii_rx() wants more than
\* the 11 characters it has, so that the call ends with MODBUS_ERR_RX.  Whatever
\* went wrong in earlier calls has left no trace at either end.
CleanCallSucceeds ==
    mpc = "idle" /\ clean =>
        LET kind == sent[Len(sent)] IN
        /\ kind \in Served => err = "NONE" /\ accepted[Len(accepted)] = Len(sent) /\ whole
        /\ kind = "illegal" => err = IF Mode = "RTU" THEN "MISMATCH" ELSE "RX"
        /\ kind \in {"foreign", "broadcast"} => err # "NONE"

Calls == INSTANCE RemoteCalls WITH
    issued <- Len(sent),
    answered <- performed,
    accepted <- accepted

\* Whatever is lost, late or split, each request is performed at most once and
\* in order, and each answer is accepted at most once and in order; a late
\* answer may be accepted for a later request of the same kind, but never twice.
IsRemoteCalls == Calls!Spec

\* Every call of the master returns: the wait ends with the timeout if with
\* nothing else.
CallReturns == mpc # "idle" ~> mpc = "idle"
=============================================================================
