---------------------------- MODULE ModbusProofs ----------------------------
(***************************************************************************)
(* Proofs about the Modbus channels, for any size of frames and buffers,   *)
(* any silence and any number of calls and faults.                         *)
(***************************************************************************)
EXTENDS Modbus, SequenceTheorems, TLAPS

\* Outside the wait of a call the master's buffer is empty.
EmptyBeforeWait == mpc \in {"idle", "flush"} => RxBufByteCtr["master"] = 0

\* In RTU mode no signal is due to the master before it has read a byte: the
\* silence timer is off until then, and RxDoneFlag is clear.
NoSignalBeforeByte ==
    Mode = "RTU" =>
        /\ mpc = "wait" => ~RTU_TimeoutEn["master"]
        /\ mpc \in {"test", "read"} /\ ~fresh => /\ ~RTU_TimeoutEn["master"]
                                               /\ RxDoneFlag["master"] = 0
        /\ mpc \in {"store", "reply"} => fresh

\* The type invariant by groups of variables.
LineType == wire \in [Ends -> Seq(Bytes)] /\ uart \in [Ends -> Seq(Bytes)]
BufType ==
    /\ RxBuf \in [Ends -> [0..(BufSize - 1) -> Bytes \cup {NoByte}]]
    /\ RxBufByteCtr \in [Ends -> 0..BufSize]
    /\ RxBufPtr \in [Ends -> 0..BufSize]
TimerType ==
    /\ RTU_TimeoutEn \in [Ends -> BOOLEAN]
    /\ RTU_TimeoutCtr \in [Ends -> 0..Cnts]
    /\ RxDoneFlag \in [Ends -> {0, 1}]
MasterType ==
    /\ sent \in Seq(Kinds) /\ Len(sent) <= MaxCalls
    /\ mpc \in {"idle", "flush", "wait", "test", "read", "store", "reply"}
    /\ rx_byte \in Bytes \cup {NoByte}
    /\ elapsed \in BOOLEAN
    /\ err \in {"NONE", "TIMED_OUT", "RX", "MISMATCH"}
AnswerType == accepted \in Seq(1..MaxCalls) /\ whole \in BOOLEAN /\ fresh \in BOOLEAN
SlaveType == spc \in {"read", "check", "clear"} /\ performed \in Seq(1..MaxCalls)
HistType == clean \in BOOLEAN /\ faults \in 0..MaxFaults
Typed ==
    /\ Mode \in Modes
    /\ LineType /\ BufType /\ TimerType /\ MasterType /\ AnswerType /\ SlaveType /\ HistType

\* They make up TypeOK of the module.
LEMMA TypedIsTypeOK == Typed <=> TypeOK
  BY DEF Typed, TypeOK, LineType, BufType, TimerType, MasterType, AnswerType, SlaveType, HistType

\* The byte the master is about to store was read from the line.
StoresByte == mpc = "store" => rx_byte \in Bytes

\* The invariants of the channels, made inductive.
ModbusInv ==
    /\ Typed
    /\ PointerFollowsCounter
    /\ EmptyBeforeWait
    /\ NoSignalBeforeByte
    /\ StoresByte

-----------------------------------------------------------------------------
(***************************************************************************)
(* Bytes and frames.                                                       *)
(***************************************************************************)

\* The lengths a message may have.
Lengths == 2..BufSize

\* Requests and answers are of such a length, in both modes.
LEMMA SizeIsLength ==
    ASSUME ModbusAssumption, Typed, NEW n, NEW r
    PROVE  Size(n, r) \in Lengths /\ FrameSize[Mode] \in Lengths
<1>1. /\ BufSize \in Nat /\ MinSize[Mode] \in Nat \ {0, 1}
      /\ RefusalSize[Mode] \in Nat /\ FrameSize[Mode] \in Nat
      /\ MinSize[Mode] <= RefusalSize[Mode] /\ RefusalSize[Mode] < FrameSize[Mode]
      /\ FrameSize[Mode] <= BufSize
  BY DEF ModbusAssumption, Typed
<1>2. RefusalSize[Mode] \in 2..BufSize /\ FrameSize[Mode] \in 2..BufSize
  BY <1>1
<1> QED BY <1>2 DEF Size, Lengths

\* A message is a sequence of bytes, and its first byte tells the request.
LEMMA MessageBytes ==
    ASSUME ModbusAssumption, NEW r \in 1..MaxCalls, NEW f \in Lengths
    PROVE  /\ Message(r, f) \in Seq(Bytes) /\ Len(Message(r, f)) = f
           /\ DOMAIN Message(r, f) = 1..f
           /\ \A i \in 1..f : Message(r, f)[i] = <<r, i>>
           /\ Message(r, f)[1] = <<r, 1>>
<1>1. f \in Nat /\ 1 \in 1..f
  BY DEF ModbusAssumption, Lengths
<1>2. \A i \in 1..f : <<r, i>> \in Bytes
  BY DEF Bytes, Lengths, ModbusAssumption
<1>3. Message(r, f) = [i \in 1..f |-> <<r, i>>]
  BY DEF Message
<1> HIDE DEF Bytes, Message
<1>4. Message(r, f) \in [1..f -> Bytes]
  BY <1>2, <1>3
<1>5. Message(r, f) \in Seq(Bytes)
  BY <1>1, <1>4, SeqDef
<1> QED BY <1>1, <1>3, <1>4, <1>5, LenProperties

\* A sound buffer holds one of the requests that were sent.
LEMMA SoundIsSent ==
    ASSUME ModbusAssumption, Typed, NEW m, Sound(m)
    PROVE  m[1][1] \in 1..MaxCalls /\ m[1][1] \in 1..Len(sent)
<1>1. PICK r \in 1..Len(sent) : m = Message(r, FrameSize[Mode])
  BY DEF Sound, Request
<1>2. r \in 1..MaxCalls
  BY <1>1, LenProperties DEF Typed, MasterType, ModbusAssumption
<1> QED BY <1>1, <1>2, SizeIsLength, MessageBytes

\* What one end's buffer becomes is of the right type, and leaves the other's alone.
BufStep(n) ==
    /\ RxBuf' \in [Ends -> [0..(BufSize - 1) -> Bytes \cup {NoByte}]]
    /\ RxBufByteCtr' \in [Ends -> 0..BufSize]
    /\ RxBufPtr' \in [Ends -> 0..BufSize]
    /\ PointerFollowsCounter'
    /\ \A e \in Ends \ {n} : RxBufByteCtr'[e] = RxBufByteCtr[e]

\* Emptying a buffer sets its counter and its pointer together.
LEMMA ResetBufStep ==
    ASSUME ModbusAssumption, Typed, PointerFollowsCounter, NEW n \in Ends, ResetBuf(n)
    PROVE  BufStep(n) /\ RxBufByteCtr'[n] = 0
<1>1. EmptyBuf \in [0..(BufSize - 1) -> Bytes \cup {NoByte}] /\ 0 \in 0..BufSize
  BY DEF EmptyBuf, ModbusAssumption
<1> QED BY <1>1 DEF ResetBuf, BufStep, Typed, BufType, PointerFollowsCounter

\* Storing a byte moves them together, and stays inside the buffer.
LEMMA StoreStep ==
    ASSUME ModbusAssumption, Typed, PointerFollowsCounter, NEW n \in Ends, NEW b \in Bytes,
           Store(n, b) \/ StoreAscii(n, b)
    PROVE  BufStep(n)
<1> DEFINE B == Bytes \cup {NoByte}
<1>1. BufSize \in Nat /\ BufSize >= 1 /\ b \in B /\ NoByte \in B
  BY DEF ModbusAssumption, Modes
<1> HIDE DEF B
<1>2. /\ RxBuf \in [Ends -> [0..(BufSize - 1) -> B]]
      /\ RxBufByteCtr \in [Ends -> 0..BufSize] /\ RxBufPtr \in [Ends -> 0..BufSize]
      /\ \A e \in Ends : RxBufPtr[e] = RxBufByteCtr[e]
  BY DEF Typed, BufType, PointerFollowsCounter, B
<1>3. CASE Store(n, b)
  <2>1. CASE RxBufByteCtr[n] < BufSize
    <3>1. RxBufPtr[n] \in 0..(BufSize - 1)
      BY <1>1, <1>2, <2>1
    <3>2. RxBuf' \in [Ends -> [0..(BufSize - 1) -> B]]
      <4>1. RxBuf[n] \in [0..(BufSize - 1) -> B]
        BY <1>2
      <4>2. [RxBuf[n] EXCEPT ![RxBufPtr[n]] = b] \in [0..(BufSize - 1) -> B]
        BY <1>1, <3>1, <4>1
      <4>3. RxBuf' = [RxBuf EXCEPT ![n] = [RxBuf[n] EXCEPT ![RxBufPtr[n]] = b]]
        BY <1>3, <2>1 DEF Store
      <4> QED BY <1>2, <4>2, <4>3
    <3>3. RxBufByteCtr[n] + 1 \in 0..BufSize /\ RxBufPtr[n] + 1 = RxBufByteCtr[n] + 1
      BY <1>1, <1>2, <2>1
    <3>4. /\ RxBufByteCtr' = [RxBufByteCtr EXCEPT ![n] = RxBufByteCtr[n] + 1]
          /\ RxBufPtr' = [RxBufPtr EXCEPT ![n] = RxBufByteCtr[n] + 1]
      BY <1>2, <1>3, <2>1, <3>3 DEF Store
    <3> QED BY <1>2, <3>2, <3>3, <3>4 DEF BufStep, PointerFollowsCounter, B
  <2>2. CASE ~(RxBufByteCtr[n] < BufSize)
    BY <1>2, <1>3, <2>2 DEF Store, bufVars, BufStep, PointerFollowsCounter, B
  <2> QED BY <2>1, <2>2
<1>4. CASE First(b) /\ StoreAscii(n, b)
  <2>1. [EmptyBuf EXCEPT ![0] = b] \in [0..(BufSize - 1) -> B] /\ 1 \in 0..BufSize
    BY <1>1 DEF EmptyBuf
  <2> QED BY <1>2, <1>4, <2>1 DEF StoreAscii, BufStep, PointerFollowsCounter, B
<1> QED BY <1>3, <1>4 DEF StoreAscii

\* The slave's task leaves its buffer empty, and sends and performs known requests only.
LEMMA SlaveTaskStep ==
    ASSUME ModbusAssumption, Typed, PointerFollowsCounter, NEW m, SlaveTask(m)
    PROVE  /\ BufStep("slave")
           /\ wire' \in [Ends -> Seq(Bytes)]
           /\ performed' \in Seq(1..MaxCalls)
<1>1. BufStep("slave")
  BY ResetBufStep DEF SlaveTask, Ends
<1>2. CASE ~Sound(m)
  BY <1>1, <1>2 DEF SlaveTask, Typed, LineType, SlaveType
<1>3. CASE Sound(m)
  <2> DEFINE r == m[1][1]
  <2>1. r \in 1..MaxCalls
    BY <1>3, SoundIsSent
  <2>2. performed' \in {performed, Append(performed, r)}
    BY <1>3 DEF SlaveTask
  <2>3. wire' \in {wire, [wire EXCEPT !["master"] = @ \o Answer(r)]}
    BY <1>3 DEF SlaveTask
  <2> HIDE DEF r
  <2>4. Append(performed, r) \in Seq(1..MaxCalls) /\ performed \in Seq(1..MaxCalls)
    BY <2>1, AppendProperties DEF Typed, SlaveType
  <2>5. wire["master"] \o Answer(r) \in Seq(Bytes) /\ wire \in [Ends -> Seq(Bytes)]
    <3>1. Answer(r) \in Seq(Bytes)
      BY <2>1, SizeIsLength, MessageBytes DEF Answer
    <3> QED BY <3>1, ConcatProperties DEF Typed, LineType, Ends
  <2> QED BY <1>1, <2>2, <2>3, <2>4, <2>5
<1> QED BY <1>2, <1>3

-----------------------------------------------------------------------------
(***************************************************************************)
(* ModbusInv is inductive.                                                 *)
(***************************************************************************)

\* ModbusInv holds when both channels have been configured.
LEMMA InitModbusInv ==
    ASSUME ModbusAssumption, Init
    PROVE  ModbusInv
<1>1. /\ BufSize \in Nat /\ Cnts \in Nat /\ MaxFaults \in Nat /\ MaxCalls \in Nat
      /\ 0 \in 0..BufSize /\ Cnts \in 0..Cnts /\ 0 \in 0..MaxFaults
  BY DEF ModbusAssumption
<1>2. <<>> \in Seq(Bytes) /\ <<>> \in Seq(Kinds) /\ <<>> \in Seq(1..MaxCalls) /\ Len(<<>>) = 0
  BY EmptySeq
<1> HIDE DEF Bytes, NoByte
<1>3. LineType
  BY <1>2 DEF Init, LineType
<1>4. BufType
  BY <1>1 DEF Init, BufType
<1>5. TimerType
  BY <1>1 DEF Init, TimerType
<1>6. MasterType
  <2>1. Len(<<>>) <= MaxCalls
    BY <1>1, <1>2
  <2> QED BY <1>2, <2>1, Zenon DEF Init, MasterType
<1>7. AnswerType /\ SlaveType
  BY <1>2, Zenon DEF Init, AnswerType, SlaveType
<1>8. HistType
  BY <1>1, Zenon DEF Init, HistType
<1>9. Typed
  BY <1>3, <1>4, <1>5, <1>6, <1>7, <1>8 DEF Init, Typed
<1>10. PointerFollowsCounter /\ EmptyBeforeWait /\ NoSignalBeforeByte /\ StoresByte
  BY DEF Init, PointerFollowsCounter, EmptyBeforeWait, NoSignalBeforeByte, StoresByte, Ends
<1> QED BY <1>9, <1>10 DEF ModbusInv

\* The line delivers and loses bytes without touching the channels.
LEMMA LineInv ==
    ASSUME ModbusAssumption, ModbusInv, NEW n \in Ends, Deliver(n) \/ Lose(n)
    PROVE  ModbusInv'
<1>1. wire[n] \in Seq(Bytes) /\ uart[n] \in Seq(Bytes) /\ wire[n] # <<>>
  BY DEF ModbusInv, Typed, LineType, Deliver, Lose
<1>2. Head(wire[n]) \in Bytes /\ Tail(wire[n]) \in Seq(Bytes)
  BY <1>1, HeadTailProperties
<1>3. Append(uart[n], Head(wire[n])) \in Seq(Bytes)
  BY <1>1, <1>2, AppendProperties
<1>4. LineType'
  BY <1>2, <1>3 DEF ModbusInv, Typed, LineType, Deliver, Lose
<1>5. HistType'
  <2>1. CASE Deliver(n)
    BY <2>1 DEF ModbusInv, Typed, HistType, Deliver, histVars
  <2>2. CASE Lose(n)
    <3>1. clean' = FALSE /\ faults' = faults + 1 /\ faults < MaxFaults
      BY <2>2 DEF Lose
    <3>2. faults \in 0..MaxFaults /\ MaxFaults \in Nat
      BY DEF ModbusInv, Typed, HistType, ModbusAssumption
    <3>3. faults' \in 0..MaxFaults
      BY <3>1, <3>2
    <3> QED BY <3>1, <3>3, Zenon DEF HistType
  <2> QED BY <2>1, <2>2
<1>6. UNCHANGED <<Mode, bufVars, timerVars, RxDoneFlag, masterVars, slaveVars>>
  BY DEF Deliver, Lose
<1>7. Typed'
  BY <1>4, <1>5, <1>6 DEF ModbusInv, Typed, BufType, TimerType, MasterType, AnswerType,
     SlaveType, bufVars, timerVars, masterVars, slaveVars
<1> QED
  BY <1>6, <1>7 DEF ModbusInv, PointerFollowsCounter, EmptyBeforeWait, NoSignalBeforeByte,
     StoresByte, bufVars, timerVars, masterVars

\* The silence timer signals only an end that has it enabled.
LEMMA TickModbusInv ==
    ASSUME ModbusAssumption, ModbusInv, NEW n \in Ends, Tick(n)
    PROVE  ModbusInv'
<1>1. TimerType'
  <2>1. /\ RTU_TimeoutCtr \in [Ends -> 0..Cnts] /\ RTU_TimeoutEn \in [Ends -> BOOLEAN]
        /\ RxDoneFlag \in [Ends -> {0, 1}] /\ RTU_TimeoutCtr[n] \in 0..Cnts /\ Cnts \in Nat
    BY DEF ModbusInv, Typed, TimerType, ModbusAssumption
  <2>2. RTU_TimeoutCtr' \in [Ends -> 0..Cnts]
    <3>1. RTU_TimeoutCtr[n] > 0 => RTU_TimeoutCtr[n] - 1 \in 0..Cnts
      BY <2>1
    <3>2. Cnts \in 0..Cnts
      BY <2>1
    <3> QED BY <2>1, <3>1, <3>2 DEF Tick
  <2>3. RTU_TimeoutEn' \in [Ends -> BOOLEAN]
    BY <2>1 DEF Tick
  <2>4. RxDoneFlag' \in [Ends -> {0, 1}]
    BY <2>1 DEF Tick
  <2> QED BY <2>2, <2>3, <2>4 DEF TimerType
<1>2. HistType'
  <2>1. faults \in 0..MaxFaults /\ MaxFaults \in Nat /\ clean \in BOOLEAN
    BY DEF ModbusInv, Typed, HistType, ModbusAssumption
  <2>2. \/ UNCHANGED <<clean, faults>>
        \/ clean' = FALSE /\ faults < MaxFaults /\ faults' = faults + 1
    BY DEF Tick, histVars
  <2>3. CASE UNCHANGED <<clean, faults>>
    BY <2>1, <2>3 DEF HistType
  <2>4. CASE clean' = FALSE /\ faults < MaxFaults /\ faults' = faults + 1
    <3>1. faults' \in 0..MaxFaults
      BY <2>1, <2>4
    <3> QED BY <2>4, <3>1, Zenon DEF HistType
  <2> QED BY <2>2, <2>3, <2>4
<1>3. UNCHANGED <<Mode, lineVars, bufVars, masterVars, slaveVars>>
  BY DEF Tick
<1>4. Typed'
  BY <1>1, <1>2, <1>3 DEF ModbusInv, Typed, LineType, BufType, MasterType, AnswerType,
     SlaveType, lineVars, bufVars, masterVars, slaveVars
<1>5. ~RTU_TimeoutEn["master"] => /\ ~RTU_TimeoutEn'["master"]
                                  /\ RxDoneFlag'["master"] = RxDoneFlag["master"]
  BY DEF ModbusInv, Typed, TimerType, Ends, Tick
<1> QED
  BY <1>3, <1>4, <1>5 DEF ModbusInv, PointerFollowsCounter, EmptyBeforeWait,
     NoSignalBeforeByte, StoresByte, bufVars, masterVars

\* The transmission of a request.
LEMMA CallInv ==
    ASSUME ModbusAssumption, ModbusInv, NEW kind \in Kinds, Call(kind)
    PROVE  ModbusInv'
<1>1. Len(sent) \in Nat /\ MaxCalls \in Nat /\ sent \in Seq(Kinds) /\ Len(sent) < MaxCalls
  BY LenProperties DEF ModbusInv, Typed, MasterType, ModbusAssumption, Call
<1>2. sent' \in Seq(Kinds) /\ Len(sent') <= MaxCalls
  BY <1>1, AppendProperties DEF Call
<1>3. LineType'
  <2>1. Len(sent) + 1 \in 1..MaxCalls
    BY <1>1
  <2>2. Request(Len(sent) + 1) \in Seq(Bytes)
    BY <2>1, SizeIsLength, MessageBytes DEF ModbusInv, Request
  <2>3. wire["slave"] \o Request(Len(sent) + 1) \in Seq(Bytes)
    BY <2>2, ConcatProperties DEF ModbusInv, Typed, LineType, Ends
  <2> QED BY <2>3 DEF ModbusInv, Typed, LineType, Call
<1>4. HistType'
  BY DEF ModbusInv, Typed, HistType, Call, Settled
<1>5. Typed'
  BY <1>2, <1>3, <1>4 DEF ModbusInv, Typed, BufType, TimerType, MasterType, AnswerType,
     SlaveType, Call, bufVars, timerVars, slaveVars
<1> QED
  BY <1>5 DEF ModbusInv, PointerFollowsCounter, EmptyBeforeWait, NoSignalBeforeByte,
     StoresByte, Call, bufVars, timerVars

\* What modbus_tx_bytes() resets after it: the counter was 0 already.
LEMMA FlushInv ==
    ASSUME ModbusAssumption, ModbusInv, Flush
    PROVE  ModbusInv'
<1>1. RxBufByteCtr' = RxBufByteCtr
  BY DEF ModbusInv, Typed, BufType, EmptyBeforeWait, Flush
<1>2. TimerType' /\ ~RTU_TimeoutEn'["master"]
  BY DEF ModbusInv, Typed, TimerType, Ends, Flush
<1>3. Typed'
  BY <1>1, <1>2 DEF ModbusInv, Typed, LineType, BufType, MasterType, AnswerType, SlaveType,
     HistType, Flush, lineVars, slaveVars, histVars
<1> QED
  BY <1>1, <1>2, <1>3 DEF ModbusInv, PointerFollowsCounter, EmptyBeforeWait,
     NoSignalBeforeByte, StoresByte, Flush

\* The steps of a wait that do not touch the buffer.
LEMMA WaitInv ==
    ASSUME ModbusAssumption, ModbusInv,
           WaitBegins \/ WaitTests \/ WaitSleeps \/ Elapse
    PROVE  ModbusInv'
<1>1. CASE WaitBegins
  <2>1. TimerType' /\ RxDoneFlag'["master"] = 0
    BY <1>1 DEF ModbusInv, Typed, TimerType, Ends, WaitBegins, timerVars
  <2>2. Typed'
    BY <1>1, <2>1 DEF ModbusInv, Typed, LineType, BufType, MasterType, AnswerType, SlaveType,
       HistType, WaitBegins, lineVars, bufVars, slaveVars, histVars
  <2> QED
    BY <1>1, <2>1, <2>2 DEF ModbusInv, PointerFollowsCounter, EmptyBeforeWait,
       NoSignalBeforeByte, StoresByte, WaitBegins, bufVars, timerVars
<1>2. CASE WaitTests
  <2>1. Typed'
    BY <1>2 DEF ModbusInv, Typed, LineType, BufType, TimerType, MasterType, AnswerType,
       SlaveType, HistType, WaitTests, lineVars, bufVars, timerVars, slaveVars, histVars
  <2> QED
    BY <1>2, <2>1 DEF ModbusInv, PointerFollowsCounter, EmptyBeforeWait,
       NoSignalBeforeByte, StoresByte, WaitTests, bufVars, timerVars
<1>3. CASE WaitSleeps
  <2>1. Typed'
    BY <1>3 DEF ModbusInv, Typed, LineType, BufType, TimerType, MasterType, AnswerType,
       SlaveType, HistType, WaitSleeps, lineVars, bufVars, timerVars, slaveVars, histVars
  <2> QED
    BY <1>3, <2>1 DEF ModbusInv, PointerFollowsCounter, EmptyBeforeWait,
       NoSignalBeforeByte, StoresByte, WaitSleeps, bufVars, timerVars
<1>4. CASE Elapse
  <2>1. HistType'
    BY <1>4 DEF ModbusInv, Typed, HistType, Elapse, Settled
  <2>2. Typed'
    BY <1>4, <2>1 DEF ModbusInv, Typed, LineType, BufType, TimerType, MasterType, AnswerType,
       SlaveType, Elapse, lineVars, bufVars, timerVars, slaveVars
  <2> QED
    BY <1>4, <2>2 DEF ModbusInv, PointerFollowsCounter, EmptyBeforeWait,
       NoSignalBeforeByte, StoresByte, Elapse, bufVars, timerVars
<1> QED BY <1>1, <1>2, <1>3, <1>4

\* A byte that is read becomes the byte to store, and restarts the silence.
LEMMA WaitReadsInv ==
    ASSUME ModbusAssumption, ModbusInv, WaitReads
    PROVE  ModbusInv'
<1>1. uart["master"] \in Seq(Bytes) /\ uart["master"] # <<>>
  BY DEF ModbusInv, Typed, LineType, Ends, WaitReads
<1>2. Head(uart["master"]) \in Bytes /\ Tail(uart["master"]) \in Seq(Bytes)
  BY <1>1, HeadTailProperties
<1> HIDE DEF Bytes, NoByte
<1>3. LineType'
  BY <1>2 DEF ModbusInv, Typed, LineType, WaitReads
<1>4. TimerType'
  <2>1. Cnts \in 0..Cnts
    BY DEF ModbusAssumption
  <2> QED BY <2>1 DEF ModbusInv, Typed, TimerType, WaitReads
<1>5. MasterType' /\ AnswerType'
  BY <1>2 DEF ModbusInv, Typed, MasterType, AnswerType, WaitReads
<1>6. Typed'
  BY <1>3, <1>4, <1>5 DEF ModbusInv, Typed, BufType, SlaveType, HistType, WaitReads, bufVars,
     slaveVars, histVars
<1> QED
  BY <1>2, <1>6 DEF ModbusInv, PointerFollowsCounter, EmptyBeforeWait, NoSignalBeforeByte,
     StoresByte, WaitReads, bufVars

\* A byte that is stored starts the silence of RTU, or ends the frame of ASCII.
LEMMA WaitStoresInv ==
    ASSUME ModbusAssumption, ModbusInv, WaitStores
    PROVE  ModbusInv'
<1>1. rx_byte \in Bytes
  BY DEF ModbusInv, StoresByte, WaitStores
<1>2. BufStep("master")
  BY <1>1, StoreStep DEF WaitStores, ModbusInv, Ends
<1> HIDE DEF Bytes, NoByte
<1>3. TimerType'
  BY DEF ModbusInv, Typed, TimerType, WaitStores
<1>4. MasterType' /\ AnswerType'
  BY DEF ModbusInv, Typed, MasterType, AnswerType, WaitStores
<1>5. Typed'
  BY <1>2, <1>3, <1>4 DEF ModbusInv, Typed, LineType, BufType, BufStep, SlaveType, HistType,
     WaitStores, lineVars, slaveVars, histVars
<1> QED
  BY <1>2, <1>5 DEF ModbusInv, BufStep, EmptyBeforeWait, NoSignalBeforeByte, StoresByte,
     WaitStores

\* A call returns with its buffer emptied.
LEMMA ReturnInv ==
    ASSUME ModbusAssumption, ModbusInv, NEW e \in {"NONE", "TIMED_OUT", "RX", "MISMATCH"},
           Return(e)
    PROVE  BufStep("master") /\ RxBufByteCtr'["master"] = 0 /\ err' = e /\ mpc' = "idle"
<1> QED BY ResetBufStep DEF ModbusInv, Return, Ends

\* The wait gives up.
LEMMA WaitTimesOutInv ==
    ASSUME ModbusAssumption, ModbusInv, WaitTimesOut
    PROVE  ModbusInv'
<1>1. CASE Mode = "RTU"
  <2>1. /\ BufStep("master") /\ RxBufByteCtr'["master"] = 0
        /\ err' = "TIMED_OUT" /\ mpc' = "idle"
    BY <1>1, ReturnInv DEF WaitTimesOut
  <2> HIDE DEF Bytes, NoByte
  <2>2. Typed'
    BY <2>1 DEF ModbusInv, Typed, LineType, BufType, BufStep, TimerType, MasterType, AnswerType,
       SlaveType, HistType, WaitTimesOut, lineVars, timerVars, slaveVars, histVars
  <2> QED
    BY <2>1, <2>2 DEF ModbusInv, BufStep, EmptyBeforeWait, NoSignalBeforeByte, StoresByte
<1>2. CASE Mode # "RTU"
  <2>1. mpc' = "reply" /\ UNCHANGED bufVars /\ err' = err
    BY <1>2 DEF WaitTimesOut
  <2> HIDE DEF Bytes, NoByte
  <2>2. Typed'
    BY <2>1 DEF ModbusInv, Typed, LineType, BufType, bufVars, TimerType, MasterType, AnswerType,
       SlaveType, HistType, WaitTimesOut, lineVars, timerVars, slaveVars, histVars
  <2> QED
    BY <1>2, <2>1, <2>2 DEF ModbusInv, bufVars, PointerFollowsCounter, EmptyBeforeWait,
       NoSignalBeforeByte, StoresByte, WaitTimesOut
<1> QED BY <1>1, <1>2

\* The bytes in the buffer are of the line.
LEMMA FirstByte ==
    ASSUME ModbusAssumption, ModbusInv, Parsed("master", Received("master")),
           Matches(Received("master"))
    PROVE  Received("master")[1][1] \in 1..MaxCalls
<1> DEFINE m == Received("master")
<1>1. /\ \A mode \in Modes : MinSize[mode] \in Nat /\ MinSize[mode] >= 2
      /\ BufSize \in Nat /\ {"RTU", "ASCII"} \subseteq Modes
  BY DEF ModbusAssumption, Modes
<1>2. RxBufByteCtr["master"] \in 0..BufSize
      /\ RxBuf["master"] \in [0..(BufSize - 1) -> Bytes \cup {NoByte}]
  BY DEF ModbusInv, Typed, BufType, Ends
<1>3. Len(m) = RxBufByteCtr["master"]
      /\ m = [i \in 1..RxBufByteCtr["master"] |-> RxBuf["master"][i - 1]]
  <2>1. m = [i \in 1..RxBufByteCtr["master"] |-> RxBuf["master"][i - 1]]
    BY DEF Received
  <2> HIDE DEF m
  <2> QED BY <1>1, <1>2, <2>1
<1> HIDE DEF m
<1>4. Len(m) > 0
  BY <1>1, <1>2, <1>3 DEF Parsed, m
<1>5. m[1] = RxBuf["master"][0] /\ 0 \in 0..(BufSize - 1)
  BY <1>1, <1>2, <1>3, <1>4
<1>6. m[1] \in Bytes \cup {NoByte}
  <2> HIDE DEF Bytes, NoByte
  <2> QED BY <1>2, <1>5
<1>7. m[1] # NoByte
  BY DEF Matches, First, NoByte, m
<1>8. m[1] \in Bytes
  BY <1>6, <1>7
<1> QED BY <1>8 DEF Bytes, m

\* The answer is decoded.
LEMMA ReplyInv ==
    ASSUME ModbusAssumption, ModbusInv, Reply
    PROVE  ModbusInv'
<1> DEFINE m == Received("master")
           Errs == {"NONE", "TIMED_OUT", "RX", "MISMATCH"}
<1>1. PICK e \in Errs : Return(e)
  BY DEF Reply
<1>2. BufStep("master") /\ RxBufByteCtr'["master"] = 0 /\ err' = e /\ mpc' = "idle"
  BY <1>1, ReturnInv
<1>3. AnswerType'
  <2>1. accepted \in Seq(1..MaxCalls) /\ whole \in BOOLEAN /\ fresh' \in BOOLEAN
    BY DEF ModbusInv, Typed, AnswerType, Reply
  <2>2. CASE Parsed("master", m) /\ Matches(m)
    <3>1. Append(accepted, m[1][1]) \in Seq(1..MaxCalls)
      BY <2>1, <2>2, FirstByte, AppendProperties
    <3>2. accepted' = Append(accepted, m[1][1]) /\ whole' = (m = Answer(m[1][1]))
      BY <2>2 DEF Reply
    <3> HIDE DEF m
    <3>3. whole' \in BOOLEAN
      BY <3>2
    <3> QED BY <2>1, <3>1, <3>2, <3>3 DEF AnswerType
  <2>3. CASE ~(Parsed("master", m) /\ Matches(m))
    BY <2>1, <2>3 DEF Reply, AnswerType
  <2> QED BY <2>2, <2>3
<1> HIDE DEF Bytes, NoByte, m
<1>4. Typed'
  BY <1>2, <1>3 DEF ModbusInv, Typed, LineType, BufType, BufStep, TimerType, MasterType,
     SlaveType, HistType, Reply, lineVars, timerVars, slaveVars, histVars
<1> QED
  BY <1>2, <1>4 DEF ModbusInv, BufStep, EmptyBeforeWait, NoSignalBeforeByte, StoresByte

\* The slave's loop reads a byte, and in ASCII mode handles the frame it ends.
LEMMA SlaveReadsInv ==
    ASSUME ModbusAssumption, ModbusInv, SlaveReads
    PROVE  ModbusInv'
<1> DEFINE b == Head(uart["slave"])
           U == [uart EXCEPT !["slave"] = Tail(@)]
<1>1. uart["slave"] \in Seq(Bytes) /\ uart["slave"] # <<>>
  BY DEF ModbusInv, Typed, LineType, Ends, SlaveReads
<1>2. b \in Bytes /\ Tail(uart["slave"]) \in Seq(Bytes)
  BY <1>1, HeadTailProperties
<1>3. U \in [Ends -> Seq(Bytes)] /\ uart' = U
  <2> HIDE DEF b, Bytes
  <2> QED BY <1>2 DEF ModbusInv, Typed, LineType, SlaveReads
<1>4. /\ BufStep("slave")
      /\ wire' \in [Ends -> Seq(Bytes)]
      /\ performed' \in Seq(1..MaxCalls)
  <2>1. \/ Store("slave", b) /\ UNCHANGED <<performed, wire>>
        \/ StoreAscii("slave", b) /\ UNCHANGED <<performed, wire>>
        \/ ResetBuf("slave") /\ UNCHANGED <<performed, wire>>
        \/ \E m : SlaveTask(m)
    BY DEF SlaveReads
  <2>2. wire \in [Ends -> Seq(Bytes)] /\ performed \in Seq(1..MaxCalls) /\ "slave" \in Ends
    BY DEF ModbusInv, Typed, LineType, SlaveType, Ends
  <2> HIDE DEF b
  <2>3. CASE Store("slave", b) /\ UNCHANGED <<performed, wire>>
    BY <1>2, <2>2, <2>3, StoreStep DEF ModbusInv
  <2>4. CASE StoreAscii("slave", b) /\ UNCHANGED <<performed, wire>>
    BY <1>2, <2>2, <2>4, StoreStep DEF ModbusInv
  <2>5. CASE ResetBuf("slave") /\ UNCHANGED <<performed, wire>>
    BY <2>2, <2>5, ResetBufStep DEF ModbusInv
  <2>6. CASE \E m : SlaveTask(m)
    BY <2>6, SlaveTaskStep DEF ModbusInv
  <2> QED BY <2>1, <2>3, <2>4, <2>5, <2>6
<1>5. /\ RTU_TimeoutCtr' \in {RTU_TimeoutCtr, [RTU_TimeoutCtr EXCEPT !["slave"] = Cnts]}
      /\ spc' \in {spc, "check"}
      /\ UNCHANGED <<Mode, RTU_TimeoutEn, RxDoneFlag, masterVars, histVars>>
  BY DEF SlaveReads
<1> HIDE DEF Bytes, NoByte, b, U
<1>6. TimerType'
  <2>1. Cnts \in 0..Cnts
    BY DEF ModbusAssumption
  <2> QED BY <1>5, <2>1 DEF ModbusInv, Typed, TimerType
<1>7. Typed'
  BY <1>3, <1>4, <1>5, <1>6 DEF ModbusInv, Typed, LineType, BufType, BufStep, MasterType,
     AnswerType, SlaveType, HistType, masterVars, histVars
<1> QED
  BY <1>4, <1>5, <1>7 DEF ModbusInv, BufStep, EmptyBeforeWait, NoSignalBeforeByte, StoresByte,
     masterVars, Ends

\* The rest of the slave's loop.
LEMMA SlaveLoopInv ==
    ASSUME ModbusAssumption, ModbusInv, SlaveSleeps \/ SlaveChecks \/ SlaveClears
    PROVE  ModbusInv'
<1> HIDE DEF Bytes, NoByte
<1>1. CASE SlaveSleeps
  <2>1. Typed'
    BY <1>1 DEF ModbusInv, Typed, LineType, BufType, TimerType, MasterType, AnswerType,
       SlaveType, HistType, SlaveSleeps, lineVars, bufVars, timerVars, masterVars, histVars
  <2> QED
    BY <1>1, <2>1 DEF ModbusInv, PointerFollowsCounter, EmptyBeforeWait, NoSignalBeforeByte,
       StoresByte, SlaveSleeps, bufVars, timerVars, masterVars
<1>2. CASE SlaveChecks
  <2>1. /\ BufStep("slave")
        /\ wire' \in [Ends -> Seq(Bytes)]
        /\ performed' \in Seq(1..MaxCalls)
    <3>1. CASE SlaveTask(Received("slave"))
      BY <3>1, SlaveTaskStep DEF ModbusInv
    <3>2. CASE UNCHANGED <<performed, wire, bufVars>>
      BY <3>2 DEF ModbusInv, Typed, LineType, BufType, SlaveType, PointerFollowsCounter,
         bufVars, BufStep
    <3> QED BY <1>2, <3>1, <3>2 DEF SlaveChecks
  <2>2. /\ spc' \in {"read", "clear"}
        /\ UNCHANGED <<Mode, uart, timerVars, RxDoneFlag, masterVars, histVars>>
    BY <1>2 DEF SlaveChecks
  <2>3. Typed'
    BY <2>1, <2>2 DEF ModbusInv, Typed, LineType, BufType, BufStep, TimerType, MasterType,
       AnswerType, SlaveType, HistType, timerVars, masterVars, histVars
  <2> QED
    BY <2>1, <2>2, <2>3 DEF ModbusInv, BufStep, EmptyBeforeWait, NoSignalBeforeByte,
       StoresByte, timerVars, masterVars, Ends
<1>3. CASE SlaveClears
  <2>1. TimerType' /\ RxDoneFlag'["master"] = RxDoneFlag["master"]
    BY <1>3 DEF ModbusInv, Typed, TimerType, Ends, SlaveClears, timerVars
  <2>2. Typed'
    BY <1>3, <2>1 DEF ModbusInv, Typed, LineType, BufType, MasterType, AnswerType, SlaveType,
       HistType, SlaveClears, lineVars, bufVars, masterVars, histVars
  <2> QED
    BY <1>3, <2>1, <2>2 DEF ModbusInv, PointerFollowsCounter, EmptyBeforeWait,
       NoSignalBeforeByte, StoresByte, SlaveClears, bufVars, timerVars, masterVars
<1> QED BY <1>1, <1>2, <1>3

\* Every step keeps ModbusInv.
LEMMA NextModbusInv ==
    ASSUME ModbusAssumption, ModbusInv, [Next]_vars
    PROVE  ModbusInv'
<1>1. CASE UNCHANGED vars
  BY <1>1 DEF vars, lineVars, bufVars, timerVars, masterVars, slaveVars, histVars, ModbusInv,
     Typed, LineType, BufType, TimerType, MasterType, AnswerType, SlaveType, HistType,
     PointerFollowsCounter, EmptyBeforeWait, NoSignalBeforeByte, StoresByte
<1>2. CASE \E kind \in Kinds : Call(kind)
  BY <1>2, CallInv
<1>3. CASE MasterStep
  BY <1>3, FlushInv, WaitInv, WaitReadsInv, WaitStoresInv, WaitTimesOutInv, ReplyInv
     DEF MasterStep, WaitStep
<1>4. CASE Elapse
  BY <1>4, WaitInv
<1>5. CASE SlaveStep
  BY <1>5, SlaveReadsInv, SlaveLoopInv DEF SlaveStep
<1>6. CASE \E n \in Ends : Deliver(n) \/ Lose(n) \/ Tick(n)
  BY <1>6, LineInv, TickModbusInv
<1> QED BY <1>1, <1>2, <1>3, <1>4, <1>5, <1>6 DEF Next

\* ModbusInv holds in every reachable state.
THEOREM ModbusInvariant == Spec => []ModbusInv
<1>1. Init => ModbusInv
  BY ModbusAssumption, InitModbusInv
<1>2. ModbusInv /\ [Next]_vars => ModbusInv'
  BY ModbusAssumption, NextModbusInv
<1> QED BY <1>1, <1>2, PTL DEF Spec

\* Every variable keeps its type: the buffers are never written past their end,
\* and the silence timer never passes 0.
THEOREM ModbusTypeOK == Spec => []TypeOK
<1>1. ModbusInv => TypeOK
  BY TypedIsTypeOK DEF ModbusInv
<1> QED BY <1>1, ModbusInvariant, PTL

\* The next byte always goes behind the bytes counted.
THEOREM PointerAlwaysFollows == Spec => []PointerFollowsCounter
<1>1. ModbusInv => PointerFollowsCounter
  BY DEF ModbusInv
<1> QED BY <1>1, ModbusInvariant, PTL

\* A wait in RTU mode is ended only by a signal of its own bytes.
THEOREM SignalsAreFresh == Spec => []SignalIsFresh
<1>1. ModbusInv => SignalIsFresh
  BY DEF ModbusInv, NoSignalBeforeByte, SignalIsFresh
<1> QED BY <1>1, ModbusInvariant, PTL

-----------------------------------------------------------------------------
(***************************************************************************)
(* The order of the bytes, and the refinement of RemoteCalls.              *)
(***************************************************************************)

\* The order in which the bytes of the requests, or of the answers, are sent.
Less(a, b) == a[1] < b[1] \/ (a[1] = b[1] /\ a[2] < b[2])
Before(S, T) == \A a \in S, b \in T : Less(a, b)
InOrder(s) == \A i, j \in 1..Len(s) : i < j => Less(s[i], s[j])

\* T was taken before the bytes u of the UART, and these come before w on the wire.
Ordered(T, u, w) ==
    /\ InOrder(u) /\ InOrder(w)
    /\ Before(Range(u), Range(w))
    /\ Before(T, Range(u) \cup Range(w))

\* The bytes an end has taken from its UART, and all those on its side of the line.
Stored(n) == {RxBuf[n][i] : i \in 0..(RxBufByteCtr[n] - 1)}
Taken(n) == Stored(n) \cup (IF n = "master" /\ mpc = "store" THEN {rx_byte} ELSE {})
Side(n) == Taken(n) \cup Range(uart[n]) \cup Range(wire[n])

\* The bytes pass an end in the order in which they were sent, each once.
OrderAt(n) == Ordered(Taken(n), uart[n], wire[n])

\* What the slave has performed never comes to it again.
SlaveOnce ==
    \A b \in Side("slave") : /\ b[1] <= Len(sent) /\ b[2] <= FrameSize[Mode]
                             /\ Calls!Later(b[1], performed)

\* What comes to the master is of requests performed, and no answer that it has
\* accepted begins again.
MasterOnce ==
    \A b \in Side("master") : /\ \E i \in 1..Len(performed) : performed[i] = b[1]
                              /\ First(b) => Calls!Later(b[1], accepted)

\* Only requests are performed, and only answers of those are accepted.
PerformedSent == \A i \in 1..Len(performed) : performed[i] \in 1..Len(sent)
AcceptsPerformed ==
    \A i \in 1..Len(accepted) : \E j \in 1..Len(performed) : performed[j] = accepted[i]

OnceInv ==
    /\ \A n \in Ends : OrderAt(n)
    /\ SlaveOnce
    /\ MasterOnce
    /\ PerformedSent
    /\ AcceptsPerformed

\* A byte goes behind a sequence in order, if it comes after all of it.
LEMMA InOrderAppend ==
    ASSUME NEW s \in Seq(Bytes), NEW b \in Bytes, InOrder(s), Before(Range(s), {b})
    PROVE  InOrder(Append(s, b)) /\ Range(Append(s, b)) = Range(s) \cup {b}
<1> HIDE DEF Bytes
<1> DEFINE t == Append(s, b)
<1>1. /\ Len(s) \in Nat /\ Len(t) = Len(s) + 1 /\ DOMAIN s = 1..Len(s) /\ t[Len(s) + 1] = b
      /\ \A i \in 1..Len(s) : t[i] = s[i]
  BY AppendProperties, LenProperties
<1>2. t \in Seq(Bytes)
  BY AppendProperties
<1>3. DOMAIN t = 1..(Len(s) + 1)
  BY <1>1, <1>2, LenProperties
<1> HIDE DEF t
<1>4. Range(t) = Range(s) \cup {b}
  <2>1. \A i \in 1..(Len(s) + 1) : i \in 1..Len(s) \/ i = Len(s) + 1
    BY <1>1
  <2>2. \A i \in 1..Len(s) : i \in 1..(Len(s) + 1)
    BY <1>1
  <2>3. Len(s) + 1 \in 1..(Len(s) + 1)
    BY <1>1
  <2> QED BY <1>1, <1>3, <2>1, <2>2, <2>3 DEF Range
<1>5. InOrder(t)
  <2> SUFFICES ASSUME NEW i \in 1..Len(t), NEW j \in 1..Len(t), i < j PROVE Less(t[i], t[j])
    BY DEF InOrder
  <2>1. CASE j = Len(s) + 1
    <3>1. i \in 1..Len(s)
      BY <1>1, <2>1
    <3>2. t[i] = s[i] /\ t[j] = b /\ s[i] \in Range(s)
      BY <1>1, <2>1, <3>1 DEF Range
    <3> QED BY <3>2 DEF Before
  <2>2. CASE j # Len(s) + 1
    <3>1. i \in 1..Len(s) /\ j \in 1..Len(s)
      BY <1>1, <2>2
    <3> QED BY <1>1, <3>1 DEF InOrder
  <2> QED BY <2>1, <2>2
<1> QED BY <1>4, <1>5 DEF t

\* The head of a sequence in order comes before its tail, which is in order.
LEMMA InOrderTail ==
    ASSUME NEW s \in Seq(Bytes), s # <<>>, InOrder(s)
    PROVE  /\ InOrder(Tail(s)) /\ Range(Tail(s)) \subseteq Range(s)
           /\ Head(s) \in Range(s) /\ Before({Head(s)}, Range(Tail(s)))
<1> HIDE DEF Bytes
<1>1. /\ Len(s) \in Nat \ {0} /\ Len(Tail(s)) = Len(s) - 1 /\ DOMAIN s = 1..Len(s)
      /\ \A i \in 1..Len(Tail(s)) : Tail(s)[i] = s[i + 1]
      /\ Tail(s) \in Seq(Bytes)
  BY HeadTailProperties, LenProperties, EmptySeq
<1>2. DOMAIN Tail(s) = 1..(Len(s) - 1)
  BY <1>1, LenProperties
<1>3. Head(s) = s[1] /\ 1 \in 1..Len(s)
  BY <1>1
<1>4. \A i \in 1..(Len(s) - 1) : Tail(s)[i] = s[i + 1] /\ i + 1 \in 1..Len(s) /\ 1 < i + 1
  BY <1>1
<1>5. Range(Tail(s)) \subseteq Range(s) /\ Head(s) \in Range(s)
  BY <1>1, <1>2, <1>3, <1>4 DEF Range
<1>6. Before({Head(s)}, Range(Tail(s)))
  <2> SUFFICES ASSUME NEW i \in 1..(Len(s) - 1) PROVE Less(s[1], s[i + 1])
    BY <1>2, <1>3, <1>4 DEF Before, Range
  <2> QED BY <1>3, <1>4 DEF InOrder
<1>7. InOrder(Tail(s))
  <2> SUFFICES ASSUME NEW i \in 1..Len(Tail(s)), NEW j \in 1..Len(Tail(s)), i < j
               PROVE  Less(Tail(s)[i], Tail(s)[j])
    BY DEF InOrder
  <2>1. i + 1 \in 1..Len(s) /\ j + 1 \in 1..Len(s) /\ i + 1 < j + 1
    BY <1>1
  <2> QED BY <1>1, <2>1 DEF InOrder
<1> QED BY <1>5, <1>6, <1>7

\* Two sequences in order, one before the other, make one in order.
LEMMA InOrderConcat ==
    ASSUME NEW s \in Seq(Bytes), NEW t \in Seq(Bytes), InOrder(s), InOrder(t),
           Before(Range(s), Range(t))
    PROVE  InOrder(s \o t) /\ Range(s \o t) = Range(s) \cup Range(t)
<1> HIDE DEF Bytes
<1>1. /\ Len(s) \in Nat /\ Len(t) \in Nat /\ Len(s \o t) = Len(s) + Len(t)
      /\ \A i \in 1..(Len(s) + Len(t)) :
           (s \o t)[i] = IF i <= Len(s) THEN s[i] ELSE t[i - Len(s)]
      /\ DOMAIN s = 1..Len(s) /\ DOMAIN t = 1..Len(t)
  BY ConcatProperties, LenProperties
<1>2. Range(s \o t) = Range(s) \cup Range(t)
  BY RangeConcatenation
<1>3. InOrder(s \o t)
  <2> SUFFICES ASSUME NEW i \in 1..(Len(s) + Len(t)), NEW j \in 1..(Len(s) + Len(t)), i < j
               PROVE  Less((s \o t)[i], (s \o t)[j])
    BY <1>1 DEF InOrder
  <2>1. CASE j <= Len(s)
    <3>1. i \in 1..Len(s) /\ j \in 1..Len(s) /\ i <= Len(s)
      BY <1>1, <2>1
    <3> QED BY <1>1, <2>1, <3>1 DEF InOrder
  <2>2. CASE ~(j <= Len(s)) /\ i <= Len(s)
    <3>1. i \in 1..Len(s) /\ j - Len(s) \in 1..Len(t)
      BY <1>1, <2>2
    <3>2. (s \o t)[i] \in Range(s) /\ (s \o t)[j] \in Range(t)
      BY <1>1, <2>2, <3>1 DEF Range
    <3> QED BY <3>2 DEF Before
  <2>3. CASE ~(i <= Len(s))
    <3>1. /\ i - Len(s) \in 1..Len(t) /\ j - Len(s) \in 1..Len(t) /\ ~(j <= Len(s))
          /\ i - Len(s) < j - Len(s)
      BY <1>1, <2>3
    <3> QED BY <1>1, <2>3, <3>1 DEF InOrder
  <2> QED BY <2>1, <2>2, <2>3
<1> QED BY <1>2, <1>3

\* A message is in order, and all of it is of one request.
LEMMA MessageInOrder ==
    ASSUME ModbusAssumption, NEW r \in 1..MaxCalls, NEW f \in Lengths
    PROVE  /\ InOrder(Message(r, f))
           /\ \A b \in Range(Message(r, f)) : b[1] = r /\ b[2] <= f
           /\ <<r, 1>> \in Range(Message(r, f)) /\ <<r, f>> \in Range(Message(r, f))
<1>1. f \in Nat /\ f >= 1 /\ 1 \in 1..f /\ f \in 1..f
  BY DEF ModbusAssumption, Lengths
<1>2. /\ DOMAIN Message(r, f) = 1..f /\ Len(Message(r, f)) = f
      /\ \A i \in 1..f : Message(r, f)[i] = <<r, i>>
  BY MessageBytes
<1>3. InOrder(Message(r, f))
  BY <1>1, <1>2 DEF InOrder, Less
<1> QED BY <1>1, <1>2, <1>3 DEF Range

\* A byte that is delivered, lost or read leaves the rest in order.
LEMMA OrderedPass ==
    ASSUME NEW T, NEW u \in Seq(Bytes), NEW w \in Seq(Bytes), Ordered(T, u, w)
    PROVE  /\ w # <<>> => /\ Ordered(T, Append(u, Head(w)), Tail(w))
                          /\ Ordered(T, u, Tail(w))
                          /\ Range(Append(u, Head(w))) \cup Range(Tail(w))
                               \subseteq Range(u) \cup Range(w)
                          /\ Range(Tail(w)) \subseteq Range(w)
           /\ u # <<>> => /\ Ordered(T \cup {Head(u)}, Tail(u), w)
                          /\ Range(Tail(u)) \subseteq Range(u) /\ Head(u) \in Range(u)
<1> HIDE DEF Bytes
<1>1. ASSUME w # <<>>
      PROVE  /\ Ordered(T, Append(u, Head(w)), Tail(w)) /\ Ordered(T, u, Tail(w))
             /\ Range(Append(u, Head(w))) = Range(u) \cup {Head(w)}
             /\ Range(Tail(w)) \subseteq Range(w) /\ Head(w) \in Range(w)
  <2>1. /\ InOrder(Tail(w)) /\ Range(Tail(w)) \subseteq Range(w)
        /\ Head(w) \in Range(w) /\ Before({Head(w)}, Range(Tail(w)))
    BY <1>1, InOrderTail DEF Ordered
  <2>2. Head(w) \in Bytes
    BY <1>1, HeadTailProperties
  <2>3. Before(Range(u), {Head(w)})
    BY <2>1 DEF Ordered, Before
  <2>4. InOrder(Append(u, Head(w))) /\ Range(Append(u, Head(w))) = Range(u) \cup {Head(w)}
    BY <2>2, <2>3, InOrderAppend DEF Ordered
  <2> HIDE DEF Less
  <2> QED BY <2>1, <2>4 DEF Ordered, Before
<1>2. ASSUME u # <<>>
      PROVE  /\ Ordered(T \cup {Head(u)}, Tail(u), w)
             /\ Range(Tail(u)) \subseteq Range(u) /\ Head(u) \in Range(u)
  <2>1. /\ InOrder(Tail(u)) /\ Range(Tail(u)) \subseteq Range(u)
        /\ Head(u) \in Range(u) /\ Before({Head(u)}, Range(Tail(u)))
    BY <1>2, InOrderTail DEF Ordered
  <2> HIDE DEF Less
  <2> QED BY <2>1 DEF Ordered, Before
<1> QED BY <1>1, <1>2

\* What comes after everything on its way goes behind it.
LEMMA OrderedConcat ==
    ASSUME NEW T, NEW u \in Seq(Bytes), NEW w \in Seq(Bytes), NEW f \in Seq(Bytes),
           Ordered(T, u, w), InOrder(f),
           Before(T, Range(f)), Before(Range(u), Range(f)), Before(Range(w), Range(f))
    PROVE  Ordered(T, u, w \o f)
<1> HIDE DEF Bytes, Less
<1>1. InOrder(w \o f) /\ Range(w \o f) = Range(w) \cup Range(f)
  BY InOrderConcat DEF Ordered
<1> QED BY <1>1 DEF Ordered, Before

\* A message later than everything on its way goes behind it.
LEMMA MessageIsLast ==
    ASSUME ModbusAssumption, NEW r \in 1..MaxCalls, NEW f \in Lengths,
           NEW S, \A b \in S : b[1] < r
    PROVE  /\ Message(r, f) \in Seq(Bytes) /\ InOrder(Message(r, f))
           /\ \A T : T \subseteq S => Before(T, Range(Message(r, f)))
<1>1. /\ Message(r, f) \in Seq(Bytes) /\ InOrder(Message(r, f))
      /\ \A b \in Range(Message(r, f)) : b[1] = r
  BY MessageBytes, MessageInOrder
<1> QED BY <1>1 DEF Before, Less

\* What the operations of a channel do to the bytes stored.
LEMMA StoredBytes ==
    ASSUME ModbusAssumption, ModbusInv, NEW n \in Ends
    PROVE  /\ ResetBuf(n) => Stored(n)' = {} /\ \A e \in Ends \ {n} : Stored(e)' = Stored(e)
           /\ \A b \in Bytes : Store(n, b) \/ StoreAscii(n, b) =>
                /\ Stored(n)' \subseteq Stored(n) \cup {b}
                /\ \A e \in Ends \ {n} : Stored(e)' = Stored(e)
<1> HIDE DEF Bytes, NoByte
<1>1. /\ BufSize \in Nat /\ BufSize >= 1 /\ RxBufPtr[n] = RxBufByteCtr[n]
      /\ RxBufByteCtr[n] \in 0..BufSize /\ RxBufByteCtr \in [Ends -> 0..BufSize]
      /\ RxBuf \in [Ends -> [0..(BufSize - 1) -> Bytes \cup {NoByte}]]
  BY DEF ModbusAssumption, Modes, ModbusInv, Typed, BufType, PointerFollowsCounter
<1>2. ASSUME ResetBuf(n)
      PROVE  Stored(n)' = {} /\ \A e \in Ends \ {n} : Stored(e)' = Stored(e)
  <2>1. RxBufByteCtr'[n] = 0
    BY <1>1, <1>2 DEF ResetBuf
  <2>2. 0..(RxBufByteCtr'[n] - 1) = {}
    BY <2>1
  <2>3. \A e \in Ends \ {n} : RxBuf'[e] = RxBuf[e] /\ RxBufByteCtr'[e] = RxBufByteCtr[e]
    BY <1>1, <1>2 DEF ResetBuf
  <2> QED BY <2>2, <2>3 DEF Stored
<1>3. ASSUME NEW b \in Bytes, Store(n, b)
      PROVE  /\ Stored(n)' \subseteq Stored(n) \cup {b}
             /\ \A e \in Ends \ {n} : Stored(e)' = Stored(e)
  <2>1. CASE RxBufByteCtr[n] < BufSize
    <3>1. /\ RxBufByteCtr'[n] = RxBufByteCtr[n] + 1
          /\ \A e \in Ends \ {n} : RxBuf'[e] = RxBuf[e] /\ RxBufByteCtr'[e] = RxBufByteCtr[e]
      BY <1>1, <1>3, <2>1 DEF Store
    <3>2. RxBuf'[n] = [RxBuf[n] EXCEPT ![RxBufByteCtr[n]] = b]
      BY <1>1, <1>3, <2>1 DEF Store
    <3>3. \A i \in 0..RxBufByteCtr[n] :
            RxBuf'[n][i] = IF i = RxBufByteCtr[n] THEN b ELSE RxBuf[n][i]
      <4>1. \A i \in 0..RxBufByteCtr[n] : i \in 0..(BufSize - 1)
        BY <1>1, <2>1
      <4>2. RxBuf[n] \in [0..(BufSize - 1) -> Bytes \cup {NoByte}]
        BY <1>1
      <4> QED BY <3>2, <4>1, <4>2
    <3>4. \A i \in 0..RxBufByteCtr[n] : i # RxBufByteCtr[n] => i \in 0..(RxBufByteCtr[n] - 1)
      BY <1>1
    <3>5. RxBufByteCtr'[n] - 1 = RxBufByteCtr[n]
      BY <1>1, <3>1
    <3> QED BY <3>1, <3>3, <3>4, <3>5 DEF Stored
  <2>2. CASE ~(RxBufByteCtr[n] < BufSize)
    BY <1>3, <2>2 DEF Store, bufVars, Stored
  <2> QED BY <2>1, <2>2
<1>4. ASSUME NEW b \in Bytes, StoreAscii(n, b), First(b)
      PROVE  /\ Stored(n)' \subseteq Stored(n) \cup {b}
             /\ \A e \in Ends \ {n} : Stored(e)' = Stored(e)
  <2>1. /\ RxBufByteCtr'[n] = 1 /\ RxBuf'[n] = [EmptyBuf EXCEPT ![0] = b]
        /\ \A e \in Ends \ {n} : RxBuf'[e] = RxBuf[e] /\ RxBufByteCtr'[e] = RxBufByteCtr[e]
    BY <1>1, <1>4 DEF StoreAscii
  <2>2. RxBuf'[n][0] = b /\ 0..(RxBufByteCtr'[n] - 1) = {0}
    BY <1>1, <2>1 DEF EmptyBuf
  <2> QED BY <2>1, <2>2 DEF Stored
<1> QED BY <1>2, <1>3, <1>4 DEF StoreAscii

\* The requests, their answers and what was accepted of them stay as they are,
\* and no byte is added on either side.
Passes ==
    /\ \A n \in Ends : OrderAt(n)' /\ Side(n)' \subseteq Side(n)
    /\ UNCHANGED <<Mode, sent, performed, accepted>>

\* Such a step keeps OnceInv.
LEMMA PassesOnce ==
    ASSUME OnceInv, Passes
    PROVE  OnceInv'
<1>1. /\ Side("slave")' \subseteq Side("slave") /\ Side("master")' \subseteq Side("master")
      /\ Mode' = Mode /\ sent' = sent /\ performed' = performed /\ accepted' = accepted
  BY DEF Passes, Ends
<1>2. SlaveOnce'
  BY <1>1 DEF OnceInv, SlaveOnce
<1>3. MasterOnce'
  BY <1>1 DEF OnceInv, MasterOnce
<1>4. PerformedSent' /\ AcceptsPerformed'
  BY <1>1 DEF OnceInv, PerformedSent, AcceptsPerformed
<1> QED BY <1>2, <1>3, <1>4 DEF OnceInv, Passes

\* A step that takes nothing from the line is such a step.
LEMMA TakenShrinks ==
    ASSUME OnceInv, \A n \in Ends : Taken(n)' \subseteq Taken(n),
           UNCHANGED <<Mode, lineVars, sent, performed, accepted>>
    PROVE  Passes
<1> SUFFICES ASSUME NEW n \in Ends PROVE OrderAt(n)' /\ Side(n)' \subseteq Side(n)
  BY DEF Passes
<1>1. uart' = uart /\ wire' = wire /\ Taken(n)' \subseteq Taken(n)
  BY DEF lineVars
<1>2. Ordered(Taken(n), uart[n], wire[n])
  BY DEF OnceInv, OrderAt
<1> HIDE DEF Less, Taken
<1> QED BY <1>1, <1>2 DEF OrderAt, Ordered, Before, Side

\* The line passes the bytes on, or loses some.
LEMMA LinePasses ==
    ASSUME ModbusAssumption, ModbusInv, OnceInv, NEW n \in Ends, Deliver(n) \/ Lose(n)
    PROVE  Passes
<1> HIDE DEF Bytes, Less
<1>1. /\ uart \in [Ends -> Seq(Bytes)] /\ wire \in [Ends -> Seq(Bytes)] /\ wire[n] # <<>>
      /\ wire' = [wire EXCEPT ![n] = Tail(wire[n])]
      /\ uart' = uart \/ uart' = [uart EXCEPT ![n] = Append(uart[n], Head(wire[n]))]
      /\ UNCHANGED <<Mode, bufVars, sent, performed, accepted, mpc, rx_byte>>
  BY DEF Deliver, Lose, ModbusInv, Typed, LineType, masterVars, slaveVars
<1>2. \A e \in Ends : Taken(e)' = Taken(e)
  BY <1>1 DEF Taken, Stored, bufVars
<1>3. /\ Ordered(Taken(n), uart[n], wire[n])
      /\ uart[n] \in Seq(Bytes) /\ wire[n] \in Seq(Bytes) /\ wire[n] # <<>>
  BY <1>1 DEF OnceInv, OrderAt
<1>4. /\ Ordered(Taken(n), Append(uart[n], Head(wire[n])), Tail(wire[n]))
      /\ Ordered(Taken(n), uart[n], Tail(wire[n]))
      /\ Range(Append(uart[n], Head(wire[n]))) \cup Range(Tail(wire[n]))
           \subseteq Range(uart[n]) \cup Range(wire[n])
      /\ Range(Tail(wire[n])) \subseteq Range(wire[n])
  BY <1>3, OrderedPass
<1>5. OrderAt(n)' /\ Side(n)' \subseteq Side(n)
  <2>1. wire'[n] = Tail(wire[n]) /\ Taken(n)' = Taken(n)
    BY <1>1, <1>2
  <2>2. uart'[n] \in {uart[n], Append(uart[n], Head(wire[n]))}
    BY <1>1
  <2> HIDE DEF Taken, Ordered
  <2> QED BY <1>4, <2>1, <2>2 DEF OrderAt, Side
<1>6. ASSUME NEW e \in Ends \ {n} PROVE OrderAt(e)' /\ Side(e)' \subseteq Side(e)
  <2>1. uart'[e] = uart[e] /\ wire'[e] = wire[e]
    BY <1>1
  <2>2. OrderAt(e)
    BY DEF OnceInv
  <2> QED BY <1>2, <2>1, <2>2 DEF OrderAt, Side
<1> QED BY <1>1, <1>5, <1>6 DEF Passes

\* The steps that read no byte and send none.
LEMMA QuietPasses ==
    ASSUME ModbusAssumption, ModbusInv, OnceInv,
           \/ UNCHANGED vars
           \/ Flush \/ WaitBegins \/ WaitTests \/ WaitSleeps \/ Elapse \/ WaitTimesOut
           \/ SlaveSleeps \/ SlaveClears
           \/ \E n \in Ends : Tick(n)
    PROVE  Passes
<1>1. UNCHANGED <<Mode, lineVars, sent, performed, accepted>>
  BY DEF vars, Flush, WaitBegins, WaitTests, WaitSleeps, Elapse, WaitTimesOut, SlaveSleeps,
     SlaveClears, Tick, masterVars, slaveVars
<1>2. ASSUME UNCHANGED bufVars, mpc' # "store" \/ UNCHANGED <<mpc, rx_byte>>
      PROVE  \A n \in Ends : Taken(n)' \subseteq Taken(n)
  BY <1>2 DEF Taken, Stored, bufVars
<1>3. CASE UNCHANGED vars
  BY <1>1, <1>2, <1>3, TakenShrinks DEF vars, masterVars
<1>4. CASE WaitBegins \/ WaitTests \/ WaitSleeps \/ Elapse
  <2>1. UNCHANGED bufVars /\ (mpc' # "store" \/ UNCHANGED <<mpc, rx_byte>>)
    BY <1>4 DEF WaitBegins, WaitTests, WaitSleeps, Elapse
  <2> QED BY <1>1, <1>2, <2>1, TakenShrinks
<1>5. CASE SlaveSleeps \/ SlaveClears \/ \E n \in Ends : Tick(n)
  <2>1. UNCHANGED bufVars /\ UNCHANGED <<mpc, rx_byte>>
    BY <1>5 DEF SlaveSleeps, SlaveClears, Tick, masterVars
  <2> QED BY <1>1, <1>2, <2>1, TakenShrinks
<1>6. CASE Flush
  <2>1. RxBufByteCtr' = RxBufByteCtr
    BY <1>6 DEF ModbusInv, Typed, BufType, EmptyBeforeWait, Flush
  <2>2. \A n \in Ends : Taken(n)' \subseteq Taken(n)
    BY <1>6, <2>1 DEF Flush, Taken, Stored
  <2> QED BY <1>1, <2>2, TakenShrinks
<1>7. CASE WaitTimesOut
  <2>1. CASE UNCHANGED bufVars
    <3>1. mpc' # "store"
      BY <1>7 DEF WaitTimesOut, Return
    <3> QED BY <1>1, <1>2, <2>1, <3>1, TakenShrinks
  <2>2. CASE ResetBuf("master") /\ mpc' = "idle"
    <3>1. \A n \in Ends : Stored(n)' \subseteq Stored(n)
      BY <2>2, StoredBytes DEF Ends
    <3>2. \A n \in Ends : Taken(n)' \subseteq Taken(n)
      BY <2>2, <3>1 DEF Taken
    <3> QED BY <1>1, <3>2, TakenShrinks
  <2> QED BY <1>7, <2>1, <2>2 DEF WaitTimesOut, Return
<1> QED BY <1>3, <1>4, <1>5, <1>6, <1>7

\* The master reads a byte from its UART, and stores it.
LEMMA MasterBytePasses ==
    ASSUME ModbusAssumption, ModbusInv, OnceInv, WaitReads \/ WaitStores
    PROVE  Passes
<1> HIDE DEF Bytes, NoByte, Less
<1>1. uart \in [Ends -> Seq(Bytes)] /\ wire \in [Ends -> Seq(Bytes)]
  BY DEF ModbusInv, Typed, LineType
<1>2. CASE WaitReads
  <2> DEFINE u == uart["master"]
  <2>1. /\ u # <<>> /\ rx_byte' = Head(u) /\ uart' = [uart EXCEPT !["master"] = Tail(u)]
        /\ mpc = "read" /\ mpc' = "store"
        /\ UNCHANGED <<Mode, wire, bufVars, sent, performed, accepted>>
    BY <1>2 DEF WaitReads, slaveVars
  <2>2. Ordered(Taken("master"), u, wire["master"]) /\ u \in Seq(Bytes)
        /\ wire["master"] \in Seq(Bytes)
    BY <1>1 DEF OnceInv, OrderAt, Ends
  <2>3. /\ Ordered(Taken("master") \cup {Head(u)}, Tail(u), wire["master"])
        /\ Range(Tail(u)) \subseteq Range(u) /\ Head(u) \in Range(u)
    BY <2>1, <2>2, OrderedPass
  <2>4. Taken("master")' = Taken("master") \cup {Head(u)} /\ Taken("slave")' = Taken("slave")
    BY <2>1 DEF Taken, Stored, bufVars
  <2>5. uart'["master"] = Tail(u) /\ uart'["slave"] = uart["slave"]
    BY <1>1, <2>1 DEF Ends
  <2> HIDE DEF Taken
  <2>6. OrderAt("master")' /\ Side("master")' \subseteq Side("master")
    BY <2>1, <2>3, <2>4, <2>5 DEF OrderAt, Side
  <2>7. OrderAt("slave")' /\ Side("slave")' \subseteq Side("slave")
    BY <2>1, <2>4, <2>5 DEF OnceInv, OrderAt, Side, Ends
  <2> QED BY <2>1, <2>6, <2>7 DEF Passes, Ends
<1>3. CASE WaitStores
  <2>1. /\ Store("master", rx_byte) \/ StoreAscii("master", rx_byte)
        /\ mpc = "store" /\ mpc' = "test"
        /\ UNCHANGED <<Mode, lineVars, sent, performed, accepted>>
    BY <1>3 DEF WaitStores, slaveVars
  <2>2. rx_byte \in Bytes /\ "master" \in Ends /\ "slave" \in Ends \ {"master"}
    BY <2>1 DEF ModbusInv, StoresByte, Ends
  <2>3. Stored("master")' \subseteq Stored("master") \cup {rx_byte}
        /\ Stored("slave")' = Stored("slave")
    BY <2>1, <2>2, StoredBytes
  <2>4. \A n \in Ends : Taken(n)' \subseteq Taken(n)
    BY <2>1, <2>3 DEF Taken, Ends
  <2> QED BY <2>1, <2>4, TakenShrinks
<1> QED BY <1>2, <1>3

\* The bytes of a side are pairs of numbers.
LEMMA SideNumbers ==
    ASSUME ModbusAssumption, ModbusInv, NEW n \in Ends, NEW b \in Side(n)
    PROVE  /\ b[1] \in Nat /\ b[2] \in Nat
           /\ b \in Range(uart[n]) \cup Range(wire[n]) => b \in Bytes
<1>1. /\ uart[n] \in Seq(Bytes) /\ wire[n] \in Seq(Bytes)
      /\ RxBuf[n] \in [0..(BufSize - 1) -> Bytes \cup {NoByte}]
      /\ RxBufByteCtr[n] \in 0..BufSize /\ rx_byte \in Bytes \cup {NoByte} /\ BufSize \in Nat
  BY DEF ModbusInv, Typed, LineType, BufType, MasterType, ModbusAssumption
<1>2. Range(uart[n]) \subseteq Bytes /\ Range(wire[n]) \subseteq Bytes
  <2> HIDE DEF Bytes
  <2> QED BY <1>1, RangeOfSeq
<1>3. Stored(n) \subseteq Bytes \cup {NoByte}
  <2>1. \A i \in 0..(RxBufByteCtr[n] - 1) : i \in 0..(BufSize - 1)
    BY <1>1
  <2> HIDE DEF Bytes, NoByte
  <2> QED BY <1>1, <2>1 DEF Stored
<1>4. b \in Bytes \cup {NoByte}
  <2> HIDE DEF Bytes, NoByte
  <2> QED BY <1>1, <1>2, <1>3 DEF Side, Taken
<1>5. BufSize \in Nat /\ MaxCalls \in Nat
  BY DEF ModbusAssumption
<1>6. b[1] \in Nat /\ b[2] \in Nat
  BY <1>4, <1>5 DEF Bytes, NoByte
<1> HIDE DEF Bytes
<1> QED BY <1>2, <1>6

\* A new request is later than everything sent before.
LEMMA CallOnce ==
    ASSUME ModbusAssumption, ModbusInv, OnceInv, NEW kind \in Kinds, Call(kind)
    PROVE  OnceInv' /\ Calls!Issue
<1> DEFINE r == Len(sent) + 1
           w == wire["slave"]
<1>0. PICK f \in Lengths : f = FrameSize[Mode]
  BY SizeIsLength DEF ModbusInv
<1> HIDE DEF Bytes, NoByte, Less
<1>1. /\ Len(sent) \in Nat /\ Len(sent) < MaxCalls /\ MaxCalls \in Nat /\ sent \in Seq(Kinds)
      /\ uart \in [Ends -> Seq(Bytes)] /\ wire \in [Ends -> Seq(Bytes)]
  BY LenProperties DEF ModbusInv, Typed, MasterType, LineType, ModbusAssumption, Call
<1>2. /\ Len(sent') = r /\ r \in 1..MaxCalls /\ r \in Nat
      /\ wire' = [wire EXCEPT !["slave"] = w \o Message(r, f)] /\ mpc = "idle" /\ mpc' = "flush"
      /\ UNCHANGED <<Mode, uart, bufVars, performed, accepted>>
  BY <1>0, <1>1, AppendProperties DEF Call, Request, slaveVars
<1>3. \A n \in Ends : Taken(n)' = Taken(n)
  BY <1>2 DEF Taken, Stored, bufVars
<1>4. \A b \in Side("slave") : /\ b[1] <= Len(sent) /\ b[2] <= f
                                /\ Calls!Later(b[1], performed)
  BY <1>0 DEF OnceInv, SlaveOnce
<1>5. \A i \in 1..Len(performed) : performed[i] \in 1..Len(sent) /\ performed[i] < r
  BY <1>1 DEF OnceInv, PerformedSent
<1>6. \A b \in Side("slave") : b[1] < r /\ b[1] <= r
  <2> SUFFICES ASSUME NEW b \in Side("slave") PROVE b[1] < r /\ b[1] <= r
    OBVIOUS
  <2>1. b[1] \in Nat
    BY SideNumbers DEF Ends
  <2> QED BY <1>1, <1>4, <2>1
<1>7. /\ Ordered(Taken("slave"), uart["slave"], w \o Message(r, f))
      /\ Range(w \o Message(r, f)) = Range(w) \cup Range(Message(r, f))
  <2>1. /\ Ordered(Taken("slave"), uart["slave"], w)
        /\ uart["slave"] \in Seq(Bytes) /\ w \in Seq(Bytes)
    BY <1>1 DEF OnceInv, OrderAt, Ends
  <2>2. \A b \in Taken("slave") \cup Range(uart["slave"]) \cup Range(w) : b[1] < r
    BY <1>6 DEF Side
  <2>3. r \in 1..MaxCalls
    BY <1>2
  <2> HIDE DEF r, w
  <2>4. /\ Message(r, f) \in Seq(Bytes) /\ InOrder(Message(r, f))
        /\ Before(Taken("slave"), Range(Message(r, f)))
        /\ Before(Range(uart["slave"]), Range(Message(r, f)))
        /\ Before(Range(w), Range(Message(r, f)))
    BY <2>2, <2>3, MessageIsLast
  <2> QED BY <2>1, <2>4, OrderedConcat, RangeConcatenation
<1>8. /\ wire'["slave"] = w \o Message(r, f) /\ wire'["master"] = wire["master"]
      /\ uart'["slave"] = uart["slave"] /\ uart'["master"] = uart["master"]
  BY <1>1, <1>2 DEF Ends
<1> HIDE DEF w, r
<1>9. /\ Side("slave")' = Side("slave") \cup Range(Message(r, f))
      /\ Side("master")' = Side("master")
  BY <1>3, <1>7, <1>8 DEF Side, Ends, w
<1>10. \A n \in Ends : OrderAt(n)'
  BY <1>3, <1>7, <1>8 DEF OrderAt, OnceInv, Ends
<1>11. SlaveOnce'
  <2>1. \A b \in Range(Message(r, f)) : b[1] = r /\ b[2] <= f
    BY <1>2, MessageInOrder
  <2>2. Calls!Later(r, performed)
    BY <1>5 DEF Calls!Later
  <2>3. \A b \in Side("slave")' : /\ b[1] <= r /\ b[2] <= f
                                   /\ Calls!Later(b[1], performed)
    BY <1>2, <1>4, <1>6, <1>9, <2>1, <2>2
  <2>4. FrameSize[Mode]' = f
    BY <1>0, <1>2
  <2> QED BY <1>2, <2>3, <2>4 DEF SlaveOnce
<1>12. MasterOnce'
  BY <1>2, <1>9 DEF OnceInv, MasterOnce
<1>13. PerformedSent' /\ AcceptsPerformed'
  <2>1. \A i \in 1..Len(performed) : performed[i] \in 1..r
    BY <1>1, <1>5 DEF r
  <2> QED BY <1>2, <2>1 DEF OnceInv, PerformedSent, AcceptsPerformed
<1>14. Calls!Issue
  BY <1>2 DEF Calls!Issue, r
<1> QED BY <1>10, <1>11, <1>12, <1>13, <1>14 DEF OnceInv

\* The slave's task performs a request that is later than all it has performed,
\* and answers it behind all its earlier answers; the rest of its side comes later.
LEMMA SlaveTaskOnce ==
    ASSUME ModbusAssumption, ModbusInv, OnceInv, NEW m, SlaveTask(m), DOMAIN m = 1..Len(m),
           UNCHANGED <<Mode, sent, accepted, mpc, rx_byte>>,
           uart'["master"] = uart["master"], Range(m) \subseteq Side("slave"),
           Range(uart'["slave"]) \subseteq Range(uart["slave"]),
           Before(Range(m), Range(uart'["slave"]) \cup Range(wire["slave"])),
           InOrder(uart'["slave"])
    PROVE  OnceInv' /\ (Calls!Perform \/ UNCHANGED Calls!vars)
<1> DEFINE r == m[1][1]
           Rest == Range(uart'["slave"]) \cup Range(wire["slave"])
<1> HIDE DEF Bytes, NoByte, Less
<1>0. PICK f \in Lengths : f = FrameSize[Mode] /\ f = FrameSize[Mode]' /\ f \in Nat
  BY SizeIsLength DEF ModbusInv, Lengths, ModbusAssumption
<1>1. /\ performed \in Seq(1..MaxCalls) /\ wire \in [Ends -> Seq(Bytes)]
      /\ uart \in [Ends -> Seq(Bytes)] /\ "master" \in Ends /\ "slave" \in Ends
  BY DEF ModbusInv, Typed, LineType, SlaveType, Ends
<1>2. /\ Stored("slave")' = {} /\ Stored("master")' = Stored("master")
      /\ Taken("slave")' = {} /\ Taken("master")' = Taken("master")
  <2>1. Stored("slave")' = {} /\ Stored("master")' = Stored("master")
    BY <1>1, StoredBytes DEF SlaveTask, Ends
  <2> QED BY <2>1 DEF Taken
<1>3. wire'["slave"] = wire["slave"]
  BY <1>1 DEF SlaveTask
<1>4. OrderAt("slave")' /\ Side("slave")' = Rest /\ Rest \subseteq Side("slave")
  BY <1>1, <1>2, <1>3 DEF OrderAt, Ordered, OnceInv, Side, Before
<1>5. /\ \A b \in Rest : /\ b[1] \in Nat /\ b[2] \in Nat /\ b \in Bytes
                         /\ b[1] <= Len(sent) /\ b[2] <= f /\ Calls!Later(b[1], performed)
  <2>1. \A b \in Rest : b \in Side("slave") /\ b \in Range(uart["slave"]) \cup Range(wire["slave"])
    BY <1>4
  <2> HIDE DEF Rest
  <2> QED BY <1>0, <1>1, <2>1, SideNumbers DEF OnceInv, SlaveOnce
<1>6. CASE ~Sound(m)
  <2>1. UNCHANGED <<performed, wire>>
    BY <1>6 DEF SlaveTask
  <2>2. SlaveOnce'
    BY <1>0, <1>4, <1>5, <2>1 DEF SlaveOnce
  <2>3. Side("master")' = Side("master") /\ OrderAt("master")'
    BY <1>1, <1>2, <2>1 DEF Side, OrderAt, OnceInv
  <2>4. MasterOnce' /\ PerformedSent' /\ AcceptsPerformed'
    BY <2>1, <2>3 DEF OnceInv, MasterOnce, PerformedSent, AcceptsPerformed
  <2> QED BY <1>4, <2>1, <2>2, <2>3, <2>4 DEF OnceInv, Ends, Calls!vars
<1>7. CASE Sound(m)
  <2>1. r \in 1..MaxCalls /\ r \in 1..Len(sent) /\ m = Message(r, f) /\ r \in Nat
    <3>1. PICK q \in 1..Len(sent) : m = Message(q, f)
      BY <1>0, <1>7 DEF Sound, Request
    <3>2. r \in 1..MaxCalls /\ r \in 1..Len(sent) /\ MaxCalls \in Nat
      BY <1>7, SoundIsSent DEF ModbusInv, ModbusAssumption
    <3>3. q \in 1..MaxCalls
      BY <3>1, LenProperties DEF ModbusInv, Typed, MasterType, ModbusAssumption
    <3>4. m[1] = <<q, 1>>
      BY <3>1, <3>3, MessageBytes
    <3> QED BY <3>1, <3>2, <3>4
  <2>2. <<r, 1>> \in Range(m) /\ <<r, f>> \in Range(m)
    BY <2>1, MessageInOrder
  <2>3. Calls!Later(r, performed)
    BY <2>2 DEF OnceInv, SlaveOnce
  <2>4. \A b \in Rest : r < b[1]
    <3> SUFFICES ASSUME NEW b \in Rest PROVE r < b[1]
      OBVIOUS
    <3>1. Less(<<r, f>>, b)
      BY <2>2 DEF Before
    <3>2. b[1] \in Nat /\ b[2] \in Nat /\ b[2] <= f
      BY <1>5
    <3> QED BY <1>0, <2>1, <3>1, <3>2 DEF Less
  <2>5. /\ performed' = IF Performs(sent[r]) THEN Append(performed, r) ELSE performed
        /\ wire' = IF Answers(sent[r]) THEN [wire EXCEPT !["master"] = @ \o Answer(r)] ELSE wire
    BY <1>7 DEF SlaveTask
  <2> HIDE DEF r, Rest
  <2>a. PICK g \in Lengths : Answer(r) = Message(r, g)
    BY SizeIsLength DEF ModbusInv, Answer
  <2>6. /\ Len(performed) \in Nat /\ Len(Append(performed, r)) = Len(performed) + 1
        /\ \A i \in 1..Len(performed) : Append(performed, r)[i] = performed[i]
        /\ Append(performed, r)[Len(performed) + 1] = r
    BY <1>1, <2>1, AppendProperties, LenProperties
  <2>7. CASE ~Performs(sent[r])
    <3>1. UNCHANGED <<performed, wire>>
      BY <2>5, <2>7 DEF Performs, Answers
    <3>2. SlaveOnce'
      BY <1>0, <1>4, <1>5, <3>1 DEF SlaveOnce
    <3>3. Side("master")' = Side("master") /\ OrderAt("master")'
      BY <1>1, <1>2, <3>1 DEF Side, OrderAt, OnceInv
    <3>4. MasterOnce' /\ PerformedSent' /\ AcceptsPerformed'
      BY <3>1, <3>3 DEF OnceInv, MasterOnce, PerformedSent, AcceptsPerformed
    <3> QED BY <1>4, <3>1, <3>2, <3>3, <3>4 DEF OnceInv, Ends, Calls!vars
  <2>8. CASE Performs(sent[r])
    <3>1. /\ Len(performed') = Len(performed) + 1 /\ performed'[Len(performed) + 1] = r
          /\ \A i \in 1..Len(performed) : performed'[i] = performed[i]
          /\ \A i \in 1..Len(performed') : i \in 1..Len(performed) \/ i = Len(performed) + 1
          /\ \A i \in 1..Len(performed) : i \in 1..Len(performed')
          /\ Len(performed) + 1 \in 1..Len(performed')
      BY <2>5, <2>6, <2>8
    <3>2. SlaveOnce'
      <4>1. ASSUME NEW b \in Rest, NEW i \in 1..Len(performed') PROVE performed'[i] < b[1]
        BY <1>5, <2>4, <3>1 DEF Calls!Later
      <4>2. \A b \in Rest : b[1] <= Len(sent) /\ b[2] <= f /\ Calls!Later(b[1], performed')
        BY <1>5, <4>1 DEF Calls!Later
      <4> QED BY <1>0, <1>4, <4>2 DEF SlaveOnce
    <3>3. PerformedSent' /\ AcceptsPerformed'
      BY <2>1, <3>1 DEF OnceInv, PerformedSent, AcceptsPerformed
    <3>4. \A b \in Side("master") : b[1] < r
      <4> SUFFICES ASSUME NEW b \in Side("master") PROVE b[1] < r
        OBVIOUS
      <4>1. PICK i \in 1..Len(performed) : performed[i] = b[1]
        BY DEF OnceInv, MasterOnce
      <4> QED BY <2>3, <4>1 DEF Calls!Later
    <3>5. /\ OrderAt("master")'
          /\ Side("master")' \subseteq Side("master") \cup Range(Message(r, g))
      <4> DEFINE w == wire["master"]
      <4>1. wire'["master"] \in {w, w \o Message(r, g)}
        BY <1>1, <2>5, <2>a
      <4>2. /\ Ordered(Taken("master"), uart["master"], w)
            /\ uart["master"] \in Seq(Bytes) /\ w \in Seq(Bytes)
        BY <1>1 DEF OnceInv, OrderAt
      <4>3. \A b \in Taken("master") \cup Range(uart["master"]) \cup Range(w) : b[1] < r
        BY <3>4 DEF Side
      <4> HIDE DEF w
      <4>4. /\ Ordered(Taken("master"), uart["master"], w \o Message(r, g))
            /\ Range(w \o Message(r, g)) = Range(w) \cup Range(Message(r, g))
        <5>1. /\ Message(r, g) \in Seq(Bytes) /\ InOrder(Message(r, g))
              /\ Before(Taken("master"), Range(Message(r, g)))
              /\ Before(Range(uart["master"]), Range(Message(r, g)))
              /\ Before(Range(w), Range(Message(r, g)))
          BY <2>1, <4>3, MessageIsLast
        <5> QED BY <4>2, <5>1, OrderedConcat, RangeConcatenation
      <4>5. OrderAt("master")'
        BY <1>2, <4>1, <4>2, <4>4 DEF OrderAt
      <4>6. Side("master") = Taken("master") \cup Range(uart["master"]) \cup Range(w)
            /\ Side("master")' = Taken("master") \cup Range(uart["master"]) \cup Range(wire'["master"])
        BY <1>2 DEF Side, w
      <4> QED BY <4>1, <4>4, <4>5, <4>6
    <3>6. Calls!Later(r, accepted)
      <4> SUFFICES ASSUME NEW i \in 1..Len(accepted) PROVE accepted[i] < r
        BY DEF Calls!Later
      <4>1. PICK j \in 1..Len(performed) : performed[j] = accepted[i]
        BY DEF OnceInv, AcceptsPerformed
      <4> QED BY <2>3, <4>1 DEF Calls!Later
    <3>7. MasterOnce'
      <4> SUFFICES ASSUME NEW b \in Side("master")'
                   PROVE  /\ \E i \in 1..Len(performed') : performed'[i] = b[1]
                          /\ First(b) => Calls!Later(b[1], accepted)
        BY DEF MasterOnce
      <4>1. CASE b \in Side("master")
        BY <3>1, <4>1 DEF OnceInv, MasterOnce
      <4>2. CASE b \in Range(Message(r, g))
        <5>1. b[1] = r
          BY <2>1, <4>2, MessageInOrder
        <5> QED BY <3>1, <3>6, <5>1
      <4> QED BY <3>5, <4>1, <4>2
    <3>8. Calls!Perform
      BY <2>1, <2>3, <2>5, <2>8 DEF Calls!Perform
    <3> QED BY <1>4, <3>2, <3>3, <3>5, <3>7, <3>8 DEF OnceInv, Ends
  <2> QED BY <2>7, <2>8
<1> QED BY <1>6, <1>7

\* What has been received is what is stored.
LEMMA ReceivedIsStored ==
    ASSUME ModbusAssumption, ModbusInv, NEW n \in Ends
    PROVE  /\ Received(n) \in Seq(Bytes \cup {NoByte}) /\ Len(Received(n)) = RxBufByteCtr[n]
           /\ DOMAIN Received(n) = 1..Len(Received(n))
           /\ Range(Received(n)) = Stored(n)
           /\ \A i \in 1..RxBufByteCtr[n] : Received(n)[i] = RxBuf[n][i - 1]
<1> DEFINE c == RxBufByteCtr[n]
<1>1. /\ RxBuf[n] \in [0..(BufSize - 1) -> Bytes \cup {NoByte}]
      /\ c \in 0..BufSize /\ BufSize \in Nat /\ c \in Nat
  BY DEF ModbusInv, Typed, BufType, ModbusAssumption
<1>2. Received(n) = [i \in 1..c |-> RxBuf[n][i - 1]]
  BY DEF Received
<1> HIDE DEF c, Bytes, NoByte
<1>3. \A i \in 1..c : i - 1 \in 0..(BufSize - 1)
  BY <1>1
<1>4. Received(n) \in [1..c -> Bytes \cup {NoByte}]
  BY <1>1, <1>2, <1>3
<1>5. Received(n) \in Seq(Bytes \cup {NoByte})
  BY <1>1, <1>4, SeqDef
<1>6. Len(Received(n)) = c /\ DOMAIN Received(n) = 1..c
  BY <1>1, <1>2, <1>4, <1>5, LenProperties
<1>7. Range(Received(n)) = Stored(n)
  <2>1. \A i \in 1..c : i - 1 \in 0..(c - 1)
    BY <1>1
  <2>2. \A i \in 0..(c - 1) : i + 1 \in 1..c /\ (i + 1) - 1 = i
    BY <1>1
  <2>3. \A i \in 1..c : Received(n)[i] = RxBuf[n][i - 1]
    BY <1>2
  <2>4. Range(Received(n)) = {Received(n)[i] : i \in 1..c}
    BY <1>6 DEF Range
  <2>5. Stored(n) = {RxBuf[n][i] : i \in 0..(c - 1)}
    BY DEF Stored, c
  <2>6. \A x \in Range(Received(n)) : x \in Stored(n)
    BY <2>1, <2>3, <2>4, <2>5
  <2>7. \A x \in Stored(n) : x \in Range(Received(n))
    <3> SUFFICES ASSUME NEW i \in 0..(c - 1) PROVE RxBuf[n][i] \in Range(Received(n))
      BY <2>5
    <3>1. Received(n)[i + 1] = RxBuf[n][i]
      BY <2>2, <2>3
    <3> QED BY <2>2, <2>4, <3>1
  <2> QED BY <2>6, <2>7
<1> QED BY <1>2, <1>5, <1>6, <1>7 DEF c

\* The slave's loop handles what it has received, at the end of the silence.
LEMMA SlaveChecksOnce ==
    ASSUME ModbusAssumption, ModbusInv, OnceInv, SlaveChecks
    PROVE  OnceInv' /\ (Calls!Perform \/ UNCHANGED Calls!vars)
<1>1. UNCHANGED <<Mode, uart, sent, accepted, mpc, rx_byte>>
  BY DEF SlaveChecks, masterVars
<1>2. CASE UNCHANGED <<performed, wire, bufVars>>
  <2>1. \A n \in Ends : Taken(n)' \subseteq Taken(n)
    BY <1>1, <1>2 DEF Taken, Stored, bufVars
  <2>2. Passes
    BY <1>1, <1>2, <2>1, TakenShrinks DEF lineVars
  <2> QED BY <1>1, <1>2, <2>2, PassesOnce DEF Calls!vars
<1>3. CASE SlaveTask(Received("slave"))
  <2> DEFINE m == Received("slave")
  <2>1. DOMAIN m = 1..Len(m) /\ Range(m) = Stored("slave")
    BY ReceivedIsStored DEF Ends
  <2>2. Ordered(Taken("slave"), uart["slave"], wire["slave"])
    BY DEF OnceInv, OrderAt, Ends
  <2> HIDE DEF m, Less
  <2>3. Range(m) \subseteq Side("slave") /\ Range(m) \subseteq Taken("slave")
    BY <2>1 DEF Side, Taken
  <2>4. /\ Before(Range(m), Range(uart'["slave"]) \cup Range(wire["slave"]))
        /\ InOrder(uart'["slave"]) /\ Range(uart'["slave"]) \subseteq Range(uart["slave"])
        /\ uart'["master"] = uart["master"] /\ SlaveTask(m)
    BY <1>1, <1>3, <2>2, <2>3 DEF Ordered, Before, m
  <2>5. UNCHANGED <<Mode, sent, accepted, mpc, rx_byte>>
    BY <1>1
  <2> QED BY <2>1, <2>3, <2>4, <2>5, SlaveTaskOnce
<1> QED BY <1>2, <1>3 DEF SlaveChecks

\* The slave's loop reads a byte, and in ASCII mode handles the frame it ends.
LEMMA SlaveReadsOnce ==
    ASSUME ModbusAssumption, ModbusInv, OnceInv, SlaveReads
    PROVE  OnceInv' /\ (Calls!Perform \/ UNCHANGED Calls!vars)
<1> DEFINE u == uart["slave"]
           w == wire["slave"]
           b == Head(u)
           m == IF RxBufByteCtr["slave"] < BufSize THEN Append(Received("slave"), b)
                                                   ELSE Received("slave")
<1> HIDE DEF Bytes, NoByte, Less
<1>1. uart \in [Ends -> Seq(Bytes)] /\ w \in Seq(Bytes) /\ u \in Seq(Bytes)
  BY DEF ModbusInv, Typed, LineType, Ends
<1>2. u # <<>> /\ uart' = [uart EXCEPT !["slave"] = Tail(u)]
      /\ UNCHANGED <<Mode, sent, accepted, mpc, rx_byte>>
  BY DEF SlaveReads, masterVars
<1>3. /\ \/ Store("slave", b) \/ StoreAscii("slave", b) \/ ResetBuf("slave")
         /\ UNCHANGED <<performed, wire>>
      \/ SlaveTask(m)
  BY DEF SlaveReads
<1>4. b \in Bytes /\ uart'["slave"] = Tail(u) /\ uart'["master"] = uart["master"]
  BY <1>1, <1>2, HeadTailProperties DEF Ends
<1>5. Ordered(Taken("slave"), u, w) /\ Taken("slave") = Stored("slave")
  BY DEF OnceInv, OrderAt, Ends, Taken
<1> HIDE DEF u, w
<1>6. /\ Ordered(Taken("slave") \cup {b}, Tail(u), w)
      /\ Range(Tail(u)) \subseteq Range(u) /\ b \in Range(u)
  BY <1>1, <1>2, <1>5, OrderedPass
<1> HIDE DEF b, m
<1>7. CASE /\ Store("slave", b) \/ StoreAscii("slave", b) \/ ResetBuf("slave")
           /\ UNCHANGED <<performed, wire>>
  <2>1. Stored("slave")' \subseteq Stored("slave") \cup {b} /\ Stored("master")' = Stored("master")
    BY <1>4, <1>7, StoredBytes DEF Ends
  <2>2. Taken("slave")' \subseteq Taken("slave") \cup {b} /\ Taken("master")' = Taken("master")
    BY <1>2, <2>1 DEF Taken
  <2>3. wire' = wire /\ wire'["slave"] = w
    BY <1>7 DEF w
  <2>4. OrderAt("slave")'
    BY <1>4, <1>6, <2>2, <2>3 DEF OrderAt, Ordered, Before
  <2>5. Side("slave")' \subseteq Side("slave")
    BY <1>4, <1>6, <2>2, <2>3 DEF Side, u, w
  <2>6. OrderAt("master")' /\ Side("master")' \subseteq Side("master")
    BY <1>4, <2>2, <2>3 DEF OrderAt, Side, OnceInv, Ends
  <2>7. Passes
    BY <1>2, <1>7, <2>4, <2>5, <2>6 DEF Passes, Ends
  <2> QED BY <1>2, <1>7, <2>7, PassesOnce DEF Calls!vars
<1>8. CASE SlaveTask(m)
  <2> DEFINE R == Received("slave")
             B == Bytes \cup {NoByte}
  <2>1. R \in Seq(B) /\ DOMAIN R = 1..Len(R) /\ Range(R) = Stored("slave") /\ b \in B
    BY <1>4, ReceivedIsStored DEF Ends
  <2>2. m \in {R, Append(R, b)}
    BY DEF m
  <2> HIDE DEF R, B
  <2>3. Append(R, b) \in Seq(B) /\ Range(Append(R, b)) \subseteq Range(R) \cup {b}
    <3>1. /\ Append(R, b) \in Seq(B) /\ Len(Append(R, b)) = Len(R) + 1 /\ Len(R) \in Nat
          /\ \A i \in 1..Len(R) : Append(R, b)[i] = R[i]
          /\ Append(R, b)[Len(R) + 1] = b
      BY <2>1, AppendProperties, LenProperties
    <3>2. DOMAIN Append(R, b) = 1..(Len(R) + 1)
      BY <3>1, LenProperties
    <3>3. \A i \in 1..(Len(R) + 1) : i \in 1..Len(R) \/ i = Len(R) + 1
      BY <3>1
    <3> QED BY <2>1, <3>1, <3>2, <3>3 DEF Range
  <2>4. m \in Seq(B) /\ Range(m) \subseteq Stored("slave") \cup {b}
    BY <2>1, <2>2, <2>3
  <2>5. DOMAIN m = 1..Len(m)
    BY <2>4, LenProperties
  <2>6. Range(m) \subseteq Side("slave")
    BY <1>5, <1>6, <2>4 DEF Side, u
  <2>7. /\ Before(Range(m), Range(uart'["slave"]) \cup Range(wire["slave"]))
        /\ InOrder(uart'["slave"]) /\ Range(uart'["slave"]) \subseteq Range(uart["slave"])
    <3>1. Before(Taken("slave") \cup {b}, Range(Tail(u)) \cup Range(w)) /\ InOrder(Tail(u))
      BY <1>6 DEF Ordered
    <3> QED BY <1>4, <1>5, <1>6, <2>4, <3>1 DEF Before, u, w
  <2> QED BY <1>2, <1>4, <1>8, <2>5, <2>6, <2>7, SlaveTaskOnce
<1> QED BY <1>3, <1>7, <1>8

\* The master accepts an answer later than all it has accepted, to a request performed.
LEMMA ReplyOnce ==
    ASSUME ModbusAssumption, ModbusInv, OnceInv, Reply
    PROVE  OnceInv' /\ (Calls!Accept \/ UNCHANGED Calls!vars)
<1> DEFINE m == Received("master")
           b == m[1]
           r == b[1]
<1> HIDE DEF Less
<1>1. /\ mpc = "reply" /\ ResetBuf("master") /\ mpc' = "idle"
      /\ UNCHANGED <<Mode, lineVars, sent, performed>>
  BY DEF Reply, Return, slaveVars
<1>2. /\ Stored("master")' = {} /\ Stored("slave")' = Stored("slave")
      /\ Taken("master") = Stored("master")
  BY <1>1, StoredBytes DEF Ends, Taken
<1>3. \A n \in Ends : Taken(n)' \subseteq Taken(n)
  BY <1>1, <1>2 DEF Taken, Ends
<1>4. CASE accepted' = accepted
  BY <1>1, <1>3, <1>4, TakenShrinks, PassesOnce DEF Calls!vars
<1>5. CASE Parsed("master", m) /\ Matches(m) /\ accepted' = Append(accepted, r)
  <2>1. b \in Stored("master") /\ First(b) /\ r \in 1..MaxCalls
    <3>1. Len(m) > 0
      BY <1>5, ReceivedIsStored DEF Parsed, Ends, Modes, ModbusAssumption, ModbusInv, Typed, BufType
    <3>2. Len(m) \in Nat /\ DOMAIN m = 1..Len(m) /\ Range(m) = Stored("master")
      BY ReceivedIsStored, LenProperties DEF Ends
    <3>3. 1 \in DOMAIN m
      <4> HIDE DEF m
      <4> QED BY <3>1, <3>2
    <3>4. b \in Range(m)
      BY <3>3 DEF Range
    <3> QED BY <1>5, <3>2, <3>4, FirstByte DEF Matches
  <2>2. PICK i \in 1..Len(performed) : performed[i] = r
    BY <2>1 DEF OnceInv, MasterOnce, Side, Taken
  <2>3. Calls!Later(r, accepted)
    BY <2>1 DEF OnceInv, MasterOnce, Side, Taken
  <2>4. \A n \in Ends : OrderAt(n)' /\ Side(n)' \subseteq Side(n)
    <3> SUFFICES ASSUME NEW n \in Ends PROVE OrderAt(n)' /\ Side(n)' \subseteq Side(n)
      OBVIOUS
    <3>1. uart' = uart /\ wire' = wire /\ Taken(n)' \subseteq Taken(n)
      BY <1>1, <1>3 DEF lineVars
    <3>2. Ordered(Taken(n), uart[n], wire[n])
      BY DEF OnceInv, OrderAt
    <3> HIDE DEF Taken
    <3> QED BY <3>1, <3>2 DEF OrderAt, Ordered, Before, Side
  <2> HIDE DEF m, b
  <2>5. ASSUME NEW c \in Side("master")', First(c) PROVE r < c[1]
    <3>1. c \in Range(uart["master"]) \cup Range(wire["master"])
      BY <1>1, <1>2 DEF Side, Taken, lineVars
    <3>2. Less(b, c)
      BY <1>2, <2>1, <3>1 DEF OnceInv, OrderAt, Ordered, Before, Ends
    <3>3. b[2] = 1 /\ c[2] = 1
      BY <2>1, <2>5 DEF First
    <3> QED BY <3>2, <3>3 DEF Less
  <2> HIDE DEF r
  <2>6. /\ Len(accepted) \in Nat /\ Len(accepted') = Len(accepted) + 1
        /\ \A j \in 1..Len(accepted) : accepted'[j] = accepted[j]
        /\ accepted'[Len(accepted) + 1] = r
        /\ \A j \in 1..Len(accepted') : j \in 1..Len(accepted) \/ j = Len(accepted) + 1
    <3>1. accepted \in Seq(1..MaxCalls)
      BY DEF ModbusInv, Typed, AnswerType
    <3> QED BY <1>5, <2>1, <3>1, AppendProperties, LenProperties
  <2>7. MasterOnce'
    <3> SUFFICES ASSUME NEW c \in Side("master")'
                 PROVE  /\ \E j \in 1..Len(performed') : performed'[j] = c[1]
                        /\ First(c) => Calls!Later(c[1], accepted')
      BY DEF MasterOnce
    <3>1. c \in Side("master")
      BY <2>4 DEF Ends
    <3>2. \E j \in 1..Len(performed') : performed'[j] = c[1]
      BY <1>1, <3>1 DEF OnceInv, MasterOnce
    <3>3. ASSUME First(c), NEW j \in 1..Len(accepted') PROVE accepted'[j] < c[1]
      <4>1. CASE j \in 1..Len(accepted)
        BY <2>6, <3>1, <3>3, <4>1 DEF OnceInv, MasterOnce, Calls!Later
      <4>2. CASE j = Len(accepted) + 1
        BY <2>5, <2>6, <3>3, <4>2
      <4> QED BY <2>6, <4>1, <4>2
    <3>4. First(c) => Calls!Later(c[1], accepted')
      BY <3>3 DEF Calls!Later
    <3> QED BY <3>2, <3>4
  <2>8. SlaveOnce' /\ PerformedSent'
    BY <1>1, <2>4 DEF OnceInv, SlaveOnce, PerformedSent, Ends
  <2>9. AcceptsPerformed'
    BY <1>1, <2>2, <2>6 DEF OnceInv, AcceptsPerformed
  <2>10. Calls!Accept
    BY <1>1, <1>5, <2>2, <2>3 DEF Calls!Accept
  <2> QED BY <2>4, <2>7, <2>8, <2>9, <2>10 DEF OnceInv
<1> QED BY <1>4, <1>5 DEF Reply

\* OnceInv holds before anything is sent.
LEMMA InitOnce ==
    ASSUME ModbusAssumption, Init
    PROVE  OnceInv /\ Calls!Init
<1>1. /\ \A n \in Ends : wire[n] = <<>> /\ uart[n] = <<>> /\ RxBufByteCtr[n] = 0
      /\ mpc = "idle" /\ Len(sent) = 0 /\ performed = <<>> /\ accepted = <<>>
  BY DEF Init
<1>2. \A n \in Ends : Stored(n) = {}
  BY <1>1 DEF Stored
<1>3. Range(<<>>) = {} /\ InOrder(<<>>)
  BY DEF Range, InOrder
<1>4. \A n \in Ends : OrderAt(n) /\ Side(n) = {}
  BY <1>1, <1>2, <1>3 DEF OrderAt, Ordered, Before, Side, Taken
<1>5. SlaveOnce /\ MasterOnce /\ PerformedSent /\ AcceptsPerformed
  BY <1>1, <1>4 DEF SlaveOnce, MasterOnce, PerformedSent, AcceptsPerformed, Ends
<1> QED BY <1>1, <1>4, <1>5 DEF OnceInv, Calls!Init

\* Every step keeps OnceInv, and is a step of RemoteCalls or leaves its variables alone.
LEMMA NextOnce ==
    ASSUME ModbusAssumption, ModbusInv, OnceInv, [Next]_vars
    PROVE  OnceInv' /\ [Calls!Next]_(Calls!vars)
<1>1. ASSUME Passes PROVE OnceInv' /\ [Calls!Next]_(Calls!vars)
  BY <1>1, PassesOnce DEF Passes, Calls!vars
<1>2. CASE UNCHANGED vars
  BY <1>1, <1>2, QuietPasses
<1>3. CASE \E kind \in Kinds : Call(kind)
  BY <1>3, CallOnce DEF Calls!Next
<1>4. CASE MasterStep
  <2>1. CASE Flush \/ WaitBegins \/ WaitTests \/ WaitSleeps \/ WaitTimesOut
    BY <1>1, <2>1, QuietPasses
  <2>2. CASE WaitReads \/ WaitStores
    BY <1>1, <2>2, MasterBytePasses
  <2>3. CASE Reply
    BY <2>3, ReplyOnce DEF Calls!Next
  <2> QED BY <1>4, <2>1, <2>2, <2>3 DEF MasterStep, WaitStep
<1>5. CASE Elapse
  BY <1>1, <1>5, QuietPasses
<1>6. CASE SlaveStep
  <2>1. CASE SlaveSleeps \/ SlaveClears
    BY <1>1, <2>1, QuietPasses
  <2>2. CASE SlaveReads
    BY <2>2, SlaveReadsOnce DEF Calls!Next
  <2>3. CASE SlaveChecks
    BY <2>3, SlaveChecksOnce DEF Calls!Next
  <2> QED BY <1>6, <2>1, <2>2, <2>3 DEF SlaveStep
<1>7. CASE \E n \in Ends : Deliver(n) \/ Lose(n) \/ Tick(n)
  <2>1. PICK n \in Ends : Deliver(n) \/ Lose(n) \/ Tick(n)
    BY <1>7
  <2>2. CASE Deliver(n) \/ Lose(n)
    BY <1>1, <2>2, LinePasses
  <2>3. CASE Tick(n)
    BY <1>1, <2>3, QuietPasses
  <2> QED BY <2>1, <2>2, <2>3
<1> QED BY <1>2, <1>3, <1>4, <1>5, <1>6, <1>7 DEF Next

\* Whatever is lost, late or split: no byte of a request is left once it has
\* been performed, and no answer begins again once it has been accepted.
THEOREM BytesPassOnce == Spec => []OnceInv
<1>1. Init => OnceInv
  BY ModbusAssumption, InitOnce
<1>2. ModbusInv /\ OnceInv /\ [Next]_vars => OnceInv'
  BY ModbusAssumption, NextOnce
<1> QED BY <1>1, <1>2, ModbusInvariant, PTL DEF Spec

\* A Modbus line implements RemoteCalls: each request is performed at most once
\* and in order, each answer accepted at most once and in order.
THEOREM ModbusImplementsRemoteCalls == Spec => IsRemoteCalls
<1>1. Init => Calls!Init
  BY ModbusAssumption, InitOnce
<1>2. ModbusInv /\ OnceInv /\ [Next]_vars => [Calls!Next]_(Calls!vars)
  BY ModbusAssumption, NextOnce
<1> QED BY <1>1, <1>2, ModbusInvariant, BytesPassOnce, PTL DEF Spec, IsRemoteCalls, Calls!Spec

-----------------------------------------------------------------------------
(***************************************************************************)
(* The way of a clean call: its request to the slave, byte by byte, and    *)
(* the answer back.                                                        *)
(***************************************************************************)

\* The bytes from the (a + 1)st to the zth of request r, or of its answer.
Run(r, a, z) == [i \in 1..(z - a) |-> <<r, a + i>>]

\* Of the f bytes of r, those behind the kth are still to be taken at end n: up to the
\* lth from its UART, the rest from the wire.
OnWay(n, r, f, k, l) ==
    /\ l \in 0..f /\ k \in 0..l
    /\ uart[n] = Run(r, k, l)
    /\ wire[n] = Run(r, l, f)

Quiet(n) == uart[n] = <<>> /\ wire[n] = <<>>

\* What the slave has stored is followed by a signal, which it has not cleared yet.
SlaveSignalled ==
    /\ Mode = "ASCII" => spc = "read"
    /\ Mode = "RTU" =>
         /\ RTU_TimeoutEn["slave"]
         /\ spc = "clear" => RxBufByteCtr["slave"] = 0
         /\ RxBufByteCtr["slave"] > 0 => RTU_TimeoutCtr["slave"] > 0 \/ RxDoneFlag["slave"] = 1

\* The slave has taken k bytes of the request.
SlaveTakes(r, f, k) ==
    /\ Mode = "RTU" => /\ Received("slave") = Run(r, 0, k)
                       /\ spc \in {"read", "check"}
                       /\ k < f => RxDoneFlag["slave"] = 0
                       /\ k = 0 => RTU_TimeoutCtr["slave"] = 0
    /\ Mode = "ASCII" => k < f /\ (k > 0 => Received("slave") = Run(r, 0, k))

\* The request is on its way to the slave, and the master waits.
MasterWaits ==
    /\ Quiet("master") /\ RxBufByteCtr["master"] = 0
    /\ mpc \in {"flush", "wait", "test", "read"}
    /\ mpc \in {"test", "read"} => ~fresh /\ ~elapsed /\ RxDoneFlag["master"] = 0
SlaveIsAsked(r, f) ==
    \E l \in 0..f : \E k \in 0..l : OnWay("slave", r, f, k, l) /\ SlaveTakes(r, f, k)
Asking(r, f) == MasterWaits /\ SlaveIsAsked(r, f)

\* The master has taken k bytes of the answer, and stored s of them: no signal ends
\* the wait before the last, and a timeout comes after it only.
Awaits(f, k, s) ==
    /\ RxDoneFlag["master"] = 1 => k = f
    /\ elapsed => Mode = "ASCII" /\ k = f
    /\ Mode = "RTU" /\ k > 0 => RxDoneFlag["master"] = 1 \/ RTU_TimeoutCtr["master"] > 0
    /\ Mode = "RTU" /\ s > 0 => RxDoneFlag["master"] = 1 \/ RTU_TimeoutEn["master"]
    /\ Mode = "ASCII" /\ s = f => RxDoneFlag["master"] = 1 /\ mpc # "read"
MasterTakes(r, f, k) ==
    \/ mpc \in {"flush", "wait"} /\ k = 0 /\ RxBufByteCtr["master"] = 0
    \/ /\ mpc \in {"test", "read"} /\ Received("master") = Run(r, 0, k)
       /\ k = 0 => ~fresh
       /\ Awaits(f, k, k)
    \/ /\ mpc = "store" /\ k > 0 /\ rx_byte = <<r, k>> /\ Received("master") = Run(r, 0, k - 1)
       /\ Awaits(f, k, k - 1)
    \/ mpc = "reply" /\ k = f /\ Received("master") = Run(r, 0, k)

\* The slave has handled the request, and the answer is on its way to the master.
SlaveIsDone == Quiet("slave") /\ RxBufByteCtr["slave"] = 0
MasterIsAnswered(r, f) ==
    \E l \in 0..f : \E k \in 0..l : OnWay("master", r, f, k, l) /\ MasterTakes(r, f, k)
Answering(r, f) == SlaveIsDone /\ MasterIsAnswered(r, f)

\* The slave has handled the request, and there will be no answer.
Silent ==
    /\ SlaveIsDone
    /\ Quiet("master") /\ RxBufByteCtr["master"] = 0
    /\ mpc \in {"flush", "wait", "test", "read", "reply"}
    /\ Mode = "RTU" => mpc # "reply" /\ (mpc \in {"test", "read"} => ~fresh)

\* Where the bytes of a clean call are.
UnderWay(r) ==
    \/ Asking(r, Size("slave", r))
    \/ Answers(sent[r]) /\ Answering(r, Size("master", r))
    \/ ~Answers(sent[r]) /\ Silent

CleanInv ==
    /\ SlaveSignalled
    /\ clean \/ mpc # "idle" => Len(sent) > 0
    /\ clean /\ mpc # "idle" => UnderWay(Len(sent))
    /\ CleanCallSucceeds

\* What a run is.
IsRun(s, r, a, z) ==
    /\ s \in Seq(Bytes) /\ Len(s) = z - a
    /\ \A i \in 1..(z - a) : s[i] = <<r, a + i>>
    /\ s = <<>> <=> a = z

\* A run of a frame is a sequence of bytes.
LEMMA RunBytes ==
    ASSUME ModbusAssumption, NEW r \in 1..MaxCalls, NEW f \in Lengths, NEW z \in 0..f,
           NEW a \in 0..z
    PROVE  IsRun(Run(r, a, z), r, a, z)
<1>1. f \in Nat /\ z \in Nat /\ a \in Nat /\ z - a \in Nat
      /\ \A i \in 1..(z - a) : a + i \in 1..BufSize
  BY DEF ModbusAssumption, Lengths
<1>2. \A i \in 1..(z - a) : <<r, a + i>> \in Bytes
  BY <1>1 DEF Bytes
<1>3. Run(r, a, z) = [i \in 1..(z - a) |-> <<r, a + i>>]
  BY DEF Run
<1> HIDE DEF Bytes
<1>4. Run(r, a, z) \in [1..(z - a) -> Bytes]
  BY <1>2, <1>3
<1>5. Run(r, a, z) \in Seq(Bytes)
  BY <1>1, <1>4, SeqDef
<1>6. Len(Run(r, a, z)) = z - a
  BY <1>1, <1>4, <1>5, LenProperties
<1>7. Run(r, a, z) = <<>> <=> a = z
  BY <1>1, <1>5, <1>6, EmptySeq
<1> QED BY <1>3, <1>5, <1>6, <1>7 DEF IsRun

\* A run that is not empty gives its first byte, and what is behind it is a run.
LEMMA RunHead ==
    ASSUME ModbusAssumption, NEW r \in 1..MaxCalls, NEW f \in Lengths, NEW z \in 0..f,
           NEW a \in 0..z, a < z
    PROVE  /\ Run(r, a, z) # <<>> /\ Head(Run(r, a, z)) = <<r, a + 1>>
           /\ Tail(Run(r, a, z)) = Run(r, a + 1, z)
<1>1. f \in Nat /\ z \in Nat /\ a \in Nat /\ z - a \in Nat /\ z - a >= 1
      /\ a + 1 \in 0..z /\ 1 \in 1..(z - a) /\ z - (a + 1) = (z - a) - 1
  BY DEF ModbusAssumption, Lengths
<1> DEFINE s == Run(r, a, z)
           t == Run(r, a + 1, z)
<1> HIDE DEF Bytes
<1>2. /\ s \in Seq(Bytes) /\ Len(s) = z - a /\ s # <<>>
      /\ \A i \in 1..(z - a) : s[i] = <<r, a + i>>
  <2>1. IsRun(s, r, a, z)
    BY <1>1, RunBytes
  <2> QED BY <1>1, <2>1 DEF IsRun
<1>3. /\ t \in Seq(Bytes) /\ Len(t) = (z - a) - 1
      /\ \A i \in 1..(z - (a + 1)) : t[i] = <<r, (a + 1) + i>>
  <2>1. IsRun(t, r, a + 1, z)
    BY <1>1, RunBytes
  <2> HIDE DEF t
  <2> QED BY <1>1, <2>1 DEF IsRun
<1> HIDE DEF s, t
<1>4. /\ Tail(s) \in Seq(Bytes) /\ Len(Tail(s)) = (z - a) - 1
      /\ \A i \in 1..((z - a) - 1) : Tail(s)[i] = s[i + 1]
  BY <1>2, HeadTailProperties
<1>5. \A i \in 1..((z - a) - 1) : i + 1 \in 1..(z - a) /\ a + (i + 1) = (a + 1) + i
  BY <1>1
<1>6. \A i \in 1..Len(Tail(s)) : Tail(s)[i] = t[i]
  BY <1>1, <1>2, <1>3, <1>4, <1>5
<1>7. Tail(s) = t
  BY <1>3, <1>4, <1>6, SeqEqual
<1>8. Head(s) = <<r, a + 1>>
  BY <1>1, <1>2
<1> QED BY <1>2, <1>7, <1>8 DEF s, t

\* A run with the next byte behind it is a run.
LEMMA RunAppend ==
    ASSUME ModbusAssumption, NEW r \in 1..MaxCalls, NEW f \in Lengths, NEW z \in 0..f,
           NEW a \in 0..z,
           z < f
    PROVE  Append(Run(r, a, z), <<r, z + 1>>) = Run(r, a, z + 1) /\ <<r, z + 1>> \in Bytes
<1>1. f \in Nat /\ z \in Nat /\ a \in Nat /\ z - a \in Nat /\ z + 1 \in 0..f /\ z + 1 \in 1..BufSize
      /\ a \in 0..(z + 1) /\ (z + 1) - a = (z - a) + 1 /\ a + ((z - a) + 1) = z + 1
  BY DEF ModbusAssumption, Lengths
<1>2. <<r, z + 1>> \in Bytes
  BY <1>1 DEF Bytes
<1> DEFINE b == <<r, z + 1>>
           s == Run(r, a, z)
           t == Run(r, a, z + 1)
<1> HIDE DEF Bytes
<1>3. /\ s \in Seq(Bytes) /\ Len(s) = z - a
      /\ \A i \in 1..(z - a) : s[i] = <<r, a + i>>
  <2>1. IsRun(s, r, a, z)
    BY <1>1, RunBytes
  <2> QED BY <1>1, <2>1 DEF IsRun
<1>4. /\ t \in Seq(Bytes) /\ Len(t) = (z - a) + 1
      /\ \A i \in 1..((z + 1) - a) : t[i] = <<r, a + i>>
  <2>1. IsRun(t, r, a, z + 1)
    BY <1>1, RunBytes
  <2> HIDE DEF t
  <2> QED BY <1>1, <2>1 DEF IsRun
<1>5. t[(z - a) + 1] = b
  <2>1. (z - a) + 1 \in 1..((z + 1) - a)
    BY <1>1
  <2> HIDE DEF t
  <2> QED BY <1>1, <1>4, <2>1
<1> HIDE DEF s, t, b
<1>6. b \in Bytes
  BY <1>2 DEF b
<1>7. /\ Append(s, b) \in Seq(Bytes) /\ Len(Append(s, b)) = (z - a) + 1
      /\ \A i \in 1..(z - a) : Append(s, b)[i] = s[i]
      /\ Append(s, b)[(z - a) + 1] = b
  BY <1>3, <1>6, AppendProperties
<1>8. \A i \in 1..Len(Append(s, b)) : Append(s, b)[i] = t[i]
  <2>1. \A i \in 1..((z - a) + 1) : i \in 1..((z + 1) - a) /\ (i \in 1..(z - a) \/ i = (z - a) + 1)
    BY <1>1
  <2> QED BY <1>3, <1>4, <1>5, <1>7, <2>1
<1>9. Append(s, b) = t
  BY <1>4, <1>7, <1>8, SeqEqual
<1> QED BY <1>2, <1>9 DEF s, t, b

\* The whole run is the frame.
LEMMA RunFrame ==
    ASSUME ModbusAssumption, NEW r \in 1..MaxCalls, NEW f \in Lengths
    PROVE  Run(r, 0, f) = Message(r, f) /\ Run(r, 0, 0) = <<>> /\ Message(r, f) # <<>>
<1>1. f \in Nat /\ f - 0 = f /\ 0 \in 0..f /\ f # 0
      /\ 0 \in 0..0 /\ f \in 0..f
      /\ \A i \in 1..f : 0 + i = i
  BY DEF ModbusAssumption, Lengths
<1>2. Run(r, 0, f) = Message(r, f)
  BY <1>1 DEF Run, Message
<1>3. Run(r, 0, 0) = <<>> /\ Run(r, 0, f) # <<>>
  <2>1. IsRun(Run(r, 0, 0), r, 0, 0) /\ IsRun(Run(r, 0, f), r, 0, f)
    BY <1>1, RunBytes
  <2> QED BY <1>1, <2>1 DEF IsRun
<1> QED BY <1>2, <1>3

\* The byte that comes next at an end begins a frame exactly when none of it was taken.
LEMMA RestOnWay ==
    ASSUME ModbusAssumption, NEW r \in 1..MaxCalls, NEW f \in Lengths, NEW n \in Ends,
           NEW l \in 0..f, NEW k \in 0..l, OnWay(n, r, f, k, l), ~InFrame(n)
    PROVE  k = 0 \/ k = f
<1>1. f \in Nat /\ l \in Nat /\ k \in Nat /\ k <= l /\ l <= f /\ f \in 0..f
  BY DEF ModbusAssumption, Lengths
<1> DEFINE u == Run(r, k, l)
           w == Run(r, l, f)
<1> HIDE DEF Bytes
<1>2. u \in Seq(Bytes) /\ w \in Seq(Bytes) /\ (u = <<>> <=> k = l) /\ (w = <<>> <=> l = f)
  <2>1. IsRun(u, r, k, l) /\ IsRun(w, r, l, f)
    BY <1>1, RunBytes
  <2> HIDE DEF u, w
  <2> QED BY <2>1 DEF IsRun
<1>3. (k < l => Head(u) = <<r, k + 1>>) /\ (l < f => Head(w) = <<r, l + 1>>)
  BY <1>1, RunHead
<1>4. uart[n] = u /\ wire[n] = w
  BY DEF OnWay
<1> HIDE DEF u, w
<1>5. CASE k < f
  <2>1. u \o w # <<>> /\ Head(u \o w) = <<r, k + 1>>
    <3>1. CASE k = l
      <4>1. u \o w = w
        BY <1>2, <3>1, ConcatEmptySeq
      <4> QED BY <1>1, <1>2, <1>3, <1>5, <3>1, <4>1
    <3>2. CASE k < l
      <4>1. u # <<>> /\ Len(u) \in Nat \ {0} /\ Len(w) \in Nat
        BY <1>1, <1>2, <3>2, EmptySeq, LenProperties
      <4>2. u \o w # <<>> /\ (u \o w)[1] = u[1]
        BY <1>2, <4>1, ConcatProperties, ConcatEqualIffEmpty
      <4> QED BY <1>3, <3>2, <4>1, <4>2
    <3> QED BY <1>1, <3>1, <3>2
  <2>2. First(<<r, k + 1>>)
    BY <1>4, <2>1 DEF InFrame
  <2> QED BY <1>1, <2>2 DEF First
<1> QED BY <1>1, <1>5

\* The next byte is delivered to the UART.
LEMMA DeliverOnWay ==
    ASSUME ModbusAssumption, ModbusInv, NEW r \in 1..MaxCalls, NEW f \in Lengths,
           NEW n \in Ends, Deliver(n),
           NEW l \in 0..f, NEW k \in 0..l, OnWay(n, r, f, k, l)
    PROVE  l + 1 \in 0..f /\ k \in 0..(l + 1) /\ OnWay(n, r, f, k, l + 1)'
<1>1. f \in Nat /\ l \in Nat /\ k \in Nat /\ k <= l /\ f \in 0..f
  BY DEF ModbusAssumption, Lengths
<1>2. /\ uart[n] = Run(r, k, l) /\ wire[n] = Run(r, l, f) /\ wire[n] # <<>>
      /\ uart'[n] = Append(uart[n], Head(wire[n])) /\ wire'[n] = Tail(wire[n])
  BY DEF OnWay, Deliver, ModbusInv, Typed, LineType
<1>3. l < f
  <2>1. IsRun(Run(r, l, f), r, l, f)
    BY <1>1, RunBytes
  <2> QED BY <1>1, <1>2, <2>1 DEF IsRun
<1>4. Head(wire[n]) = <<r, l + 1>> /\ Tail(wire[n]) = Run(r, l + 1, f)
  BY <1>1, <1>2, <1>3, RunHead
<1>5. Append(Run(r, k, l), <<r, l + 1>>) = Run(r, k, l + 1)
  BY <1>1, <1>3, RunAppend
<1>6. l + 1 \in 0..f /\ k \in 0..(l + 1)
  BY <1>1, <1>3
<1> QED BY <1>2, <1>4, <1>5, <1>6 DEF OnWay

\* The next byte is taken from the UART.
LEMMA ReadOnWay ==
    ASSUME ModbusAssumption, NEW r \in 1..MaxCalls, NEW f \in Lengths, NEW n \in Ends,
           uart[n] # <<>>,
           NEW l \in 0..f, NEW k \in 0..l, OnWay(n, r, f, k, l),
           uart'[n] = Tail(uart[n]), wire'[n] = wire[n]
    PROVE  /\ Head(uart[n]) = <<r, k + 1>>
           /\ k < f /\ k + 1 \in 0..l /\ OnWay(n, r, f, k + 1, l)'
<1>1. f \in Nat /\ l \in Nat /\ k \in Nat /\ k <= l /\ l <= f
  BY DEF ModbusAssumption, Lengths
<1>2. uart[n] = Run(r, k, l) /\ wire[n] = Run(r, l, f)
  BY DEF OnWay
<1>3. k < l
  <2>1. IsRun(Run(r, k, l), r, k, l)
    BY <1>1, RunBytes
  <2> QED BY <1>1, <1>2, <2>1 DEF IsRun
<1>4. Head(uart[n]) = <<r, k + 1>> /\ Tail(uart[n]) = Run(r, k + 1, l)
  BY <1>1, <1>2, <1>3, RunHead
<1>5. k < f /\ k + 1 \in 0..l
  BY <1>1, <1>3
<1> QED BY <1>2, <1>4, <1>5 DEF OnWay

\* An end whose UART and wire are empty has taken the whole frame.
LEMMA QuietOnWay ==
    ASSUME ModbusAssumption, NEW r \in 1..MaxCalls, NEW f \in Lengths, NEW n \in Ends,
           NEW l \in 0..f, NEW k \in 0..l, OnWay(n, r, f, k, l)
    PROVE  Quiet(n) <=> k = f
<1>1. f \in Nat /\ l \in Nat /\ k \in Nat /\ k <= l /\ l <= f /\ f \in 0..f
  BY DEF ModbusAssumption, Lengths
<1>2. uart[n] = Run(r, k, l) /\ wire[n] = Run(r, l, f)
  BY DEF OnWay
<1>3. IsRun(Run(r, k, l), r, k, l) /\ IsRun(Run(r, l, f), r, l, f)
  BY <1>1, RunBytes
<1>4. (uart[n] = <<>> <=> k = l) /\ (wire[n] = <<>> <=> l = f)
  BY <1>2, <1>3 DEF IsRun
<1> QED BY <1>1, <1>4 DEF Quiet

\* The other ends keep what they have received.
KeepsOthers(n) ==
    \A e \in Ends \ {n} : Received(e)' = Received(e) /\ RxBufByteCtr'[e] = RxBufByteCtr[e]

\* An empty buffer has received nothing.
LEMMA NothingReceived ==
    ASSUME ModbusAssumption, ModbusInv, NEW n \in Ends
    PROVE  Received(n) = <<>> <=> RxBufByteCtr[n] = 0
<1> HIDE DEF Bytes, NoByte
<1>1. Received(n) \in Seq(Bytes \cup {NoByte}) /\ Len(Received(n)) = RxBufByteCtr[n]
  BY ReceivedIsStored
<1> QED BY <1>1, EmptySeq

\* And nothing received is not parsed.
LEMMA NothingParsed ==
    ASSUME ModbusAssumption, NEW n
    PROVE  ~Parsed(n, <<>>)
<1>1. MinSize["RTU"] \in Nat \ {0, 1} /\ MinSize["ASCII"] \in Nat \ {0, 1} /\ Len(<<>>) = 0
  BY DEF ModbusAssumption, Modes
<1> QED BY <1>1 DEF Parsed

\* A channel that is reset has received nothing.
LEMMA ResetReceived ==
    ASSUME ModbusAssumption, ModbusInv, NEW n \in Ends, ResetBuf(n)
    PROVE  RxBufByteCtr'[n] = 0 /\ Received(n)' = <<>> /\ KeepsOthers(n)
<1> HIDE DEF Bytes, NoByte
<1>1. RxBufByteCtr \in [Ends -> 0..BufSize]
      /\ RxBuf \in [Ends -> [0..(BufSize - 1) -> Bytes \cup {NoByte}]]
  BY DEF ModbusInv, Typed, BufType
<1>2. RxBufByteCtr'[n] = 0
      /\ \A e \in Ends \ {n} : RxBuf'[e] = RxBuf[e] /\ RxBufByteCtr'[e] = RxBufByteCtr[e]
  BY <1>1 DEF ResetBuf
<1>3. Received(n)' = <<>>
  <2>1. Received(n)' = [i \in 1..0 |-> RxBuf'[n][i - 1]]
    BY <1>2 DEF Received
  <2>2. 1..0 = {}
    OBVIOUS
  <2> QED BY <2>1, <2>2
<1> QED BY <1>2, <1>3 DEF KeepsOthers, Received

\* A byte that is stored goes behind what was received.
LEMMA StoreReceived ==
    ASSUME ModbusAssumption, ModbusInv, NEW n \in Ends, NEW b \in Bytes, Store(n, b),
           RxBufByteCtr[n] < BufSize
    PROVE  Received(n)' = Append(Received(n), b) /\ KeepsOthers(n)
<1> DEFINE c == RxBufByteCtr[n]
           R == Received(n)
           B == Bytes \cup {NoByte}
<1>1. /\ c \in 0..BufSize /\ BufSize \in Nat /\ c \in Nat /\ RxBufPtr[n] = c
      /\ RxBufByteCtr \in [Ends -> 0..BufSize] /\ b \in B
      /\ RxBuf \in [Ends -> [0..(BufSize - 1) -> B]]
  BY DEF ModbusInv, Typed, BufType, ModbusAssumption, PointerFollowsCounter
<1> HIDE DEF Bytes, NoByte, B
<1>2. /\ RxBufByteCtr'[n] = c + 1 /\ RxBuf'[n] = [RxBuf[n] EXCEPT ![c] = b]
      /\ \A e \in Ends \ {n} : RxBuf'[e] = RxBuf[e] /\ RxBufByteCtr'[e] = RxBufByteCtr[e]
  BY <1>1 DEF Store
<1>3. /\ R \in Seq(B) /\ Len(R) = c /\ \A i \in 1..c : R[i] = RxBuf[n][i - 1]
  BY ReceivedIsStored DEF B
<1>4. Received(n)' = [i \in 1..(c + 1) |-> RxBuf'[n][i - 1]]
  BY <1>2 DEF Received
<1> HIDE DEF R, c
<1>5. /\ Append(R, b) \in Seq(B) /\ Len(Append(R, b)) = c + 1
      /\ \A i \in 1..c : Append(R, b)[i] = R[i]
      /\ Append(R, b)[c + 1] = b
  BY <1>1, <1>3, AppendProperties
<1>6. \A i \in 1..(c + 1) : RxBuf'[n][i - 1] = Append(R, b)[i]
  <2> SUFFICES ASSUME NEW i \in 1..(c + 1) PROVE RxBuf'[n][i - 1] = Append(R, b)[i]
    OBVIOUS
  <2>1. RxBuf[n] \in [0..(BufSize - 1) -> B] /\ i - 1 \in 0..(BufSize - 1)
    BY <1>1 DEF c
  <2>2. CASE i = c + 1
    BY <1>1, <1>2, <1>5, <2>1, <2>2
  <2>3. CASE i # c + 1
    <3>1. i \in 1..c /\ i - 1 # c
      BY <1>1, <2>3
    <3>2. RxBuf'[n][i - 1] = RxBuf[n][i - 1]
      BY <1>2, <2>1, <3>1
    <3> QED BY <1>3, <1>5, <3>1, <3>2
  <2> QED BY <2>2, <2>3
<1>7. Append(R, b) = [i \in 1..(c + 1) |-> Append(R, b)[i]]
  BY <1>5, LenProperties
<1>8. Received(n)' = Append(R, b)
  BY <1>4, <1>6, <1>7
<1> QED BY <1>2, <1>8 DEF R, KeepsOthers, Received

\* An end that has received the first k bytes of a frame stores the next one.
LEMMA TakesNext ==
    ASSUME ModbusAssumption, ModbusInv, NEW r \in 1..MaxCalls, NEW f \in Lengths, NEW n \in Ends,
           NEW k \in 0..f, k < f,
           \/ Store(n, <<r, k + 1>>) /\ Received(n) = Run(r, 0, k)
           \/ StoreAscii(n, <<r, k + 1>>) /\ (k > 0 => Received(n) = Run(r, 0, k))
    PROVE  Received(n)' = Run(r, 0, k + 1) /\ KeepsOthers(n)
<1> DEFINE b == <<r, k + 1>>
<1>1. f \in Nat /\ BufSize \in Nat /\ f <= BufSize /\ k \in Nat /\ 0 \in 0..k
  BY DEF ModbusAssumption, Lengths
<1>2. b \in Bytes /\ Append(Run(r, 0, k), b) = Run(r, 0, k + 1)
  BY <1>1, RunAppend
<1>3. First(b) <=> k = 0
  BY <1>1 DEF First
<1>4. Run(r, 0, 0) = <<>>
  BY RunFrame
<1> HIDE DEF b, Bytes, NoByte
<1>5. ASSUME Store(n, b), Received(n) = Run(r, 0, k)
      PROVE  Received(n)' = Run(r, 0, k + 1) /\ KeepsOthers(n)
  <2>1. IsRun(Run(r, 0, k), r, 0, k)
    BY <1>1, RunBytes
  <2>2. RxBufByteCtr[n] < BufSize
    BY <1>1, <1>5, <2>1, ReceivedIsStored DEF IsRun
  <2> QED BY <1>2, <1>5, <2>2, StoreReceived
<1>6. ASSUME StoreAscii(n, b), k = 0
      PROVE  Received(n)' = Run(r, 0, k + 1) /\ KeepsOthers(n)
  <2>1. RxBufByteCtr \in [Ends -> 0..BufSize]
        /\ RxBuf \in [Ends -> [0..(BufSize - 1) -> Bytes \cup {NoByte}]]
    BY DEF ModbusInv, Typed, BufType
  <2>2. /\ RxBufByteCtr'[n] = 1 /\ RxBuf'[n] = [EmptyBuf EXCEPT ![0] = b]
        /\ \A e \in Ends \ {n} : RxBuf'[e] = RxBuf[e] /\ RxBufByteCtr'[e] = RxBufByteCtr[e]
    BY <1>3, <1>6, <2>1 DEF StoreAscii
  <2>3. RxBuf'[n][0] = b
    BY <1>1, <2>2 DEF EmptyBuf, ModbusAssumption, Lengths
  <2>4. Received(n)' = [i \in 1..1 |-> RxBuf'[n][i - 1]]
    BY <2>2 DEF Received
  <2>5. Received(n)' = <<b>>
    <3>1. \A i \in 1..1 : i = 1 /\ i - 1 = 0
      OBVIOUS
    <3> QED BY <2>3, <2>4, <3>1
  <2>6. <<b>> = Append(<<>>, b)
    OBVIOUS
  <2> QED BY <1>2, <1>4, <1>6, <2>2, <2>5, <2>6 DEF KeepsOthers, Received
<1>7. CASE Store(n, b) /\ Received(n) = Run(r, 0, k)
  BY <1>5, <1>7
<1>8. CASE StoreAscii(n, b) /\ (k > 0 => Received(n) = Run(r, 0, k))
  <2>1. k = 0 \/ k > 0
    BY <1>1
  <2>2. CASE k = 0
    BY <1>6, <1>8, <2>2
  <2>3. CASE k > 0
    <3>1. Store(n, b)
      BY <1>3, <1>8, <2>3 DEF StoreAscii
    <3> QED BY <1>5, <1>8, <2>3, <3>1
  <2> QED BY <2>1, <2>2, <2>3
<1> QED BY <1>7, <1>8 DEF b

\* The master, the line and the master's timer leave the slave's channel alone.
SlaveKept ==
    /\ UNCHANGED <<Mode, spc>>
    /\ RxBufByteCtr'["slave"] = RxBufByteCtr["slave"]
    /\ Received("slave")' = Received("slave")
    /\ RTU_TimeoutEn'["slave"] = RTU_TimeoutEn["slave"]
    /\ RTU_TimeoutCtr'["slave"] = RTU_TimeoutCtr["slave"]
    /\ RxDoneFlag'["slave"] = RxDoneFlag["slave"]

\* The steps that keep it.
LEMMA MasterKeepsSlave ==
    ASSUME ModbusAssumption, ModbusInv,
           \/ UNCHANGED vars \/ MasterStep \/ Elapse \/ Tick("master")
           \/ \E kind \in Kinds : Call(kind)
           \/ \E n \in Ends : Deliver(n) \/ Lose(n)
    PROVE  SlaveKept
<1> HIDE DEF Bytes, NoByte
<1>1. /\ RTU_TimeoutEn \in [Ends -> BOOLEAN] /\ RTU_TimeoutCtr \in [Ends -> 0..Cnts]
      /\ RxDoneFlag \in [Ends -> {0, 1}] /\ RxBufByteCtr \in [Ends -> 0..BufSize]
      /\ "master" \in Ends /\ "slave" \in Ends \ {"master"}
  BY DEF ModbusInv, Typed, TimerType, BufType, Ends
<1>2. ASSUME UNCHANGED <<Mode, spc, bufVars>>,
             RTU_TimeoutEn'["slave"] = RTU_TimeoutEn["slave"],
             RTU_TimeoutCtr'["slave"] = RTU_TimeoutCtr["slave"],
             RxDoneFlag'["slave"] = RxDoneFlag["slave"]
      PROVE  SlaveKept
  BY <1>2 DEF SlaveKept, Received, bufVars
<1>3. ASSUME UNCHANGED <<Mode, spc>>, KeepsOthers("master"),
             RTU_TimeoutEn'["slave"] = RTU_TimeoutEn["slave"],
             RTU_TimeoutCtr'["slave"] = RTU_TimeoutCtr["slave"],
             RxDoneFlag'["slave"] = RxDoneFlag["slave"]
      PROVE  SlaveKept
  BY <1>1, <1>3 DEF SlaveKept, KeepsOthers
<1>4. CASE UNCHANGED vars
  BY <1>2, <1>4 DEF vars, timerVars, slaveVars
<1>5. CASE Flush
  <2>1. RxBufByteCtr' = RxBufByteCtr
    BY <1>5 DEF ModbusInv, Typed, BufType, EmptyBeforeWait, Flush
  <2> QED BY <1>1, <1>2, <1>5, <2>1 DEF Flush, slaveVars, bufVars
<1>6. CASE WaitBegins \/ WaitTests \/ WaitSleeps
  BY <1>1, <1>2, <1>6 DEF WaitBegins, WaitTests, WaitSleeps, timerVars, slaveVars
<1>7. CASE WaitReads
  BY <1>1, <1>2, <1>7 DEF WaitReads, slaveVars
<1>8. CASE WaitStores
  <2>1. rx_byte \in Bytes
    BY <1>8 DEF ModbusInv, StoresByte, WaitStores
  <2>2. Store("master", rx_byte) \/ StoreAscii("master", rx_byte)
    BY <1>8 DEF WaitStores
  <2>3. KeepsOthers("master")
    <3>1. RxBuf \in [Ends -> [0..(BufSize - 1) -> Bytes \cup {NoByte}]]
      BY DEF ModbusInv, Typed, BufType
    <3>2. \A e \in Ends \ {"master"} : RxBuf'[e] = RxBuf[e] /\ RxBufByteCtr'[e] = RxBufByteCtr[e]
      BY <1>1, <2>2, <3>1 DEF StoreAscii, Store, bufVars
    <3> QED BY <3>2 DEF KeepsOthers, Received
  <2> QED BY <1>1, <1>3, <1>8, <2>3 DEF WaitStores, slaveVars
<1>9. CASE WaitTimesOut
  <2>1. UNCHANGED <<Mode, spc, timerVars, RxDoneFlag>>
    BY <1>9 DEF WaitTimesOut, slaveVars
  <2>2. UNCHANGED bufVars \/ ResetBuf("master")
    BY <1>9 DEF WaitTimesOut, Return
  <2> QED BY <1>1, <1>2, <1>3, <2>1, <2>2, ResetReceived DEF timerVars
<1>10. CASE Reply
  <2>1. UNCHANGED <<Mode, spc, timerVars, RxDoneFlag>> /\ ResetBuf("master")
    BY <1>10 DEF Reply, Return, slaveVars
  <2> QED BY <1>1, <1>3, <2>1, ResetReceived DEF timerVars
<1>11. CASE Elapse
  BY <1>2, <1>11 DEF Elapse, timerVars, slaveVars
<1>12. CASE Tick("master")
  BY <1>1, <1>2, <1>12 DEF Tick, slaveVars
<1>13. CASE \E kind \in Kinds : Call(kind)
  BY <1>2, <1>13 DEF Call, timerVars, slaveVars
<1>14. CASE \E n \in Ends : Deliver(n) \/ Lose(n)
  BY <1>2, <1>14 DEF Deliver, Lose, timerVars, slaveVars
<1> QED
  BY <1>4, <1>5, <1>6, <1>7, <1>8, <1>9, <1>10, <1>11, <1>12, <1>13, <1>14
     DEF MasterStep, WaitStep

\* Every step leaves a signal to come, or pending, for what the slave has stored.
LEMMA NextSignalled ==
    ASSUME ModbusAssumption, ModbusInv, ModbusInv', SlaveSignalled, [Next]_vars
    PROVE  SlaveSignalled'
<1> HIDE DEF Bytes, NoByte
<1>1. /\ RTU_TimeoutEn \in [Ends -> BOOLEAN] /\ RTU_TimeoutCtr \in [Ends -> 0..Cnts]
      /\ RxDoneFlag \in [Ends -> {0, 1}] /\ RxBufByteCtr \in [Ends -> 0..BufSize]
      /\ "slave" \in Ends /\ Cnts \in Nat /\ Cnts > 0 /\ BufSize \in Nat
      /\ Mode \in {"RTU", "ASCII"} /\ spc \in {"read", "check", "clear"}
  BY DEF Modes, ModbusInv, Typed, TimerType, BufType, SlaveType, Ends, ModbusAssumption
<1>2. CASE SlaveKept
  BY <1>2 DEF SlaveKept, SlaveSignalled
<1>3. CASE Tick("slave")
  <2>1. /\ Mode = "RTU" /\ Mode' = Mode /\ spc' = spc /\ RTU_TimeoutEn["slave"]
        /\ RxBufByteCtr' = RxBufByteCtr
    BY <1>3 DEF Tick, SlaveSignalled, slaveVars, bufVars
  <2>2. RTU_TimeoutEn'["slave"] /\ (RTU_TimeoutCtr'["slave"] > 0 \/ RxDoneFlag'["slave"] = 1)
    BY <1>1, <1>3, <2>1 DEF Tick
  <2> QED BY <2>1, <2>2 DEF SlaveSignalled
<1>4. CASE SlaveReads
  <2>1. CASE Mode = "RTU"
    <3>1. /\ RTU_TimeoutCtr'["slave"] = Cnts /\ spc' = "check" /\ Mode' = Mode
          /\ RTU_TimeoutEn' = RTU_TimeoutEn
      BY <1>1, <1>4, <2>1 DEF SlaveReads
    <3> QED BY <1>1, <2>1, <3>1 DEF SlaveSignalled
  <2>2. CASE Mode # "RTU"
    BY <1>1, <1>4, <2>2 DEF SlaveReads, SlaveSignalled
  <2> QED BY <2>1, <2>2
<1>5. CASE SlaveSleeps
  BY <1>1, <1>5 DEF SlaveSleeps, SlaveSignalled, bufVars, timerVars
<1>6. CASE SlaveChecks
  <2>1. UNCHANGED <<Mode, timerVars, RxDoneFlag>> /\ Mode = "RTU" /\ RTU_TimeoutEn["slave"]
    BY <1>1, <1>6 DEF SlaveChecks, SlaveSignalled
  <2>2. CASE RxDoneFlag["slave"] = 0
    BY <1>6, <2>1, <2>2 DEF SlaveChecks, SlaveSignalled, bufVars, timerVars
  <2>3. CASE RxDoneFlag["slave"] # 0
    <3>1. RxBufByteCtr'["slave"] = 0
      BY <1>1, <1>6, <2>3, ResetReceived DEF SlaveChecks, SlaveTask
    <3> QED BY <1>1, <2>1, <3>1 DEF SlaveSignalled, timerVars
  <2> QED BY <2>2, <2>3
<1>7. CASE SlaveClears
  <2>1. Mode = "RTU" /\ RxBufByteCtr["slave"] = 0 /\ RTU_TimeoutEn["slave"]
    BY <1>1, <1>7 DEF SlaveClears, SlaveSignalled
  <2> QED BY <1>1, <1>7, <2>1 DEF SlaveClears, SlaveSignalled, bufVars, timerVars
<1>8. \/ UNCHANGED vars \/ MasterStep \/ Elapse \/ Tick("master")
      \/ \E kind \in Kinds : Call(kind)
      \/ \E n \in Ends : Deliver(n) \/ Lose(n)
      \/ Tick("slave") \/ SlaveReads \/ SlaveSleeps \/ SlaveChecks \/ SlaveClears
  BY DEF Next, SlaveStep, Ends
<1> QED BY <1>2, <1>3, <1>4, <1>5, <1>6, <1>7, <1>8, MasterKeepsSlave

\* The slave's loop and its timer leave the master alone.
MasterKept ==
    /\ UNCHANGED <<Mode, mpc, rx_byte, fresh, elapsed>>
    /\ RxBufByteCtr'["master"] = RxBufByteCtr["master"]
    /\ Received("master")' = Received("master")
    /\ RTU_TimeoutEn'["master"] = RTU_TimeoutEn["master"]
    /\ RTU_TimeoutCtr'["master"] = RTU_TimeoutCtr["master"]
    /\ RxDoneFlag'["master"] = RxDoneFlag["master"]

\* Nothing passes at an end.
LineKept(n) == uart'[n] = uart[n] /\ wire'[n] = wire[n]

\* What the slave was asked stays while neither its channel nor its line changes.
LEMMA AskedKept ==
    ASSUME NEW r, NEW f \in Lengths, SlaveIsAsked(r, f), SlaveKept, LineKept("slave")
    PROVE  SlaveIsAsked(r, f)'
<1>1. PICK l \in 0..f : \E k \in 0..l : OnWay("slave", r, f, k, l) /\ SlaveTakes(r, f, k)
  BY DEF SlaveIsAsked
<1>2. PICK k \in 0..l : OnWay("slave", r, f, k, l) /\ SlaveTakes(r, f, k)
  BY <1>1
<1>3. OnWay("slave", r, f, k, l)'
  BY <1>2 DEF OnWay, LineKept
<1>4. SlaveTakes(r, f, k)'
  BY <1>2 DEF SlaveTakes, SlaveKept
<1> QED BY <1>3, <1>4 DEF SlaveIsAsked

\* So does what the master was answered.
LEMMA AnsweredKept ==
    ASSUME NEW r, NEW f \in Lengths, MasterIsAnswered(r, f), MasterKept, LineKept("master")
    PROVE  MasterIsAnswered(r, f)'
<1>1. PICK l \in 0..f : \E k \in 0..l : OnWay("master", r, f, k, l) /\ MasterTakes(r, f, k)
  BY DEF MasterIsAnswered
<1>2. PICK k \in 0..l : OnWay("master", r, f, k, l) /\ MasterTakes(r, f, k)
  BY <1>1
<1>3. OnWay("master", r, f, k, l)'
  BY <1>2 DEF OnWay, LineKept
<1>4. Awaits(f, k, k)' = Awaits(f, k, k) /\ Awaits(f, k, k - 1)' = Awaits(f, k, k - 1)
  BY DEF Awaits, MasterKept
<1>5. MasterTakes(r, f, k)'
  BY <1>2, <1>4 DEF MasterTakes, MasterKept
<1> QED BY <1>3, <1>5 DEF MasterIsAnswered

\* The steps that leave the master alone.
LEMMA SlaveKeepsMaster ==
    ASSUME ModbusAssumption, ModbusInv,
           \/ UNCHANGED vars \/ SlaveStep \/ Tick("slave") \/ \E n \in Ends : Deliver(n) \/ Lose(n)
    PROVE  MasterKept
<1> HIDE DEF Bytes, NoByte
<1>1. /\ RTU_TimeoutEn \in [Ends -> BOOLEAN] /\ RTU_TimeoutCtr \in [Ends -> 0..Cnts]
      /\ RxDoneFlag \in [Ends -> {0, 1}] /\ RxBufByteCtr \in [Ends -> 0..BufSize]
      /\ RxBuf \in [Ends -> [0..(BufSize - 1) -> Bytes \cup {NoByte}]]
      /\ "slave" \in Ends /\ "master" \in Ends \ {"slave"}
  BY DEF ModbusInv, Typed, TimerType, BufType, Ends
<1>2. ASSUME UNCHANGED <<Mode, mpc, rx_byte, fresh, elapsed>>,
             UNCHANGED bufVars \/ KeepsOthers("slave"),
             RTU_TimeoutEn'["master"] = RTU_TimeoutEn["master"],
             RTU_TimeoutCtr'["master"] = RTU_TimeoutCtr["master"],
             RxDoneFlag'["master"] = RxDoneFlag["master"]
      PROVE  MasterKept
  BY <1>1, <1>2 DEF MasterKept, KeepsOthers, Received, bufVars
<1>3. CASE UNCHANGED vars
  BY <1>2, <1>3 DEF vars, timerVars, masterVars
<1>4. CASE SlaveReads
  <2>1. UNCHANGED <<Mode, mpc, rx_byte, fresh, elapsed, RTU_TimeoutEn, RxDoneFlag>>
    BY <1>4 DEF SlaveReads, masterVars
  <2>2. RTU_TimeoutCtr'["master"] = RTU_TimeoutCtr["master"]
    BY <1>1, <1>4 DEF SlaveReads
  <2>3. PICK b : Store("slave", b) \/ StoreAscii("slave", b) \/ ResetBuf("slave")
    BY <1>4 DEF SlaveReads, SlaveTask
  <2>4. \A e \in Ends \ {"slave"} : RxBuf'[e] = RxBuf[e] /\ RxBufByteCtr'[e] = RxBufByteCtr[e]
    BY <1>1, <2>3 DEF StoreAscii, Store, ResetBuf, bufVars
  <2>5. KeepsOthers("slave")
    BY <2>4 DEF KeepsOthers, Received
  <2> QED BY <1>2, <2>1, <2>2, <2>5
<1>5. CASE SlaveSleeps
  BY <1>2, <1>5 DEF SlaveSleeps, masterVars, timerVars
<1>6. CASE SlaveChecks
  <2>1. UNCHANGED <<Mode, mpc, rx_byte, fresh, elapsed, timerVars, RxDoneFlag>>
    BY <1>6 DEF SlaveChecks, masterVars
  <2>2. UNCHANGED bufVars \/ ResetBuf("slave")
    BY <1>6 DEF SlaveChecks, SlaveTask
  <2> QED BY <1>1, <1>2, <2>1, <2>2, ResetReceived DEF timerVars
<1>7. CASE SlaveClears
  BY <1>1, <1>2, <1>7 DEF SlaveClears, masterVars, timerVars
<1>8. CASE Tick("slave")
  BY <1>1, <1>2, <1>8 DEF Tick, masterVars
<1>9. CASE \E n \in Ends : Deliver(n) \/ Lose(n)
  BY <1>2, <1>9 DEF Deliver, Lose, masterVars, timerVars
<1> QED BY <1>3, <1>4, <1>5, <1>6, <1>7, <1>8, <1>9 DEF SlaveStep

-----------------------------------------------------------------------------
(***************************************************************************)
(* While the request is on its way.                                        *)
(***************************************************************************)

\* A call that begins on a quiet line puts its request on the way to a slave that
\* has nothing stored, before a master that has nothing stored either.
LEMMA CallAsks ==
    ASSUME ModbusAssumption, ModbusInv, SlaveSignalled, NEW kind \in Kinds, Call(kind), clean',
           NEW r \in 1..MaxCalls, NEW f \in Lengths, r = Len(sent) + 1, f = FrameSize[Mode]
    PROVE  Asking(r, f)'
<1> HIDE DEF Bytes, NoByte
<1>1. /\ RTU_TimeoutEn \in [Ends -> BOOLEAN] /\ RTU_TimeoutCtr \in [Ends -> 0..Cnts]
      /\ RxDoneFlag \in [Ends -> {0, 1}] /\ RxBufByteCtr \in [Ends -> 0..BufSize]
      /\ "slave" \in Ends /\ "master" \in Ends /\ Cnts \in Nat /\ BufSize \in Nat
      /\ wire \in [Ends -> Seq(Bytes)] /\ f \in Nat
      /\ f > 0 /\ 0 \in 0..f /\ 0 \in 0..0
  BY DEF ModbusInv, Typed, TimerType, BufType, LineType, Ends, ModbusAssumption, Lengths
<1>2. /\ UNCHANGED <<Mode, uart, bufVars, timerVars, RxDoneFlag, fresh, elapsed, spc>>
      /\ mpc = "idle" /\ mpc' = "flush" /\ Settled
      /\ wire' = [wire EXCEPT !["slave"] = @ \o Message(r, f)]
  BY DEF Call, Request, slaveVars
<1>3. MasterWaits'
  <2>1. Quiet("master")'
    BY <1>1, <1>2 DEF Quiet, Settled, Ends
  <2>2. RxBufByteCtr'["master"] = 0
    BY <1>2 DEF ModbusInv, EmptyBeforeWait, bufVars
  <2> QED BY <1>2, <2>1, <2>2 DEF MasterWaits
<1>4. OnWay("slave", r, f, 0, 0)'
  <2>1. Message(r, f) \in Seq(Bytes)
    BY MessageBytes
  <2>2. wire["slave"] = <<>> /\ uart["slave"] = <<>>
    BY <1>1, <1>2 DEF Settled
  <2>3. wire'["slave"] = Message(r, f) /\ uart'["slave"] = <<>>
    <3>1. <<>> \o Message(r, f) = Message(r, f)
      BY <2>1, ConcatEmptySeq
    <3> QED BY <1>1, <1>2, <2>2, <3>1
  <2>4. Run(r, 0, f) = Message(r, f) /\ Run(r, 0, 0) = <<>>
    BY RunFrame
  <2> QED BY <1>1, <2>3, <2>4 DEF OnWay
<1>5. SlaveTakes(r, f, 0)'
  <2>1. Run(r, 0, 0) = <<>>
    BY RunFrame
  <2>2. CASE Mode = "RTU"
    <3>1. RTU_TimeoutEn["slave"] /\ RTU_TimeoutCtr["slave"] = 0 /\ RxDoneFlag["slave"] = 0
          /\ spc = "read"
      BY <1>1, <1>2, <2>2 DEF Settled, SlaveSignalled
    <3>2. RxBufByteCtr["slave"] = 0
      BY <1>1, <2>2, <3>1 DEF SlaveSignalled
    <3>3. Received("slave")' = <<>>
      BY <1>1, <1>2, <3>2, NothingReceived DEF Received, bufVars
    <3> QED BY <1>2, <2>1, <2>2, <3>1, <3>3 DEF SlaveTakes, timerVars
  <2>3. CASE Mode = "ASCII"
    BY <1>1, <1>2, <2>3 DEF SlaveTakes
  <2> QED BY <2>2, <2>3 DEF ModbusInv, Typed, Modes
<1> QED BY <1>1, <1>3, <1>4, <1>5 DEF Asking, SlaveIsAsked

\* The master goes on waiting: it has nothing to read, and its clock has not run out.
LEMMA MasterGoesOnWaiting ==
    ASSUME ModbusAssumption, ModbusInv, NEW r, NEW f \in Lengths, Asking(r, f), MasterStep
    PROVE  Asking(r, f)'
<1> HIDE DEF Bytes, NoByte
<1>1. SlaveKept
  BY MasterKeepsSlave
<1>2. RxBufByteCtr \in [Ends -> 0..BufSize] /\ RxDoneFlag \in [Ends -> {0, 1}] /\ "master" \in Ends
  BY DEF ModbusInv, Typed, BufType, TimerType, Ends
<1>3. MasterWaits
  BY DEF Asking
<1>4. MasterWaits' /\ UNCHANGED lineVars
  <2>1. CASE Flush
    <3>1. RxBufByteCtr'["master"] = 0 /\ mpc' = "wait" /\ UNCHANGED lineVars
      BY <1>2, <2>1 DEF Flush
    <3> QED BY <1>3, <3>1 DEF MasterWaits, Quiet, lineVars
  <2>2. CASE WaitBegins
    <3>1. /\ RxDoneFlag'["master"] = 0 /\ ~elapsed' /\ ~fresh' /\ mpc' = "test"
          /\ RxBufByteCtr' = RxBufByteCtr /\ UNCHANGED lineVars
      BY <1>2, <2>2 DEF WaitBegins, bufVars
    <3> QED BY <1>3, <3>1 DEF MasterWaits, Quiet, lineVars
  <2>3. CASE WaitTests
    BY <1>3, <2>3 DEF WaitTests, MasterWaits, Quiet, lineVars, bufVars
  <2>4. CASE WaitSleeps
    BY <1>3, <2>4 DEF WaitSleeps, MasterWaits, Quiet, lineVars, bufVars
  <2>5. ~WaitReads /\ ~WaitStores /\ ~WaitTimesOut /\ ~Reply
    BY <1>3 DEF WaitReads, WaitStores, WaitTimesOut, Reply, MasterWaits, Quiet
  <2> QED BY <2>1, <2>2, <2>3, <2>4, <2>5 DEF MasterStep, WaitStep
<1>5. LineKept("slave")
  BY <1>4 DEF LineKept, lineVars
<1> QED BY <1>1, <1>4, <1>5, AskedKept DEF Asking

\* The master's own timer is off before it has read a byte, and signals nothing.
LEMMA MasterTicksUnasked ==
    ASSUME ModbusAssumption, ModbusInv, NEW r, NEW f \in Lengths, Asking(r, f), Tick("master")
    PROVE  Asking(r, f)'
<1> HIDE DEF Bytes, NoByte
<1>1. SlaveKept
  BY MasterKeepsSlave
<1>2. /\ UNCHANGED <<lineVars, bufVars, mpc, elapsed, fresh>> /\ Mode = "RTU"
      /\ ~RTU_TimeoutEn["master"] => UNCHANGED RxDoneFlag
  BY DEF Tick, masterVars
<1>3. mpc \in {"test", "read"} => ~RTU_TimeoutEn["master"]
  BY <1>2 DEF ModbusInv, NoSignalBeforeByte, Asking, MasterWaits
<1>4. MasterWaits'
  BY <1>2, <1>3 DEF Asking, MasterWaits, Quiet, lineVars, bufVars
<1>5. LineKept("slave")
  BY <1>2 DEF LineKept, lineVars
<1> QED BY <1>1, <1>4, <1>5, AskedKept DEF Asking

\* The clock does not run out: the slave has not handled the request, and the line is
\* not quiet.
LEMMA AskingNotSettled ==
    ASSUME ModbusAssumption, ModbusInv, SlaveSignalled, NEW r \in 1..MaxCalls,
           NEW f \in Lengths, Asking(r, f)
    PROVE  ~Settled
<1> SUFFICES ASSUME Settled PROVE FALSE
  OBVIOUS
<1>1. PICK l \in 0..f : \E k \in 0..l : OnWay("slave", r, f, k, l) /\ SlaveTakes(r, f, k)
  BY DEF Asking, SlaveIsAsked
<1>2. PICK k \in 0..l : OnWay("slave", r, f, k, l) /\ SlaveTakes(r, f, k)
  BY <1>1
<1>3. "slave" \in Ends
  BY DEF Ends
<1>4. k = f
  BY <1>2, <1>3, QuietOnWay DEF Settled, Quiet
<1>5. f \in Nat
  BY DEF ModbusAssumption, Lengths
<1>6. Mode = "RTU" /\ Received("slave") = Run(r, 0, f)
  BY <1>2, <1>4, <1>5 DEF SlaveTakes, ModbusInv, Typed, Modes
<1>7. RTU_TimeoutEn["slave"] /\ RTU_TimeoutCtr["slave"] = 0 /\ RxDoneFlag["slave"] = 0
  BY <1>3, <1>6 DEF Settled, SlaveSignalled
<1>8. RxBufByteCtr["slave"] # 0
  BY <1>3, <1>6, RunFrame, NothingReceived
<1>9. RxBufByteCtr["slave"] \in Nat
  BY <1>3 DEF ModbusInv, Typed, BufType, ModbusAssumption, Lengths
<1> QED BY <1>6, <1>7, <1>8, <1>9 DEF SlaveSignalled

\* A byte of the request comes to the slave.
LEMMA AskingDelivers ==
    ASSUME ModbusAssumption, ModbusInv, NEW r \in 1..MaxCalls, NEW f \in Lengths,
           Asking(r, f), NEW n \in Ends, Deliver(n)
    PROVE  Asking(r, f)'
<1>1. n = "slave" /\ "slave" \in Ends
  BY DEF Asking, MasterWaits, Quiet, Deliver, Ends
<1>2. PICK l \in 0..f : \E k \in 0..l : OnWay("slave", r, f, k, l) /\ SlaveTakes(r, f, k)
  BY DEF Asking, SlaveIsAsked
<1>3. PICK k \in 0..l : OnWay("slave", r, f, k, l) /\ SlaveTakes(r, f, k)
  BY <1>2
<1>4. l + 1 \in 0..f /\ k \in 0..(l + 1) /\ OnWay("slave", r, f, k, l + 1)'
  BY <1>1, <1>3, DeliverOnWay
<1>5. SlaveKept
  BY MasterKeepsSlave
<1>6. SlaveTakes(r, f, k)'
  BY <1>3, <1>5 DEF SlaveTakes, SlaveKept
<1>7. MasterWaits'
  <2> HIDE DEF Bytes
  <2>1. wire \in [Ends -> Seq(Bytes)] /\ uart \in [Ends -> Seq(Bytes)] /\ "master" \in Ends \ {n}
    BY <1>1 DEF ModbusInv, Typed, LineType, Ends
  <2>2. UNCHANGED <<bufVars, RxDoneFlag, mpc, fresh, elapsed>>
        /\ wire'["master"] = wire["master"] /\ uart'["master"] = uart["master"]
    BY <2>1 DEF Deliver, masterVars
  <2> QED BY <2>2 DEF Asking, MasterWaits, Quiet, bufVars
<1> QED BY <1>4, <1>6, <1>7 DEF Asking, SlaveIsAsked

\* A message is parsed at the end it is for, unless it is a refusal in ASCII mode.
LEMMA MessageParsed ==
    ASSUME ModbusAssumption, ModbusInv, NEW n \in Ends, NEW r \in 1..MaxCalls, NEW f \in Lengths,
           f = Size(n, r)
    PROVE  Parsed(n, Message(r, f)) <=> ~(Mode = "ASCII" /\ n = "master" /\ sent[r] = "illegal")
<1>1. /\ Len(Message(r, f)) = f /\ Message(r, f)[1] = <<r, 1>> /\ Message(r, f)[f] = <<r, f>>
      /\ f \in Nat
  <2>1. f \in 1..f /\ f \in Nat
    BY DEF Lengths, ModbusAssumption
  <2> QED BY <2>1, MessageBytes
<1>2. First(<<r, 1>>) /\ Last(n, <<r, f>>)
  BY DEF First, Last
<1>3. Mode \in {"RTU", "ASCII"} /\ {"RTU", "ASCII"} = Modes
  BY DEF ModbusInv, Typed, Modes
<1>4. /\ MinSize[Mode] \in Nat /\ RefusalSize[Mode] \in Nat /\ FrameSize[Mode] \in Nat
      /\ MinSize[Mode] <= RefusalSize[Mode] /\ RefusalSize[Mode] < FrameSize[Mode]
      /\ Mode = "ASCII" => RefusalSize[Mode] = MinSize[Mode] /\ FrameSize[Mode] % 2 = 1
  BY <1>3 DEF ModbusAssumption
<1> HIDE DEF Message
<1>5. CASE n = "master" /\ sent[r] = "illegal"
  <2>1. f = RefusalSize[Mode]
    BY <1>5 DEF Size
  <2>2. Mode = "RTU" => Parsed(n, Message(r, f))
    BY <1>1, <1>4, <2>1 DEF Parsed
  <2>3. Mode = "ASCII" => ~(f > MinSize["ASCII"])
    BY <1>4, <2>1
  <2>4. Mode = "ASCII" => ~Parsed(n, Message(r, f))
    BY <1>1, <2>3 DEF Parsed
  <2> QED BY <1>3, <1>5, <2>2, <2>4
<1>6. CASE ~(n = "master" /\ sent[r] = "illegal")
  <2>1. f = FrameSize[Mode]
    BY <1>6 DEF Size
  <2>2. f >= MinSize[Mode] /\ f > MinSize[Mode] /\ (Mode = "ASCII" => f % 2 = 1)
    BY <1>4, <2>1
  <2>3. Parsed(n, Message(r, f))
    BY <1>1, <1>2, <1>3, <2>2 DEF Parsed
  <2> QED BY <1>6, <2>3
<1> QED BY <1>5, <1>6

\* A whole request is sound.
LEMMA RequestIsSound ==
    ASSUME ModbusAssumption, ModbusInv, NEW r \in 1..Len(sent), r \in 1..MaxCalls
    PROVE  Sound(Request(r))
<1>1. PICK f \in Lengths : f = Size("slave", r)
  BY SizeIsLength DEF ModbusInv
<1>2. Request(r) = Message(r, f)
  BY <1>1 DEF Request, Size
<1>3. Parsed("slave", Request(r))
  BY <1>1, <1>2, MessageParsed DEF Ends
<1> QED BY <1>3 DEF Sound

\* The slave has the whole request: it answers it, or there is no answer to come.
LEMMA SlaveHandles ==
    ASSUME ModbusAssumption, ModbusInv, NEW r \in 1..Len(sent), r \in 1..MaxCalls,
           MasterWaits, MasterKept, Mode' = Mode, sent' = sent, uart'["master"] = uart["master"],
           uart'["slave"] = <<>>, wire["slave"] = <<>>,
           \/ SlaveTask(Request(r))
           \/ ~Answers(sent[r]) /\ ResetBuf("slave") /\ UNCHANGED wire
    PROVE  UnderWay(r)'
<1> HIDE DEF Bytes, NoByte
<1>0. PICK f \in Lengths : f = Size("master", r)
  BY SizeIsLength DEF ModbusInv
<1>1. /\ wire \in [Ends -> Seq(Bytes)] /\ f \in Nat /\ f > 0
      /\ "slave" \in Ends \ {"master"} /\ "master" \in Ends
      /\ 0 \in 0..f /\ 0 \in 0..0
      /\ RxDoneFlag \in [Ends -> {0, 1}]
  BY DEF ModbusInv, Typed, LineType, TimerType, Ends, ModbusAssumption, Lengths
<1>2. ResetBuf("slave")
  BY DEF SlaveTask
<1>3. RxBufByteCtr'["slave"] = 0
  BY <1>1, <1>2, ResetReceived
<1>4. wire' = IF Answers(sent[r]) THEN [wire EXCEPT !["master"] = @ \o Message(r, f)] ELSE wire
  <2>1. CASE SlaveTask(Request(r))
    <3>1. PICK g \in Lengths : g = Size("slave", r)
      BY SizeIsLength DEF Ends, ModbusInv
    <3>2. Request(r) = Message(r, g)
      BY <3>1 DEF Request, Size
    <3>3. Sound(Request(r)) /\ Request(r)[1][1] = r
      BY <3>1, <3>2, RequestIsSound, MessageBytes
    <3>4. Answer(r) = Message(r, f)
      BY <1>0 DEF Answer
    <3> QED BY <2>1, <3>3, <3>4 DEF SlaveTask
  <2>2. CASE ~Answers(sent[r]) /\ ResetBuf("slave") /\ UNCHANGED wire
    BY <2>2
  <2> QED BY <2>1, <2>2
<1>5. SlaveIsDone'
  <2>1. wire'["slave"] = wire["slave"]
    BY <1>1, <1>4
  <2> QED BY <1>3, <2>1 DEF SlaveIsDone, Quiet
<1>6. Quiet("master") /\ RxBufByteCtr["master"] = 0
  BY DEF MasterWaits
<1>7. CASE Answers(sent[r])
  <2>1. Run(r, 0, f) = Message(r, f) /\ Run(r, 0, 0) = <<>> /\ Message(r, f) \in Seq(Bytes)
    BY RunFrame, MessageBytes
  <2>2. wire'["master"] = Message(r, f) /\ uart'["master"] = <<>>
    <3>1. <<>> \o Message(r, f) = Message(r, f)
      BY <2>1, ConcatEmptySeq
    <3> QED BY <1>1, <1>4, <1>6, <1>7, <3>1 DEF Quiet
  <2>3. OnWay("master", r, f, 0, 0)'
    BY <1>1, <2>1, <2>2 DEF OnWay
  <2>4. MasterTakes(r, f, 0)'
    <3>1. CASE mpc \in {"flush", "wait"}
      BY <1>6, <3>1 DEF MasterKept, MasterTakes
    <3>2. CASE mpc \in {"test", "read"}
      <4>1. ~fresh /\ ~elapsed /\ RxDoneFlag["master"] = 0
        BY <3>2 DEF MasterWaits
      <4>2. Received("master")' = Run(r, 0, 0)
        BY <1>1, <1>6, <2>1, NothingReceived DEF MasterKept
      <4>3. Awaits(f, 0, 0)'
        BY <1>1, <4>1 DEF Awaits, MasterKept
      <4> QED BY <3>2, <4>1, <4>2, <4>3 DEF MasterTakes, MasterKept
    <3> QED BY <3>1, <3>2 DEF MasterWaits
  <2>5. MasterIsAnswered(r, f)'
    BY <1>1, <2>3, <2>4 DEF MasterIsAnswered
  <2>6. Size("master", r)' = f
    BY <1>0 DEF Size
  <2> QED BY <1>5, <1>7, <2>5, <2>6 DEF UnderWay, Answering
<1>8. CASE ~Answers(sent[r])
  <2>1. Quiet("master")' /\ RxBufByteCtr'["master"] = 0
    BY <1>4, <1>6, <1>8 DEF Quiet, MasterKept
  <2>2. Silent'
    BY <1>5, <2>1 DEF Silent, MasterWaits, MasterKept
  <2> QED BY <1>8, <2>2 DEF UnderWay
<1> QED BY <1>7, <1>8

\* The slave's timer runs out when the whole request is stored, or the call is no
\* longer clean.
LEMMA SlaveTicksAsked ==
    ASSUME ModbusAssumption, ModbusInv, SlaveSignalled, NEW r \in 1..MaxCalls,
           NEW f \in Lengths, Asking(r, f),
           Tick("slave"), clean'
    PROVE  Asking(r, f)'
<1> HIDE DEF Bytes, NoByte
<1>1. /\ RTU_TimeoutCtr \in [Ends -> 0..Cnts] /\ RxDoneFlag \in [Ends -> {0, 1}]
      /\ "slave" \in Ends /\ "master" \in Ends /\ "slave" # "master" /\ Cnts \in Nat /\ f \in Nat
  BY DEF ModbusInv, Typed, TimerType, Ends, ModbusAssumption, Lengths
<1>2. PICK l \in 0..f : \E k \in 0..l : OnWay("slave", r, f, k, l) /\ SlaveTakes(r, f, k)
  BY DEF Asking, SlaveIsAsked
<1>3. PICK k \in 0..l : OnWay("slave", r, f, k, l) /\ SlaveTakes(r, f, k)
  BY <1>2
<1>4. /\ Mode = "RTU" /\ RTU_TimeoutEn["slave"] /\ RTU_TimeoutCtr["slave"] > 0
      /\ UNCHANGED <<Mode, lineVars, bufVars, spc>>
      /\ RTU_TimeoutCtr["slave"] # 1 => UNCHANGED RxDoneFlag
  BY DEF Tick, SlaveSignalled, slaveVars
<1>5. MasterKept
  BY SlaveKeepsMaster
<1>6. MasterWaits'
  BY <1>4, <1>5 DEF Asking, MasterWaits, MasterKept, Quiet, lineVars
<1>7. OnWay("slave", r, f, k, l)'
  BY <1>3, <1>4 DEF OnWay, lineVars
<1>8. k # 0 /\ k \in Nat
  BY <1>1, <1>3, <1>4 DEF SlaveTakes
<1>9. k < f => UNCHANGED RxDoneFlag
  <2>1. CASE RTU_TimeoutCtr["slave"] = 1
    <3>1. clean' => ~InFrame("slave")
      BY <1>4, <2>1 DEF Tick
    <3>2. k = 0 \/ k = f
      BY <1>1, <1>3, <3>1, RestOnWay
    <3> QED BY <1>1, <1>8, <3>2
  <2> QED BY <1>4, <2>1
<1>10. SlaveTakes(r, f, k)'
  BY <1>3, <1>4, <1>8, <1>9 DEF SlaveTakes, Received, bufVars
<1> QED BY <1>6, <1>7, <1>10 DEF Asking, SlaveIsAsked

\* The slave takes the next byte of the request; in ASCII mode the last one makes it
\* handle the request.
LEMMA SlaveReadsAsked ==
    ASSUME ModbusAssumption, ModbusInv, SlaveSignalled, NEW r \in 1..Len(sent),
           r \in 1..MaxCalls, NEW f \in Lengths,
           f = Size("slave", r), Asking(r, f), SlaveReads
    PROVE  UnderWay(r)'
<1> HIDE DEF Bytes, NoByte
<1>1. /\ RTU_TimeoutCtr \in [Ends -> 0..Cnts] /\ RxDoneFlag \in [Ends -> {0, 1}]
      /\ uart \in [Ends -> Seq(Bytes)] /\ wire \in [Ends -> Seq(Bytes)]
      /\ "slave" \in Ends /\ "master" \in Ends \ {"slave"}
      /\ Cnts \in Nat /\ Cnts > 0 /\ f \in Nat /\ f <= BufSize /\ BufSize \in Nat
      /\ f > 1 /\ RxBufByteCtr["slave"] \in 0..BufSize
      /\ Mode \in {"RTU", "ASCII"}
  <2>1. BufSize \in Nat /\ Cnts \in Nat /\ Cnts > 0 /\ f \in Nat /\ f <= BufSize /\ f > 1
    BY DEF ModbusAssumption, Lengths
  <2> QED BY <2>1 DEF Modes, ModbusInv, Typed, LineType, BufType, TimerType, Ends
<1>2. PICK l \in 0..f : \E k \in 0..l : OnWay("slave", r, f, k, l) /\ SlaveTakes(r, f, k)
  BY DEF Asking, SlaveIsAsked
<1>3. PICK k \in 0..l : OnWay("slave", r, f, k, l) /\ SlaveTakes(r, f, k)
  BY <1>2
<1>4. k \in Nat /\ l \in Nat /\ k <= l /\ l <= f
  BY <1>1
<1>5. /\ uart["slave"] # <<>> /\ uart'["slave"] = Tail(uart["slave"])
      /\ uart'["master"] = uart["master"] /\ wire'["slave"] = wire["slave"] /\ sent' = sent
  <2>1. uart' = [uart EXCEPT !["slave"] = Tail(@)] /\ uart["slave"] # <<>> /\ sent' = sent
    BY DEF SlaveReads, masterVars
  <2>2. UNCHANGED wire \/ \E s : wire' = [wire EXCEPT !["master"] = s]
    BY DEF SlaveReads, SlaveTask
  <2> QED BY <1>1, <2>1, <2>2
<1>6. /\ Head(uart["slave"]) = <<r, k + 1>>
      /\ k < f /\ k + 1 \in 0..l /\ OnWay("slave", r, f, k + 1, l)'
  <2>1. "slave" \in Ends /\ r \in 1..MaxCalls
    BY <1>1
  <2> QED BY <1>3, <1>5, <2>1, ReadOnWay
<1>7. OnWay("slave", r, f, k + 1, l)'
  BY <1>6
<1>8. MasterKept
  BY SlaveKeepsMaster DEF SlaveStep
<1>9. MasterWaits
  BY DEF Asking
<1>a. Mode' = Mode /\ Size("slave", r)' = f /\ Request(r) = Message(r, f)
  <2>1. Mode' = Mode /\ f = FrameSize[Mode]
    BY DEF SlaveReads, Size
  <2> QED BY <2>1 DEF Size, Request
<1>b. Asking(r, f)' => UnderWay(r)'
  BY <1>a DEF UnderWay
<1>10. ASSUME wire' = wire PROVE MasterWaits'
  BY <1>5, <1>8, <1>9, <1>10 DEF MasterWaits, MasterKept, Quiet
<1>11. CASE Mode = "RTU"
  <2>1. /\ UNCHANGED wire /\ Store("slave", <<r, k + 1>>) /\ spc' = "check" /\ Mode' = Mode
        /\ RxDoneFlag' = RxDoneFlag
    BY <1>6, <1>11 DEF SlaveReads
  <2>2. Received("slave") = Run(r, 0, k) /\ RxDoneFlag["slave"] = 0
    BY <1>3, <1>6, <1>11 DEF SlaveTakes
  <2>3. k \in 0..f
    BY <1>1, <1>4
  <2>4. Received("slave")' = Run(r, 0, k + 1)
    BY <1>1, <1>6, <2>1, <2>2, <2>3, TakesNext
  <2>5. k + 1 # 0
    BY <1>4
  <2>6. SlaveTakes(r, f, k + 1)'
    BY <1>11, <2>1, <2>2, <2>4, <2>5 DEF SlaveTakes
  <2>7. MasterWaits'
    BY <1>10, <2>1
  <2> QED BY <1>6, <1>7, <1>b, <2>6, <2>7 DEF Asking, SlaveIsAsked
<1>12. CASE Mode = "ASCII"
  <2>1. k > 0 => Received("slave") = Run(r, 0, k)
    BY <1>3, <1>12 DEF SlaveTakes
  <2>2. Mode' = Mode /\ k \in 0..f
    <3>1. k \in 0..f
      BY <1>1, <1>4
    <3>2. Mode' = Mode
      BY DEF SlaveReads
    <3> QED BY <3>1, <3>2
  <2>3. Last("slave", <<r, k + 1>>) <=> k + 1 = f
    BY DEF Last
  <2>4. CASE k + 1 # f
    <3>1. k + 1 < f
      BY <1>1, <1>4, <1>6, <2>4
    <3>2. StoreAscii("slave", <<r, k + 1>>) /\ UNCHANGED wire
      BY <1>6, <1>12, <2>3, <2>4 DEF SlaveReads
    <3>3. Received("slave")' = Run(r, 0, k + 1)
      BY <1>1, <1>6, <2>1, <2>2, <3>2, TakesNext
    <3>4. SlaveTakes(r, f, k + 1)'
      BY <1>12, <2>2, <3>1, <3>3 DEF SlaveTakes
    <3>5. MasterWaits'
      BY <1>10, <3>2
    <3> QED BY <1>6, <1>7, <1>b, <3>4, <3>5 DEF Asking, SlaveIsAsked
  <2>5. CASE k + 1 = f
    <3>1. k > 0 /\ 0 \in 0..k /\ 1 \in 1..k /\ k - 0 = k /\ l = f
      BY <1>1, <1>4, <1>6, <2>5
    <3>2. IsRun(Run(r, 0, k), r, 0, k)
      BY <2>2, <3>1, RunBytes
    <3>3. Received("slave") = Run(r, 0, k)
      BY <2>1, <3>1
    <3>4. Len(Received("slave")) = k /\ Received("slave")[1] = <<r, 0 + 1>>
      BY <3>1, <3>2, <3>3 DEF IsRun
    <3>5. RxBufByteCtr["slave"] = k /\ RxBuf["slave"][0] = <<r, 1>>
      <4>1. RxBufByteCtr["slave"] = k
        BY <1>1, <3>4, ReceivedIsStored
      <4>2. Received("slave")[1] = RxBuf["slave"][1 - 1]
        BY <3>1, <4>1 DEF Received
      <4> QED BY <3>4, <4>1, <4>2
    <3>6. Append(Received("slave"), <<r, k + 1>>) = Request(r)
      <4>1. Append(Run(r, 0, k), <<r, k + 1>>) = Run(r, 0, k + 1)
        BY <1>6, <2>2, <3>1, RunAppend
      <4> QED BY <1>a, <2>5, <3>3, <4>1, RunFrame
    <3>7. RxBufByteCtr["slave"] < BufSize /\ RxBufByteCtr["slave"] # 0
      <4>1. k < BufSize /\ k # 0
        BY <1>1, <1>4, <1>6, <3>1
      <4> QED BY <3>5, <4>1
    <3>8. First(<<r, 1>>) /\ <<r, 1>>[1] = r
      BY DEF First
    <3>9. \/ SlaveTask(Request(r))
          \/ ~Answers(sent[r]) /\ ResetBuf("slave") /\ UNCHANGED wire
      <4> HIDE DEF SlaveTask
      <4> QED BY <1>6, <1>12, <2>3, <2>5, <3>5, <3>6, <3>7, <3>8 DEF SlaveReads
    <3>10. uart'["slave"] = <<>> /\ wire["slave"] = <<>>
      <4>1. IsRun(Run(r, f, f), r, f, f)
        <5>1. f \in 0..f
          BY <1>1
        <5> QED BY <5>1, RunBytes
      <4> QED BY <1>5, <1>7, <2>5, <3>1, <4>1 DEF OnWay, IsRun
    <3> QED BY <1>5, <1>8, <1>9, <1>a, <3>9, <3>10, SlaveHandles
  <2> QED BY <2>4, <2>5
<1> QED BY <1>1, <1>11, <1>12

\* The slave looks at its flag, and handles the request when all of it is stored.
LEMMA SlaveLoopsAsked ==
    ASSUME ModbusAssumption, ModbusInv, SlaveSignalled, NEW r \in 1..Len(sent),
           r \in 1..MaxCalls, NEW f \in Lengths,
           f = Size("slave", r), Asking(r, f), SlaveSleeps \/ SlaveChecks \/ SlaveClears
    PROVE  UnderWay(r)'
<1> HIDE DEF Bytes, NoByte
<1>1. RxDoneFlag \in [Ends -> {0, 1}] /\ "slave" \in Ends /\ "master" \in Ends /\ f \in Nat
      /\ Mode \in {"RTU", "ASCII"}
  BY DEF Modes, ModbusInv, Typed, TimerType, Ends, ModbusAssumption, Lengths
<1>2. PICK l \in 0..f : \E k \in 0..l : OnWay("slave", r, f, k, l) /\ SlaveTakes(r, f, k)
  BY DEF Asking, SlaveIsAsked
<1>3. PICK k \in 0..l : OnWay("slave", r, f, k, l) /\ SlaveTakes(r, f, k)
  BY <1>2
<1>4. MasterKept
  BY SlaveKeepsMaster DEF SlaveStep
<1>a. Mode' = Mode /\ Size("slave", r)' = f /\ Request(r) = Message(r, f)
  <2>1. Mode' = Mode /\ f = FrameSize[Mode]
    BY DEF SlaveSleeps, SlaveChecks, SlaveClears, Size
  <2> QED BY <2>1 DEF Size, Request
<1>b. Asking(r, f)' => UnderWay(r)'
  BY <1>a DEF UnderWay
<1>5. ASSUME UNCHANGED <<Mode, lineVars, bufVars, timerVars, RxDoneFlag>>,
             Mode = "RTU" => spc' \in {"read", "check"}
      PROVE  Asking(r, f)'
  <2>1. SlaveTakes(r, f, k)'
    BY <1>3, <1>5 DEF SlaveTakes, Received, bufVars, timerVars
  <2>2. OnWay("slave", r, f, k, l)'
    BY <1>3, <1>5 DEF OnWay, lineVars
  <2>3. MasterWaits'
    BY <1>4, <1>5 DEF Asking, MasterWaits, MasterKept, Quiet, lineVars
  <2> QED BY <2>1, <2>2, <2>3 DEF Asking, SlaveIsAsked
<1>6. CASE SlaveSleeps
  BY <1>5, <1>6, <1>b DEF SlaveSleeps
<1>7. CASE SlaveChecks
  <2>1. Mode = "RTU" /\ UNCHANGED <<Mode, uart, timerVars, RxDoneFlag, sent>>
    BY <1>1, <1>7 DEF SlaveChecks, SlaveSignalled, masterVars
  <2>2. CASE RxDoneFlag["slave"] = 0
    BY <1>5, <1>7, <1>b, <2>1, <2>2 DEF SlaveChecks, lineVars
  <2>3. CASE RxDoneFlag["slave"] # 0
    <3>1. k = f
      BY <1>1, <1>3, <2>1, <2>3 DEF SlaveTakes
    <3>2. SlaveTask(Received("slave")) /\ Received("slave") = Request(r)
      BY <1>3, <1>7, <1>a, <2>1, <2>3, <3>1, RunFrame DEF SlaveChecks, SlaveTakes
    <3>3. Quiet("slave")
      BY <1>1, <1>3, <3>1, QuietOnWay
    <3> QED BY <1>4, <2>1, <3>2, <3>3, SlaveHandles DEF Asking, Quiet
  <2> QED BY <2>2, <2>3
<1>8. ~SlaveClears
  BY <1>1, <1>3 DEF SlaveClears, SlaveTakes, SlaveSignalled
<1> QED BY <1>6, <1>7, <1>8

-----------------------------------------------------------------------------
(***************************************************************************)
(* While the answer is on its way.                                         *)
(***************************************************************************)

\* A slave that has handled the request, and stored nothing since, stays so.
LEMMA SlaveStaysDone ==
    ASSUME ModbusAssumption, ModbusInv, SlaveIsDone, SlaveStep \/ Tick("slave")
    PROVE  SlaveIsDone' /\ UNCHANGED lineVars
<1> HIDE DEF Bytes, NoByte
<1>1. "slave" \in Ends /\ RxDoneFlag \in [Ends -> {0, 1}] /\ RxBufByteCtr["slave"] \in 0..BufSize
  BY DEF ModbusInv, Typed, TimerType, BufType, Ends
<1>2. ASSUME UNCHANGED lineVars, UNCHANGED bufVars \/ ResetBuf("slave")
      PROVE  SlaveIsDone' /\ UNCHANGED lineVars
  BY <1>1, <1>2, ResetReceived DEF SlaveIsDone, Quiet, lineVars, bufVars
<1>3. ~SlaveReads
  BY DEF SlaveReads, SlaveIsDone, Quiet
<1>4. CASE SlaveSleeps \/ SlaveClears \/ Tick("slave")
  BY <1>2, <1>4 DEF SlaveSleeps, SlaveClears, Tick
<1>5. CASE SlaveChecks
  <2>1. Received("slave") = <<>>
    BY <1>1, NothingReceived DEF SlaveIsDone
  <2>3. ~Sound(<<>>)
    BY NothingParsed DEF Sound
  <2>4. UNCHANGED bufVars \/ ResetBuf("slave")
    BY <1>5 DEF SlaveChecks, SlaveTask
  <2>5. UNCHANGED lineVars
    BY <1>5, <2>1, <2>3 DEF SlaveChecks, SlaveTask, lineVars
  <2> QED BY <1>2, <2>4, <2>5
<1> QED BY <1>3, <1>4, <1>5 DEF SlaveStep

\* It stays so while the master and the line do not touch it either.
LEMMA DoneKept ==
    ASSUME SlaveIsDone, SlaveKept, LineKept("slave")
    PROVE  SlaveIsDone'
  BY DEF SlaveIsDone, SlaveKept, LineKept, Quiet

\* A byte of the answer comes to the master.
LEMMA AnsweringDelivers ==
    ASSUME ModbusAssumption, ModbusInv, NEW r \in 1..MaxCalls, NEW f \in Lengths,
           Answering(r, f), NEW n \in Ends, Deliver(n)
    PROVE  Answering(r, f)'
<1>1. n = "master" /\ "master" \in Ends
  BY DEF Answering, SlaveIsDone, Quiet, Deliver, Ends
<1>2. PICK l \in 0..f : \E k \in 0..l : OnWay("master", r, f, k, l) /\ MasterTakes(r, f, k)
  BY DEF Answering, MasterIsAnswered
<1>3. PICK k \in 0..l : OnWay("master", r, f, k, l) /\ MasterTakes(r, f, k)
  BY <1>2
<1>4. l + 1 \in 0..f /\ k \in 0..(l + 1) /\ OnWay("master", r, f, k, l + 1)'
  BY <1>1, <1>3, DeliverOnWay
<1>5. MasterKept
  BY SlaveKeepsMaster
<1>6. Awaits(f, k, k)' = Awaits(f, k, k) /\ Awaits(f, k, k - 1)' = Awaits(f, k, k - 1)
  BY <1>5 DEF Awaits, MasterKept
<1>7. MasterTakes(r, f, k)'
  BY <1>3, <1>5, <1>6 DEF MasterTakes, MasterKept
<1>8. SlaveIsDone'
  <2> HIDE DEF Bytes
  <2>1. wire \in [Ends -> Seq(Bytes)] /\ uart \in [Ends -> Seq(Bytes)] /\ "slave" \in Ends \ {n}
    BY <1>1 DEF ModbusInv, Typed, LineType, Ends
  <2>2. UNCHANGED bufVars /\ wire'["slave"] = wire["slave"] /\ uart'["slave"] = uart["slave"]
    BY <2>1 DEF Deliver
  <2> QED BY <2>2 DEF Answering, SlaveIsDone, Quiet, bufVars
<1> QED BY <1>4, <1>7, <1>8 DEF Answering, MasterIsAnswered

\* The master's timer runs out when it has read the whole answer, or the call is no
\* longer clean.
LEMMA MasterTicksAnswered ==
    ASSUME ModbusAssumption, ModbusInv, NEW r \in 1..MaxCalls, NEW f \in Lengths,
           Answering(r, f), Tick("master"), clean'
    PROVE  Answering(r, f)'
<1> HIDE DEF Bytes, NoByte
<1>1. /\ RTU_TimeoutCtr \in [Ends -> 0..Cnts] /\ RxDoneFlag \in [Ends -> {0, 1}]
      /\ RTU_TimeoutEn \in [Ends -> BOOLEAN]
      /\ "slave" \in Ends /\ "master" \in Ends /\ "slave" # "master"
      /\ Cnts \in Nat /\ Cnts > 0 /\ f \in Nat
  BY DEF ModbusInv, Typed, TimerType, Ends, ModbusAssumption, Lengths
<1>2. PICK l \in 0..f : \E k \in 0..l : OnWay("master", r, f, k, l) /\ MasterTakes(r, f, k)
  BY DEF Answering, MasterIsAnswered
<1>3. PICK k \in 0..l : OnWay("master", r, f, k, l) /\ MasterTakes(r, f, k)
  BY <1>2
<1>4. k \in Nat
  BY <1>1, <1>3
<1>5. Mode = "RTU" /\ UNCHANGED <<Mode, lineVars, bufVars, mpc, rx_byte, elapsed, fresh>>
  BY DEF Tick, masterVars
<1>6. SlaveKept
  BY MasterKeepsSlave
<1>7. SlaveIsDone'
  BY <1>5, <1>6, DoneKept DEF Answering, LineKept, lineVars
<1>8. OnWay("master", r, f, k, l)'
  BY <1>3, <1>5 DEF OnWay, lineVars
<1>9. Received("master")' = Received("master") /\ RxBufByteCtr' = RxBufByteCtr
  BY <1>5 DEF Received, bufVars
<1>10. CASE mpc \in {"flush", "wait", "reply"}
  <2>1. MasterTakes(r, f, k)'
    BY <1>3, <1>5, <1>9, <1>10 DEF MasterTakes
  <2> QED BY <1>7, <1>8, <2>1 DEF Answering, MasterIsAnswered
<1>11. CASE mpc \in {"test", "read", "store"}
  <2>1. k = 0 => ~RTU_TimeoutEn["master"]
    BY <1>3, <1>5, <1>11 DEF MasterTakes, ModbusInv, NoSignalBeforeByte
  <2>2. \/ RxDoneFlag'["master"] = RxDoneFlag["master"]
        \/ k = f /\ RxDoneFlag'["master"] = 1
    <3>1. CASE RTU_TimeoutEn["master"] /\ RTU_TimeoutCtr["master"] = 1
      <4>1. RxDoneFlag'["master"] = 1 /\ ~InFrame("master")
        BY <1>1, <3>1 DEF Tick
      <4>2. k = 0 \/ k = f
        BY <1>1, <1>3, <4>1, RestOnWay
      <4> QED BY <2>1, <3>1, <4>1, <4>2
    <3>2. CASE ~(RTU_TimeoutEn["master"] /\ RTU_TimeoutCtr["master"] = 1)
      BY <3>2 DEF Tick
    <3> QED BY <3>1, <3>2
  <2>3. RTU_TimeoutCtr["master"] > 0 => RTU_TimeoutCtr'["master"] > 0 \/ RxDoneFlag'["master"] = 1
    BY <1>1 DEF Tick
  <2>4. RTU_TimeoutEn["master"] => RTU_TimeoutEn'["master"] \/ RxDoneFlag'["master"] = 1
    BY <1>1 DEF Tick
  <2>5. ASSUME NEW s, Awaits(f, k, s) PROVE Awaits(f, k, s)'
    <3>1. RxDoneFlag["master"] = 1 => RxDoneFlag'["master"] = 1
      BY <2>2
    <3> QED BY <1>5, <2>2, <2>3, <2>4, <2>5, <3>1 DEF Awaits
  <2>6. MasterTakes(r, f, k)'
    BY <1>3, <1>5, <1>9, <1>11, <2>5 DEF MasterTakes
  <2> QED BY <1>7, <1>8, <2>6 DEF Answering, MasterIsAnswered
<1> QED BY <1>3, <1>10, <1>11 DEF MasterTakes

\* The clock runs out, in a clean call, behind the last byte of an ASCII answer only.
LEMMA ElapsesAnswered ==
    ASSUME ModbusAssumption, ModbusInv, NEW r \in 1..MaxCalls, NEW f \in Lengths,
           Answering(r, f), Elapse, Settled
    PROVE  Answering(r, f)'
<1> HIDE DEF Bytes, NoByte
<1>1. "master" \in Ends /\ "slave" \in Ends /\ f \in Nat /\ f > 1
      /\ RTU_TimeoutCtr["master"] \in Nat
  BY DEF ModbusInv, Typed, TimerType, Ends, ModbusAssumption, Lengths
<1>2. PICK l \in 0..f : \E k \in 0..l : OnWay("master", r, f, k, l) /\ MasterTakes(r, f, k)
  BY DEF Answering, MasterIsAnswered
<1>3. PICK k \in 0..l : OnWay("master", r, f, k, l) /\ MasterTakes(r, f, k)
  BY <1>2
<1>4. /\ UNCHANGED <<Mode, lineVars, bufVars, timerVars, RxDoneFlag, mpc, rx_byte, fresh>>
      /\ mpc \in {"test", "read", "store"}
  BY DEF Elapse
<1>5. k = f
  BY <1>1, <1>3, QuietOnWay DEF Settled, Quiet
<1>6. Mode = "ASCII"
  <2> SUFFICES ASSUME Mode = "RTU" PROVE FALSE
    BY DEF ModbusInv, Typed, Modes
  <2>1. RTU_TimeoutEn["master"] => RTU_TimeoutCtr["master"] = 0
    BY <1>1 DEF Settled
  <2>2. RxDoneFlag["master"] = 0
    BY <1>1 DEF Settled
  <2>3. PICK s \in {k, k - 1} : Awaits(f, k, s)
    BY <1>3, <1>4 DEF MasterTakes
  <2>4. k > 0 /\ s > 0
    BY <1>1, <1>5
  <2> QED BY <1>1, <2>1, <2>2, <2>3, <2>4 DEF Awaits
<1>7. ASSUME NEW s, Awaits(f, k, s) PROVE Awaits(f, k, s)'
  BY <1>4, <1>5, <1>6, <1>7 DEF Awaits, timerVars
<1>8. Received("master")' = Received("master")
  BY <1>4 DEF Received, bufVars
<1>9. MasterTakes(r, f, k)'
  BY <1>3, <1>4, <1>7, <1>8 DEF MasterTakes
<1>10. OnWay("master", r, f, k, l)'
  BY <1>3, <1>4 DEF OnWay, lineVars
<1>11. SlaveIsDone'
  BY <1>4, DoneKept, MasterKeepsSlave DEF Answering, LineKept, lineVars
<1> QED BY <1>9, <1>10, <1>11 DEF Answering, MasterIsAnswered

\* The master goes on: it reads and stores the answer, and does not give up before.
LEMMA MasterReadsAnswer ==
    ASSUME ModbusAssumption, ModbusInv, NEW r \in 1..MaxCalls, NEW f \in Lengths,
           f = Size("master", r), Answering(r, f),
           Flush \/ WaitStep
    PROVE  Answering(r, f)'
<1> HIDE DEF Bytes, NoByte
<1>1. /\ RTU_TimeoutCtr \in [Ends -> 0..Cnts] /\ RxDoneFlag \in [Ends -> {0, 1}]
      /\ RTU_TimeoutEn \in [Ends -> BOOLEAN] /\ RxBufByteCtr \in [Ends -> 0..BufSize]
      /\ uart \in [Ends -> Seq(Bytes)] /\ wire \in [Ends -> Seq(Bytes)]
      /\ "slave" \in Ends \ {"master"} /\ "master" \in Ends
      /\ Cnts \in Nat /\ Cnts > 0 /\ f \in Nat /\ f > 1 /\ Mode \in {"RTU", "ASCII"}
  <2>1. Cnts \in Nat /\ Cnts > 0 /\ f \in Nat /\ f > 1
    BY DEF ModbusAssumption, Lengths
  <2> QED BY <2>1 DEF Modes, ModbusInv, Typed, LineType, BufType, TimerType, Ends
<1>2. PICK l \in 0..f : \E k \in 0..l : OnWay("master", r, f, k, l) /\ MasterTakes(r, f, k)
  BY DEF Answering, MasterIsAnswered
<1>3. PICK k \in 0..l : OnWay("master", r, f, k, l) /\ MasterTakes(r, f, k)
  BY <1>2
<1>4. k \in Nat /\ l \in Nat /\ k <= l /\ l <= f /\ k \in 0..f
  BY <1>1
<1>5. SlaveKept
  BY MasterKeepsSlave DEF MasterStep
<1>6. Run(r, 0, 0) = <<>>
  BY RunFrame
<1>7. ASSUME UNCHANGED lineVars PROVE SlaveIsDone' /\ OnWay("master", r, f, k, l)'
  BY <1>3, <1>5, <1>7, DoneKept DEF Answering, LineKept, OnWay, lineVars
<1>8. ASSUME UNCHANGED lineVars, MasterTakes(r, f, k)' PROVE Answering(r, f)'
  BY <1>7, <1>8 DEF Answering, MasterIsAnswered
<1>9. CASE Flush
  <2>1. mpc = "flush" /\ mpc' = "wait" /\ UNCHANGED lineVars /\ RxBufByteCtr'["master"] = 0
    BY <1>1, <1>9 DEF Flush
  <2>2. k = 0
    BY <1>3, <2>1 DEF MasterTakes
  <2>3. MasterTakes(r, f, k)'
    BY <2>1, <2>2 DEF MasterTakes
  <2> QED BY <1>8, <2>1, <2>3
<1>10. CASE WaitBegins
  <2>1. /\ mpc = "wait" /\ mpc' = "test" /\ UNCHANGED <<lineVars, bufVars>>
        /\ RxDoneFlag'["master"] = 0 /\ ~elapsed' /\ ~fresh'
    BY <1>1, <1>10 DEF WaitBegins
  <2>2. k = 0 /\ RxBufByteCtr["master"] = 0
    BY <1>3, <2>1 DEF MasterTakes
  <2>3. Received("master")' = Run(r, 0, 0)
    BY <1>1, <1>6, <2>1, <2>2, NothingReceived DEF Received, bufVars
  <2>4. Awaits(f, 0, 0)'
    BY <1>1, <2>1 DEF Awaits
  <2>5. MasterTakes(r, f, k)'
    BY <2>1, <2>2, <2>3, <2>4 DEF MasterTakes
  <2> QED BY <1>8, <2>1, <2>5
<1>11. CASE WaitTests
  <2>1. /\ mpc = "test"
        /\ UNCHANGED <<Mode, lineVars, bufVars, timerVars, RxDoneFlag, elapsed, fresh>>
        /\ mpc' = IF RxDoneFlag["master"] = 0 THEN "read" ELSE "reply"
    BY <1>11 DEF WaitTests
  <2>2. /\ Received("master") = Run(r, 0, k) /\ Awaits(f, k, k)
        /\ k = 0 => ~fresh
    BY <1>3, <2>1 DEF MasterTakes
  <2>3. Received("master")' = Run(r, 0, k)
    BY <2>1, <2>2 DEF Received, bufVars
  <2>4. CASE RxDoneFlag["master"] = 0
    <3>1. Awaits(f, k, k)'
      BY <2>1, <2>2, <2>4 DEF Awaits, timerVars
    <3>2. MasterTakes(r, f, k)'
      BY <2>1, <2>2, <2>3, <2>4, <3>1 DEF MasterTakes
    <3> QED BY <1>8, <2>1, <3>2
  <2>5. CASE RxDoneFlag["master"] # 0
    <3>1. k = f
      BY <1>1, <2>2, <2>5 DEF Awaits
    <3>2. MasterTakes(r, f, k)'
      BY <2>1, <2>3, <2>5, <3>1 DEF MasterTakes
    <3> QED BY <1>8, <2>1, <3>2
  <2> QED BY <2>4, <2>5
<1>12. CASE WaitReads
  <2>1. /\ mpc = "read" /\ mpc' = "store" /\ uart["master"] # <<>>
        /\ rx_byte' = Head(uart["master"])
        /\ uart' = [uart EXCEPT !["master"] = Tail(@)] /\ wire' = wire
        /\ UNCHANGED <<Mode, bufVars, RTU_TimeoutEn, RxDoneFlag, elapsed>>
    BY <1>12 DEF WaitReads
  <2>2. uart'["master"] = Tail(uart["master"]) /\ uart'["slave"] = uart["slave"]
    BY <1>1, <2>1
  <2>3. /\ Head(uart["master"]) = <<r, k + 1>>
        /\ k < f /\ k + 1 \in 0..l /\ OnWay("master", r, f, k + 1, l)'
    BY <1>1, <1>3, <2>1, <2>2, ReadOnWay
  <2>4. OnWay("master", r, f, k + 1, l)'
    BY <2>3
  <2>5. Received("master") = Run(r, 0, k) /\ Awaits(f, k, k)
    BY <1>3, <2>1 DEF MasterTakes
  <2>6. Received("master")' = Run(r, 0, (k + 1) - 1)
    <3>1. (k + 1) - 1 = k
      BY <1>4
    <3> QED BY <2>1, <2>5, <3>1 DEF Received, bufVars
  <2>7. Awaits(f, k + 1, (k + 1) - 1)'
    <3>1. (k + 1) - 1 = k /\ k # f
      BY <1>4, <2>3
    <3>2. RxDoneFlag["master"] # 1 /\ ~elapsed
      BY <2>5, <3>1 DEF Awaits
    <3>3. Mode = "RTU" => RTU_TimeoutCtr'["master"] > 0
      BY <1>1, <1>12 DEF WaitReads
    <3>4. Mode = "RTU" /\ k > 0 => RTU_TimeoutEn["master"]
      BY <2>5, <3>2 DEF Awaits
    <3> QED BY <1>1, <2>1, <3>1, <3>2, <3>3, <3>4 DEF Awaits
  <2>8. MasterTakes(r, f, k + 1)'
    <3>1. k + 1 > 0
      BY <1>4
    <3> QED BY <2>1, <2>3, <2>6, <2>7, <3>1 DEF MasterTakes
  <2>9. SlaveIsDone'
    BY <1>5, <2>1, <2>2, DoneKept DEF Answering, LineKept
  <2> QED BY <2>3, <2>4, <2>8, <2>9 DEF Answering, MasterIsAnswered
<1>13. CASE WaitStores
  <2>1. /\ mpc = "store" /\ mpc' = "test" /\ UNCHANGED <<Mode, lineVars, RTU_TimeoutCtr, elapsed>>
    BY <1>13 DEF WaitStores
  <2>2. /\ k > 0 /\ rx_byte = <<r, k>> /\ Received("master") = Run(r, 0, k - 1)
        /\ Awaits(f, k, k - 1)
    BY <1>3, <2>1 DEF MasterTakes
  <2>3. k - 1 \in 0..f /\ k - 1 < f /\ (k - 1) + 1 = k /\ k # 0
    BY <1>1, <1>4, <2>2
  <2>4. \/ Store("master", <<r, k>>)
        \/ StoreAscii("master", <<r, k>>)
    BY <1>13, <2>2 DEF WaitStores
  <2>5. Received("master")' = Run(r, 0, k)
    BY <1>1, <2>2, <2>3, <2>4, TakesNext
  <2>6. /\ RxDoneFlag["master"] = 1 => RxDoneFlag'["master"] = 1
        /\ RxDoneFlag'["master"] = 1 => RxDoneFlag["master"] = 1 \/ k = f
        /\ Mode = "RTU" => RTU_TimeoutEn'["master"]
        /\ Mode = "ASCII" /\ k = f => RxDoneFlag'["master"] = 1
    <3>1. Last("master", rx_byte) <=> k = f
      BY <2>2 DEF Last
    <3> QED BY <1>1, <1>13, <3>1 DEF WaitStores
  <2>7. Awaits(f, k, k)'
    BY <2>1, <2>2, <2>6 DEF Awaits
  <2>8. MasterTakes(r, f, k)'
    BY <2>1, <2>3, <2>5, <2>7 DEF MasterTakes
  <2> QED BY <1>8, <2>1, <2>8
<1>14. CASE WaitSleeps
  <2>1. /\ mpc = "read" /\ mpc' = "test"
        /\ UNCHANGED <<Mode, lineVars, bufVars, timerVars, RxDoneFlag, elapsed, fresh>>
    BY <1>14 DEF WaitSleeps
  <2>2. /\ Received("master") = Run(r, 0, k) /\ Awaits(f, k, k)
        /\ k = 0 => ~fresh
    BY <1>3, <2>1 DEF MasterTakes
  <2>3. Received("master")' = Run(r, 0, k)
    BY <2>1, <2>2 DEF Received, bufVars
  <2>4. Awaits(f, k, k)'
    BY <2>1, <2>2 DEF Awaits, timerVars
  <2>5. MasterTakes(r, f, k)'
    BY <2>1, <2>2, <2>3, <2>4 DEF MasterTakes
  <2> QED BY <1>8, <2>1, <2>5
<1>15. ~WaitTimesOut
  <2> SUFFICES ASSUME WaitTimesOut PROVE FALSE
    OBVIOUS
  <2>1. mpc = "read" /\ elapsed
    BY DEF WaitTimesOut
  <2>2. Awaits(f, k, k)
    BY <1>3, <2>1 DEF MasterTakes
  <2> QED BY <2>1, <2>2 DEF Awaits
<1> QED BY <1>9, <1>10, <1>11, <1>12, <1>13, <1>14, <1>15 DEF WaitStep

\* What a call that is over has come to.
CallSucceeds == mpc' = "idle" /\ CleanCallSucceeds'

\* The master decodes the whole answer, or the refusal, which it cannot tell from another
\* answer in RTU mode and does not take for a frame in ASCII mode.
LEMMA ReplyToAnswer ==
    ASSUME ModbusAssumption, ModbusInv, NEW r \in 1..Len(sent), r \in 1..MaxCalls,
           NEW f \in Lengths, r = Len(sent),
           f = Size("master", r), Answering(r, f), Answers(sent[r]), Reply
    PROVE  CallSucceeds
<1> HIDE DEF Bytes, NoByte
<1>1. /\ Received("master") = Message(r, f) /\ mpc' = "idle" /\ sent' = sent
      /\ sent \in Seq(Kinds) /\ accepted \in Seq(1..MaxCalls)
  <2>1. mpc = "reply" /\ mpc' = "idle" /\ sent' = sent
    BY DEF Reply, Return
  <2>2. MasterTakes(r, f, f)
    BY <2>1 DEF Answering, MasterIsAnswered, MasterTakes
  <2>3. Received("master") = Message(r, f)
    BY <2>1, <2>2, RunFrame DEF MasterTakes
  <2> QED BY <2>1, <2>3 DEF ModbusInv, Typed, MasterType, AnswerType
<1>2. Parsed("master", Message(r, f)) <=> ~(Mode = "ASCII" /\ sent[r] = "illegal")
  BY MessageParsed DEF Ends
<1>a. Answer(r) = Message(r, f) /\ Mode' = Mode /\ Mode \in {"RTU", "ASCII"}
  BY DEF Answer, Reply, ModbusInv, Typed, Modes
<1>3. Message(r, f)[1] = <<r, 1>> /\ First(<<r, 1>>)
  BY MessageBytes DEF First
<1>4. Matches(Message(r, f)) <=> sent[r] # "illegal"
  BY <1>3 DEF Matches
<1>5. sent[r] \in Kinds
  BY <1>1, ElementOfSeq
<1>6. sent[r] \in Served => sent[r] # "illegal"
  BY DEF ModbusAssumption, Lengths
<1>7. sent[r] \notin {"foreign", "broadcast"}
  BY DEF Answers
<1>8. CASE sent[r] = "illegal"
  <2>1. err' = IF Mode = "RTU" THEN "MISMATCH" ELSE "RX"
    BY <1>1, <1>2, <1>4, <1>8, <1>a DEF Reply, Return
  <2> QED BY <1>1, <1>6, <1>8, <1>a, <2>1 DEF CallSucceeds, CleanCallSucceeds
<1>9. CASE sent[r] # "illegal"
  <2>1. err' = "NONE" /\ accepted' = Append(accepted, r) /\ whole' = (Message(r, f) = Answer(r))
    <3> HIDE DEF Message
    <3> QED BY <1>1, <1>2, <1>3, <1>4, <1>9 DEF Reply, Return
  <2>2. accepted'[Len(accepted')] = r
    <3>1. /\ Len(accepted) \in Nat /\ Len(accepted') = Len(accepted) + 1
          /\ accepted'[Len(accepted) + 1] = r
      BY <1>1, <2>1, AppendProperties, LenProperties
    <3> QED BY <3>1
  <2>3. whole' = TRUE
    BY <1>a, <2>1
  <2> QED BY <1>1, <1>7, <1>9, <2>1, <2>2, <2>3 DEF CallSucceeds, CleanCallSucceeds
<1> QED BY <1>8, <1>9

-----------------------------------------------------------------------------
(***************************************************************************)
(* While no answer is to come.                                             *)
(***************************************************************************)

\* A master that waits in vain gives up, with an error.
LEMMA MasterWaitsInVain ==
    ASSUME ModbusAssumption, ModbusInv, NEW r \in 1..Len(sent), r = Len(sent),
           Silent, ~Answers(sent[r]), MasterStep
    PROVE  Silent' \/ CallSucceeds
<1> HIDE DEF Bytes, NoByte
<1>1. /\ RxDoneFlag \in [Ends -> {0, 1}] /\ RxBufByteCtr \in [Ends -> 0..BufSize]
      /\ "master" \in Ends /\ Mode \in {"RTU", "ASCII"}
  BY DEF Modes, ModbusInv, Typed, TimerType, BufType, Ends, ModbusAssumption
<1>2. SlaveKept
  BY MasterKeepsSlave
<1>3. sent' = sent /\ sent[r] \in {"foreign", "broadcast"} /\ sent[r] \notin Served \cup {"illegal"}
  BY DEF MasterStep, Flush, WaitStep, WaitBegins, WaitTests, WaitReads, WaitStores, WaitSleeps,
         WaitTimesOut, Reply, Answers, ModbusAssumption
<1>4. ASSUME mpc' = "idle", err' \in {"TIMED_OUT", "RX"} PROVE CallSucceeds
  BY <1>3, <1>4 DEF CallSucceeds, CleanCallSucceeds
<1>5. ASSUME UNCHANGED <<Mode, lineVars>>, RxBufByteCtr'["master"] = RxBufByteCtr["master"],
             mpc' \in {"wait", "test", "read", "reply"},
             Mode = "RTU" => mpc' # "reply" /\ (mpc' \in {"test", "read"} => ~fresh')
      PROVE  Silent'
  <2>1. SlaveIsDone'
    BY <1>2, <1>5, DoneKept DEF Silent, LineKept, lineVars
  <2>2. Quiet("master")' /\ RxBufByteCtr'["master"] = 0
    BY <1>5 DEF Silent, Quiet, lineVars
  <2> QED BY <1>5, <2>1, <2>2 DEF Silent
<1>6. CASE Flush
  <2>1. UNCHANGED <<Mode, lineVars>> /\ mpc' = "wait" /\ RxBufByteCtr'["master"] = 0
    BY <1>1, <1>6 DEF Flush
  <2> QED BY <1>5, <2>1 DEF Silent
<1>7. CASE WaitBegins
  BY <1>5, <1>7 DEF WaitBegins, bufVars
<1>8. CASE WaitTests
  <2>1. /\ UNCHANGED <<Mode, lineVars, RxBufByteCtr, fresh>> /\ mpc = "test"
        /\ mpc' = IF RxDoneFlag["master"] = 0 THEN "read" ELSE "reply"
    BY <1>8 DEF WaitTests, bufVars
  <2>2. Mode = "RTU" => ~fresh /\ RxDoneFlag["master"] = 0
    BY <2>1 DEF Silent, ModbusInv, NoSignalBeforeByte
  <2> QED BY <1>5, <2>1, <2>2
<1>9. CASE WaitSleeps
  <2>1. UNCHANGED <<Mode, lineVars, RxBufByteCtr, fresh>> /\ mpc = "read" /\ mpc' = "test"
    BY <1>9 DEF WaitSleeps, bufVars
  <2>2. Mode = "RTU" => ~fresh
    BY <2>1 DEF Silent
  <2> QED BY <1>5, <2>1, <2>2
<1>10. CASE WaitTimesOut
  <2>1. CASE Mode = "RTU"
    BY <1>4, <1>10, <2>1 DEF WaitTimesOut, Return
  <2>2. CASE Mode # "RTU"
    BY <1>5, <1>10, <2>2 DEF WaitTimesOut, bufVars
  <2> QED BY <2>1, <2>2
<1>11. CASE Reply
  <2>1. Received("master") = <<>>
    BY <1>1, NothingReceived DEF Silent
  <2> QED BY <1>4, <1>11, <2>1, NothingParsed DEF Reply, Return
<1>12. ~WaitReads /\ ~WaitStores
  BY DEF Silent, Quiet, WaitReads, WaitStores
<1> QED BY <1>6, <1>7, <1>8, <1>9, <1>10, <1>11, <1>12 DEF MasterStep, WaitStep

-----------------------------------------------------------------------------
(***************************************************************************)
(* A clean call succeeds.                                                  *)
(***************************************************************************)

\* What is under way stays where no step touches it.
LEMMA UnderWayKept ==
    ASSUME ModbusAssumption, ModbusInv, NEW r, UnderWay(r), SlaveKept, MasterKept,
           LineKept("slave"), LineKept("master"),
           sent' = sent
    PROVE  UnderWay(r)'
<1>1. Quiet("master")' = Quiet("master")
  BY DEF Quiet, LineKept
<1>2. MasterWaits => MasterWaits'
  BY <1>1 DEF MasterWaits, MasterKept
<1>3. SlaveIsDone => SlaveIsDone'
  BY DoneKept
<1>4. Silent => Silent'
  BY <1>1, <1>3 DEF Silent, MasterKept
<1>5. PICK f \in Lengths : f = Size("slave", r)
  BY SizeIsLength DEF ModbusInv
<1>6. PICK g \in Lengths : g = Size("master", r)
  BY SizeIsLength DEF ModbusInv
<1>7. Size("slave", r)' = f /\ Size("master", r)' = g
  BY <1>5, <1>6 DEF Size, SlaveKept
<1>8. Asking(r, f) => Asking(r, f)'
  BY <1>2, AskedKept DEF Asking
<1>9. Answering(r, g) => Answering(r, g)'
  BY <1>3, AnsweredKept DEF Answering
<1> QED BY <1>4, <1>5, <1>6, <1>7, <1>8, <1>9 DEF UnderWay

\* No step changes the mode.
LEMMA ModeStays ==
    ASSUME [Next]_vars
    PROVE  Mode' = Mode
  BY DEF Next, MasterStep, WaitStep, SlaveStep, Call, Flush, WaitBegins, WaitTests, WaitReads,
         WaitStores, WaitSleeps, WaitTimesOut, Reply, Elapse, SlaveReads, SlaveSleeps,
         SlaveChecks, SlaveClears, Deliver, Lose, Tick, vars

\* Every step but the return takes what is under way further, and the return ends as
\* it must.
LEMMA UnderWayGoesOn ==
    ASSUME ModbusAssumption, ModbusInv, SlaveSignalled, NEW r \in 1..Len(sent),
           r \in 1..MaxCalls, r = Len(sent), UnderWay(r), [Next]_vars, clean',
           ~\E kind \in Kinds : Call(kind), sent' = sent
    PROVE  UnderWay(r)' \/ CallSucceeds
<1> HIDE DEF Bytes, NoByte
<1>f. PICK f \in Lengths : f = Size("slave", r)
  BY SizeIsLength DEF ModbusInv
<1>g. PICK g \in Lengths : g = Size("master", r)
  BY SizeIsLength DEF ModbusInv
<1>h. Size("slave", r)' = f /\ Size("master", r)' = g
  <2>1. Mode' = Mode
    BY ModeStays
  <2> QED BY <1>f, <1>g, <2>1 DEF Size
<1>1. CASE UNCHANGED vars
  <2>1. LineKept("slave") /\ LineKept("master")
    BY <1>1 DEF vars, lineVars, LineKept
  <2> QED BY <1>1, <2>1, MasterKeepsSlave, SlaveKeepsMaster, UnderWayKept
<1>2. \A n \in Ends : ~Lose(n)
  BY DEF Lose
<1>3. Elapse => Settled
  BY DEF Elapse
<1>4. Next => \/ MasterStep \/ Elapse \/ Tick("master") \/ Tick("slave")
              \/ SlaveReads \/ SlaveSleeps \/ SlaveChecks \/ SlaveClears
              \/ \E n \in Ends : Deliver(n)
  BY <1>2 DEF Next, SlaveStep, Ends
<1>5. CASE Asking(r, f) /\ Next
  <2>1. Asking(r, f)' => UnderWay(r)'
    BY <1>h DEF UnderWay
  <2>2. ~Elapse
    BY <1>3, <1>5, AskingNotSettled
  <2>3. CASE MasterStep
    BY <1>5, <2>1, <2>3, MasterGoesOnWaiting
  <2>4. CASE Tick("master")
    BY <1>5, <2>1, <2>4, MasterTicksUnasked
  <2>5. CASE Tick("slave")
    BY <1>5, <2>1, <2>5, SlaveTicksAsked
  <2>6. CASE SlaveReads
    BY <1>5, <1>f, <2>6, SlaveReadsAsked
  <2>7. CASE SlaveSleeps \/ SlaveChecks \/ SlaveClears
    BY <1>5, <1>f, <2>7, SlaveLoopsAsked
  <2>8. CASE \E n \in Ends : Deliver(n)
    BY <1>5, <2>1, <2>8, AskingDelivers
  <2> QED BY <1>4, <1>5, <2>2, <2>3, <2>4, <2>5, <2>6, <2>7, <2>8
<1>6. CASE Answers(sent[r]) /\ Answering(r, g) /\ Next
  <2>1. Answering(r, g)' => UnderWay(r)'
    BY <1>6, <1>h DEF UnderWay
  <2>2. CASE MasterStep
    <3>1. CASE Reply
      BY <1>6, <1>g, <3>1, ReplyToAnswer
    <3>2. CASE Flush \/ WaitStep
      BY <1>6, <1>g, <2>1, <3>2, MasterReadsAnswer
    <3> QED BY <2>2, <3>1, <3>2 DEF MasterStep
  <2>3. CASE Elapse
    BY <1>3, <1>6, <2>1, <2>3, ElapsesAnswered
  <2>4. CASE Tick("master")
    BY <1>6, <2>1, <2>4, MasterTicksAnswered
  <2>5. CASE SlaveStep \/ Tick("slave")
    <3>1. SlaveIsDone' /\ UNCHANGED lineVars
      BY <1>6, <2>5, SlaveStaysDone DEF Answering
    <3>2. MasterIsAnswered(r, g)'
      BY <1>6, <2>5, <3>1, SlaveKeepsMaster, AnsweredKept DEF Answering, LineKept, lineVars
    <3> QED BY <2>1, <3>1, <3>2 DEF Answering
  <2>6. CASE \E n \in Ends : Deliver(n)
    BY <1>6, <2>1, <2>6, AnsweringDelivers
  <2> QED BY <1>4, <1>6, <2>2, <2>3, <2>4, <2>5, <2>6 DEF SlaveStep
<1>7. CASE ~Answers(sent[r]) /\ Silent /\ Next
  <2>1. Silent' => UnderWay(r)'
    BY <1>7 DEF UnderWay
  <2>2. CASE MasterStep
    BY <1>7, <2>1, <2>2, MasterWaitsInVain
  <2>3. CASE Elapse \/ Tick("master")
    <3>1. UNCHANGED <<Mode, lineVars, bufVars, mpc, fresh>>
      BY <2>3 DEF Elapse, Tick, masterVars
    <3> QED BY <1>7, <2>1, <3>1 DEF Silent, SlaveIsDone, Quiet, lineVars, bufVars
  <2>4. CASE SlaveStep \/ Tick("slave")
    <3>1. SlaveIsDone' /\ UNCHANGED lineVars /\ MasterKept
      BY <1>7, <2>4, SlaveStaysDone, SlaveKeepsMaster DEF Silent
    <3> QED BY <1>7, <2>1, <3>1 DEF Silent, MasterKept, Quiet, lineVars
  <2>5. \A n \in Ends : ~Deliver(n)
    BY <1>7 DEF Deliver, Silent, SlaveIsDone, Quiet, Ends
  <2> QED BY <1>4, <1>7, <2>2, <2>3, <2>4, <2>5 DEF SlaveStep
<1> QED BY <1>1, <1>5, <1>6, <1>7, <1>f, <1>g DEF UnderWay

\* Every step keeps CleanInv.
LEMMA NextClean ==
    ASSUME ModbusAssumption, ModbusInv, ModbusInv', CleanInv, [Next]_vars
    PROVE  CleanInv'
<1> HIDE DEF Bytes, NoByte
<1>1. SlaveSignalled'
  BY NextSignalled DEF CleanInv
<1>2. sent \in Seq(Kinds) /\ Len(sent) <= MaxCalls /\ Len(sent) \in Nat /\ MaxCalls \in Nat
  BY LenProperties DEF ModbusInv, Typed, MasterType, ModbusAssumption
<1>3. ASSUME NEW kind \in Kinds, Call(kind) PROVE CleanInv'
  <2>1. sent' = Append(sent, kind) /\ mpc' = "flush" /\ Len(sent) < MaxCalls
    BY <1>3 DEF Call
  <2>2. Len(sent') = Len(sent) + 1
    BY <1>2, <2>1, AppendProperties
  <2>3. PICK r \in 1..MaxCalls : r = Len(sent) + 1
    BY <1>2, <2>1
  <2>4. clean' => UnderWay(r)'
    <3>1. PICK f \in Lengths : f = FrameSize[Mode]
      BY SizeIsLength DEF ModbusInv
    <3>2. Size("slave", r)' = f
      BY <1>3, <3>1 DEF Call, Size
    <3> QED BY <1>3, <2>3, <3>1, <3>2, CallAsks DEF CleanInv, UnderWay
  <2>5. clean' => UnderWay(Len(sent))'
    BY <2>2, <2>3, <2>4
  <2>6. CleanCallSucceeds'
    BY <2>1 DEF CleanCallSucceeds
  <2>7. Len(sent') > 0
    BY <1>2, <2>2
  <2> QED BY <1>1, <2>5, <2>6, <2>7 DEF CleanInv
<1>4. CASE ~\E kind \in Kinds : Call(kind)
  <2>1. sent' = sent /\ (clean' => clean)
    <3>1. CASE Next
      <4>1. CASE MasterStep
        BY <4>1 DEF MasterStep, WaitStep, Flush, WaitBegins, WaitTests, WaitReads, WaitStores,
                    WaitSleeps, WaitTimesOut, Reply, histVars
      <4>2. CASE Elapse
        BY <4>2 DEF Elapse
      <4>3. CASE SlaveStep
        BY <4>3 DEF SlaveStep, SlaveReads, SlaveSleeps, SlaveChecks, SlaveClears, masterVars,
           histVars
      <4>4. CASE \E n \in Ends : Deliver(n) \/ Lose(n) \/ Tick(n)
        BY <4>4 DEF Deliver, Lose, Tick, masterVars, histVars
      <4> QED BY <1>4, <3>1, <4>1, <4>2, <4>3, <4>4 DEF Next
    <3>2. CASE UNCHANGED vars
      BY <3>2 DEF vars, masterVars, histVars
    <3> QED BY <3>1, <3>2
  <2>2. CASE mpc = "idle"
    <3>1. UNCHANGED <<Mode, mpc, sent, err, accepted, whole>>
      <4>1. CASE Next
        <5>1. ~MasterStep /\ ~Elapse
          BY <2>2 DEF MasterStep, WaitStep, Flush, WaitBegins, WaitTests, WaitReads, WaitStores,
                      WaitSleeps, WaitTimesOut, Reply, Elapse
        <5>2. UNCHANGED masterVars
          BY <1>4, <4>1, <5>1 DEF Next, SlaveStep, SlaveReads, SlaveSleeps, SlaveChecks,
             SlaveClears,
                                  Deliver, Lose, Tick
        <5> QED BY <5>2, <4>1, ModeStays DEF masterVars
      <4>2. CASE UNCHANGED vars
        BY <4>2 DEF vars, masterVars
      <4> QED BY <4>1, <4>2
    <3>2. CleanCallSucceeds'
      BY <2>1, <2>2, <3>1 DEF CleanInv, CleanCallSucceeds
    <3> QED BY <1>1, <2>1, <2>2, <3>1, <3>2 DEF CleanInv
  <2>3. CASE mpc # "idle"
    <3>1. Len(sent) > 0
      BY <2>3 DEF CleanInv
    <3>2. PICK r \in 1..Len(sent) : r = Len(sent)
      BY <1>2, <3>1
    <3>3. r \in 1..MaxCalls
      BY <1>2, <3>2
    <3>4. clean' => UnderWay(r)' \/ CallSucceeds
      <4>1. SUFFICES ASSUME clean' PROVE UnderWay(r)' \/ CallSucceeds
        OBVIOUS
      <4>2. UnderWay(r) /\ SlaveSignalled
        BY <2>1, <2>3, <3>2, <4>1 DEF CleanInv
      <4> QED BY <1>4, <2>1, <3>2, <3>3, <4>1, <4>2, UnderWayGoesOn
    <3>5. Len(sent)' = r
      BY <2>1, <3>2
    <3>6. UnderWay(r)' => mpc' # "idle"
      BY DEF UnderWay, Asking, MasterWaits, Answering, MasterIsAnswered, MasterTakes, Silent
    <3>7. clean' => UnderWay(Len(sent))' \/ CallSucceeds
      BY <3>4, <3>5
    <3>8. CleanCallSucceeds'
      <4>1. CASE clean' /\ UnderWay(r)'
        BY <3>6, <4>1 DEF CleanCallSucceeds
      <4>2. CASE CallSucceeds
        BY <4>2 DEF CallSucceeds
      <4>3. CASE ~clean'
        BY <4>3 DEF CleanCallSucceeds
      <4> QED BY <3>4, <4>1, <4>2, <4>3
    <3> QED BY <1>1, <2>1, <3>1, <3>7, <3>8 DEF CleanInv, CallSucceeds
  <2> QED BY <2>2, <2>3
<1> QED BY <1>3, <1>4

\* CleanInv holds when both channels have been configured.
LEMMA InitClean ==
    ASSUME ModbusAssumption, Init
    PROVE  CleanInv
<1>1. SlaveSignalled
  <2>1. spc = "read" /\ RxBufByteCtr["slave"] = 0 /\ (RTU_TimeoutEn["slave"] = TRUE)
    BY DEF Init, Ends
  <2>2. ~(0 > 0)
    OBVIOUS
  <2> QED BY <2>1, <2>2 DEF SlaveSignalled
<1>2. ~clean /\ mpc = "idle"
  BY DEF Init
<1> QED BY <1>1, <1>2 DEF CleanInv, CleanCallSucceeds

\* Where the bytes of a clean call are, between any two steps of it.
THEOREM CleanCallsUnderWay == Spec => []CleanInv
<1>1. Init => CleanInv
  BY ModbusAssumption, InitClean
<1>2. ModbusInv /\ ModbusInv' /\ CleanInv /\ [Next]_vars => CleanInv'
  BY ModbusAssumption, NextClean
<1> QED BY <1>1, <1>2, ModbusInvariant, PTL DEF Spec

\* A call that begins on a quiet line and meets no fault ends as the slave decides,
\* whatever went wrong in earlier calls; in ASCII mode the exception answer of
\* modbus_slave_set_response_error() is too short for modbus_ascii_rx(), and a
\* refusal ends the call with MODBUS_ERR_RX.
THEOREM CleanCallsSucceed == Spec => []CleanCallSucceeds
<1>1. CleanInv => CleanCallSucceeds
  BY DEF CleanInv
<1> QED BY <1>1, CleanCallsUnderWay, PTL
=============================================================================
