----------------------------- MODULE SerialLine -----------------------------
(***************************************************************************)
(* The serial line to the projector (libs/serial_port): SerialPortManager, *)
(* the exchanges SendProductionCommand and SendSetCommand of               *)
(* serial_projector.cpp, and the port below them with the operating        *)
(* system's input buffer.  One exchange runs at a time: SendProduction and *)
(* SendSet hold the manager's mutex, and the hub, which goes around them   *)
(* with PortRef, holds its own mu_; the port is opened only while it is    *)
(* not open, or before the service starts.                                 *)
(*                                                                         *)
(* A frame is BytesPerFrame bytes (6 in the code).  Of a byte the model    *)
(* keeps what MatchAckSend and MatchAckFinish look at: its place in the    *)
(* frame, and for the last one the kind of the frame and its payload; the  *)
(* bytes before it (EB 90 00) are the same in all answers.  `n` is         *)
(* history: the command the byte answers.                                  *)
(*                                                                         *)
(* The projector is outside the code: it may miss a command; it answers a  *)
(* production command with an acknowledgement and, when the patterns have  *)
(* been shown, a finish frame, a set command with an acknowledgement, and  *)
(* bytes that are no command not at all.  Bytes arrive in order, any time. *)
(***************************************************************************)
EXTENDS Integers, Sequences

CONSTANTS
  BytesPerFrame,   \* bytes of an answer frame
  Commands,        \* commands sent: [kind : {"production", "set"}, index : Nat]
  MaxCommands,     \* bound: commands written to the line
  MaxReadFaults    \* bound: ReadFile failures

ASSUME SerialAssumption ==
  /\ BytesPerFrame \in Nat \ {0}
  /\ Commands \subseteq [kind : {"production", "set"}, index : Nat]
  /\ Commands # {}
  /\ MaxCommands \in Nat
  /\ MaxReadFaults \in Nat

VARIABLES
  open,       \* handle_ is valid
  input,      \* bytes received and not read
  wire,       \* bytes the projector has sent or will send for the commands it received
  exchange,   \* the Send call in progress
  projected,  \* history: commands the projector obeyed
  sent,       \* history: commands written
  faults,     \* history: ReadFile failures
  result      \* the last ProjectorResult, with what it rested on

lineVars == <<open, input, wire, exchange, projected, sent, faults, result>>

\* kProductionWire and kSetWire: the fifth byte, by which an acknowledgement is recognised.
ProductionPayload == <<1, 2, 3, 25, 1>>
SetPayload == <<0, 0, 0, 0, 80, 255, 0, 1, 2, 3, 4, 8, 9>>

\* SendProductionCommand and SendSetCommand: indices beyond the tables are refused.
Known(cmd) ==
  cmd.index < IF cmd.kind = "production" THEN Len(ProductionPayload) ELSE Len(SetPayload)

\* ProductionFrame and SetFrame copy the first 4 and 3 entries only: the others are zeros,
\* which is no command.
IsCommand(cmd) == cmd.index < IF cmd.kind = "production" THEN 4 ELSE 3
ExpectedPayload(cmd) ==
  IF ~IsCommand(cmd) THEN 0
  ELSE IF cmd.kind = "production" THEN ProductionPayload[cmd.index + 1]
  ELSE SetPayload[cmd.index + 1]

Idle == [pc |-> "idle", cmd |-> CHOOSE c \in Commands : TRUE, n |-> 0, acc |-> <<>>,
         ack |-> 0, clean |-> TRUE, before |-> 0]
NoResult == [n |-> 0, ok |-> FALSE, ack |-> 0, finish |-> 0, clean |-> TRUE]

Frame(kind, payload, n) ==
  [p \in 1 .. BytesPerFrame |->
     IF p < BytesPerFrame THEN [place |-> p, kind |-> "head", payload |-> 0, n |-> n]
     ELSE [place |-> p, kind |-> kind, payload |-> payload, n |-> n]]

Backlog == Len(input) + Len(wire)

LineInit ==
  /\ open = FALSE
  /\ input = <<>>
  /\ wire = <<>>
  /\ exchange = Idle
  /\ projected = {}
  /\ sent = 0
  /\ faults = 0
  /\ result = NoResult

-----------------------------------------------------------------------------
\* SerialPort::Open closes an open port first; it fails if the device cannot be opened or set
\* up.  Opening starts with an empty input buffer.
OpenPort(ok) ==
  /\ exchange = Idle
  /\ open' = ok
  /\ input' = <<>>
  /\ UNCHANGED <<wire, exchange, projected, sent, faults, result>>

ClosePort ==
  /\ exchange = Idle
  /\ open
  /\ open' = FALSE
  /\ input' = <<>>
  /\ UNCHANGED <<wire, exchange, projected, sent, faults, result>>

\* The call ends with its result: `ack` and `finish` are the commands whose answers it took
\* for its own.
Ends(ok, finish) ==
  /\ result' = [n |-> exchange.n, ok |-> ok, ack |-> exchange.ack, finish |-> finish,
                clean |-> exchange.clean]
  /\ exchange' = Idle

\* Refused: there is no port, the command is unknown, or the write fails or is incomplete.
SendRefused ==
  /\ exchange = Idle
  /\ result' = NoResult
  /\ UNCHANGED <<open, input, wire, exchange, projected, sent, faults>>

\* What the projector answers to a command it obeys (external).
Answers(cmd, n) ==
  IF cmd.kind = "production"
  THEN Frame("ack", ExpectedPayload(cmd), n) \o Frame("finish", 0, n)
  ELSE Frame("ack", ExpectedPayload(cmd), n)

\* The frame goes to the projector, which may miss it.  Nothing that is still in the input buffer
\* is discarded.
Written(cmd) ==
  /\ exchange = Idle
  /\ open
  /\ sent < MaxCommands
  /\ sent' = sent + 1
  /\ \/ /\ IsCommand(cmd)
        /\ wire' = wire \o Answers(cmd, sent + 1)
        /\ projected' = projected \union {sent + 1}
     \/ UNCHANGED <<wire, projected>>

CommandWritten(cmd) ==
  /\ Known(cmd)
  /\ Written(cmd)
  /\ exchange' = [pc |-> "ack", cmd |-> cmd, n |-> sent + 1, acc |-> <<>>, ack |-> 0,
                  clean |-> Backlog = 0, before |-> Backlog]
  /\ UNCHANGED <<open, input, faults, result>>

\* WriteBytes with the bytes of a command: its answers are left to whoever reads next.
BytesWritten(cmd) ==
  /\ Written(cmd)
  /\ UNCHANGED <<open, input, exchange, faults, result>>

-----------------------------------------------------------------------------
\* ReadAtLeastBytes and what follows it.

Reading == exchange.pc \in {"ack", "finish"} /\ Len(exchange.acc) < BytesPerFrame
FrameRead == exchange.pc \in {"ack", "finish"} /\ Len(exchange.acc) = BytesPerFrame

ByteArrives ==
  /\ wire # <<>>
  /\ wire' = Tail(wire)
  /\ input' = IF open THEN Append(input, Head(wire)) ELSE input
  /\ UNCHANGED <<open, exchange, projected, sent, faults, result>>

\* Mutant of ChunkRead: the read is not limited to what is missing.
ChunkReadAll ==
  /\ Reading
  /\ input # <<>>
  /\ exchange' = [exchange EXCEPT !.acc = @ \o input]
  /\ input' = <<>>
  /\ UNCHANGED <<open, wire, projected, sent, faults, result>>

\* One chunk: what is there, at most what is missing.
ChunkRead ==
  LET missing == BytesPerFrame - Len(exchange.acc)
      n == IF Len(input) < missing THEN Len(input) ELSE missing
  IN /\ Reading
     /\ input # <<>>
     /\ exchange' = [exchange EXCEPT !.acc = @ \o SubSeq(input, 1, n)]
     /\ input' = SubSeq(input, n + 1, Len(input))
     /\ UNCHANGED <<open, wire, projected, sent, faults, result>>

\* ReadFile fails after it delivered part of a chunk: ReadBytes returns false, the part is
\* lost, and the loop goes on reading.
ReadFails ==
  /\ Reading
  /\ faults < MaxReadFaults
  /\ input # <<>>
  /\ input' = Tail(input)
  /\ faults' = faults + 1
  /\ exchange' = [exchange EXCEPT !.clean = FALSE]
  /\ UNCHANGED <<open, wire, projected, sent, result>>

InPlace(acc) == \A p \in 1 .. BytesPerFrame : acc[p].place = p
LastByte(acc) == acc[BytesPerFrame]

\* The frame is an acknowledgement and carries the fifth byte of the command.
MatchAckSend(acc, payload) ==
  InPlace(acc) /\ LastByte(acc).kind = "ack" /\ LastByte(acc).payload = payload

\* The frame is a finish frame, whatever image it stopped at.
MatchAckFinish(acc) == InPlace(acc) /\ LastByte(acc).kind = "finish"

\* Mutant of Acknowledged: a set command waits for a finish frame, too.
AcknowledgedAlwaysWaits ==
  /\ FrameRead /\ exchange.pc = "ack"
  /\ MatchAckSend(exchange.acc, ExpectedPayload(exchange.cmd))
  /\ exchange' = [exchange EXCEPT !.pc = "finish", !.acc = <<>>, !.ack = LastByte(exchange.acc).n]
  /\ UNCHANGED <<open, input, wire, projected, sent, faults, result>>

\* The acknowledgement is right: a set command is done, a production command waits on.
Acknowledged ==
  /\ FrameRead /\ exchange.pc = "ack"
  /\ MatchAckSend(exchange.acc, ExpectedPayload(exchange.cmd))
  /\ IF exchange.cmd.kind = "set"
     THEN /\ result' = [n |-> exchange.n, ok |-> TRUE, ack |-> LastByte(exchange.acc).n,
                        finish |-> 0, clean |-> exchange.clean]
                  /\ exchange' = Idle
     ELSE /\ exchange' = [exchange EXCEPT !.pc = "finish", !.acc = <<>>,
                            !.ack = LastByte(exchange.acc).n]
          /\ UNCHANGED result
  /\ UNCHANGED <<open, input, wire, projected, sent, faults>>

\* The finish frame is right: the production command is done.
Finished ==
  /\ FrameRead /\ exchange.pc = "finish"
  /\ MatchAckFinish(exchange.acc)
  /\ Ends(TRUE, LastByte(exchange.acc).n)
  /\ UNCHANGED <<open, input, wire, projected, sent, faults>>

\* A whole frame that is not the one expected ends the call.
Mismatched ==
  /\ FrameRead
  /\ \/ exchange.pc = "ack" /\ ~MatchAckSend(exchange.acc, ExpectedPayload(exchange.cmd))
     \/ exchange.pc = "finish" /\ ~MatchAckFinish(exchange.acc)
  /\ Ends(FALSE, 0)
  /\ UNCHANGED <<open, input, wire, projected, sent, faults>>

\* Mutant of ReadTimesOut: the result of ReadAtLeastBytes is not looked at.
ReadTimesOutIgnored ==
  /\ Reading
  /\ Ends(TRUE, 0)
  /\ UNCHANGED <<open, input, wire, projected, sent, faults>>

\* Mutant of ReadTimesOut: the loop has no deadline.
ReadNeverTimesOut ==
  /\ FALSE
  /\ UNCHANGED lineVars

\* The deadline of the read passes; what was read of a frame is dropped with it.
ReadTimesOut ==
  /\ Reading
  /\ Ends(FALSE, 0)
  /\ UNCHANGED <<open, input, wire, projected, sent, faults>>

Exchange == ChunkRead \/ Acknowledged \/ Finished \/ Mismatched \/ ReadTimesOut

Port == OpenPort(TRUE) \/ OpenPort(FALSE) \/ ClosePort
Line == ByteArrives \/ ReadFails \/ Exchange

-----------------------------------------------------------------------------
\* Properties.

Byte == [place : 1 .. BytesPerFrame, kind : {"head", "ack", "finish"}, payload : Nat, n : Nat]

\* Every variable has its type; a read never holds more than a frame.
LineTypeOK ==
  /\ open \in BOOLEAN
  /\ input \in Seq(Byte)
  /\ wire \in Seq(Byte)
  /\ exchange \in [pc : {"idle", "ack", "finish"}, cmd : Commands, n : Nat, acc : Seq(Byte),
                   ack : Nat, clean : BOOLEAN, before : Nat]
  /\ Len(exchange.acc) <= BytesPerFrame
  /\ projected \subseteq Nat
  /\ sent \in Nat
  /\ faults \in Nat
  /\ result \in [n : Nat, ok : BOOLEAN, ack : Nat, finish : Nat, clean : BOOLEAN]

\* A command that began with nothing left over from earlier ones, and read without a fault,
\* reports success only for answers to itself, hence only if the projector obeyed it.
CleanSuccessIsOwn ==
  result.ok /\ result.clean =>
    /\ result.n \in projected
    /\ result.ack = result.n
    /\ result.finish \in {0, result.n}

\* What no time-out can undo: an exchange whose command the projector obeys never leaves less
\* unread than it found.  A late answer is therefore in the way of every later command until
\* the port is opened again.
BacklogNeverShrinks ==
  [][exchange # Idle /\ exchange' = Idle /\ faults = 0 /\ exchange.n \in projected =>
       Backlog' >= exchange.before]_lineVars

\* The caller of Send gets its result, whatever the projector does.
ExchangeEnds == exchange # Idle ~> exchange = Idle
=============================================================================
