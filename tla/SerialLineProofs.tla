-------------------------- MODULE SerialLineProofs --------------------------
(***************************************************************************)
(* Proofs about the steps of SerialLine, for every value of its constants. *)
(* The line has no specification of its own: what holds of a system that   *)
(* takes only steps of LineStep on it follows from the lemmas LineInitial  *)
(* and LineInductive.                                                      *)
(***************************************************************************)
EXTENDS SerialLine, SequenceTheorems, TLAPS

LineStep ==
  \/ Port
  \/ Line
  \/ SendRefused
  \/ \E cmd \in Commands : CommandWritten(cmd) \/ BytesWritten(cmd)

-----------------------------------------------------------------------------
\* The inductive invariant.

InExchange == exchange.pc # "idle"

\* An exchange has the port to itself, and no command was obeyed that was not sent.
Conduct ==
  /\ ~InExchange => exchange = Idle
  /\ InExchange => open
  /\ projected \subseteq 1 .. sent

\* Answers of one command, and none if it was not obeyed.
AnswersTo(n) == {b \in Byte : b.n = n /\ n \in projected}

\* A clean exchange finds nothing on the line but answers to its own command.
OnlyOwnAnswers ==
  InExchange /\ exchange.clean =>
    /\ {input, wire, exchange.acc} \subseteq Seq(AnswersTo(exchange.n))
    /\ exchange.pc = "finish" => exchange.n \in projected /\ exchange.ack = exchange.n

\* What an exchange still has to read: both answers before a production command is acknowledged,
\* one otherwise.
Due ==
  IF exchange.pc = "ack" /\ exchange.cmd.kind = "production" THEN BytesPerFrame + BytesPerFrame
  ELSE BytesPerFrame

\* Unless a read failed, what an obeyed command added to the line is there or was read.
NothingLost ==
  InExchange /\ faults = 0 /\ exchange.n \in projected =>
    Backlog + Len(exchange.acc) = exchange.before + Due

LineInv == LineTypeOK /\ Conduct /\ OnlyOwnAnswers /\ NothingLost /\ CleanSuccessIsOwn

-----------------------------------------------------------------------------
\* What the operators return.

LEMMA IdleExchange ==
  /\ Idle.pc = "idle" /\ Idle.acc = <<>> /\ Idle.n = 0 /\ Idle.ack = 0 /\ Idle.before = 0
  /\ Idle.clean = TRUE /\ Idle.cmd \in Commands
BY SerialAssumption DEF Idle

LEMMA IdleTyped ==
  Idle \in [pc : {"idle", "ack", "finish"}, cmd : Commands, n : Nat, acc : Seq(Byte),
            ack : Nat, clean : BOOLEAN, before : Nat]
<1>1. <<>> \in Seq(Byte)
  BY EmptySeq
<1>2. (CHOOSE c \in Commands : TRUE) \in Commands
  BY SerialAssumption
<1>3. QED
  BY <1>1, <1>2 DEF Idle

LEMMA PayloadTyped == ASSUME NEW cmd \in Commands PROVE ExpectedPayload(cmd) \in Nat
<1>1. cmd.index \in Nat /\ cmd.kind \in {"production", "set"}
  BY SerialAssumption
<1>2. CASE ~IsCommand(cmd)
  BY <1>2 DEF ExpectedPayload
<1>3. CASE IsCommand(cmd) /\ cmd.kind = "production"
  BY <1>1, <1>3 DEF ExpectedPayload, IsCommand, ProductionPayload
<1>4. CASE IsCommand(cmd) /\ cmd.kind # "production"
  BY <1>1, <1>4 DEF ExpectedPayload, IsCommand, SetPayload
<1>5. QED
  BY <1>2, <1>3, <1>4

LEMMA FrameTyped ==
  ASSUME NEW kind \in {"ack", "finish"}, NEW payload \in Nat, NEW n \in Nat,
         NEW S, {b \in Byte : b.n = n} \subseteq S
  PROVE  Frame(kind, payload, n) \in Seq(S) /\ Len(Frame(kind, payload, n)) = BytesPerFrame
<1>1. BytesPerFrame \in Nat
  BY SerialAssumption
<1>2. \A p \in 1 .. BytesPerFrame : Frame(kind, payload, n)[p] \in S
  BY <1>1 DEF Frame, Byte
<1>3. Frame(kind, payload, n) \in [1 .. BytesPerFrame -> S]
  BY <1>2 DEF Frame
<1>4. Frame(kind, payload, n) \in Seq(S)
  BY <1>1, <1>3, SeqDef
<1>5. DOMAIN Frame(kind, payload, n) = 1 .. BytesPerFrame
  BY DEF Frame
<1>6. QED
  BY <1>1, <1>4, <1>5, LenProperties

AnswerBytes(cmd) ==
  IF cmd.kind = "production" THEN BytesPerFrame + BytesPerFrame ELSE BytesPerFrame

LEMMA AnswersTyped ==
  ASSUME NEW cmd \in Commands, NEW n \in Nat, NEW S, {b \in Byte : b.n = n} \subseteq S
  PROVE  Answers(cmd, n) \in Seq(S) /\ Len(Answers(cmd, n)) = AnswerBytes(cmd)
<1>1. /\ Frame("ack", ExpectedPayload(cmd), n) \in Seq(S)
      /\ Len(Frame("ack", ExpectedPayload(cmd), n)) = BytesPerFrame
      /\ Frame("finish", 0, n) \in Seq(S)
      /\ Len(Frame("finish", 0, n)) = BytesPerFrame
  BY FrameTyped, PayloadTyped
<1>2. QED
  BY <1>1, ConcatProperties DEF Answers, AnswerBytes

-----------------------------------------------------------------------------
\* How bytes move, whatever set they are of.

LEMMA ByteMoves ==
  ASSUME NEW S, input \in Seq(S), wire \in Seq(S), ByteArrives
  PROVE  /\ input' \in Seq(S) /\ wire' \in Seq(S)
         /\ open => Backlog' = Backlog
<1>1. Head(wire) \in S /\ Tail(wire) \in Seq(S) /\ Len(Tail(wire)) = Len(wire) - 1
  BY HeadTailProperties DEF ByteArrives
<1>2. Append(input, Head(wire)) \in Seq(S) /\ Len(Append(input, Head(wire))) = Len(input) + 1
  BY <1>1, AppendProperties
<1>3. Len(input) \in Nat /\ Len(wire) \in Nat
  BY LenProperties
<1>4. QED
  BY <1>1, <1>2, <1>3 DEF ByteArrives, Backlog

LEMMA ByteLost ==
  ASSUME NEW S, input \in Seq(S), ReadFails
  PROVE  input' \in Seq(S)
BY HeadTailProperties DEF ReadFails

LEMMA ChunkMoves ==
  ASSUME NEW S, input \in Seq(S), exchange.acc \in Seq(S), ChunkRead, LineTypeOK
  PROVE  /\ input' \in Seq(S) /\ exchange'.acc \in Seq(S)
         /\ Len(exchange'.acc) <= BytesPerFrame
         /\ Backlog' + Len(exchange'.acc) = Backlog + Len(exchange.acc)
<1> DEFINE missing == BytesPerFrame - Len(exchange.acc)
           n == IF Len(input) < missing THEN Len(input) ELSE missing
           read == SubSeq(input, 1, n)
           rest == SubSeq(input, n + 1, Len(input))
<1>1. Len(input) \in Nat /\ Len(exchange.acc) \in Nat /\ Len(wire) \in Nat
  BY LenProperties DEF LineTypeOK
<1>2. n \in 0 .. Len(input) /\ n <= missing /\ missing \in Nat
  BY <1>1, SerialAssumption DEF LineTypeOK
<1>3. \A i \in 1 .. Len(input) : input[i] \in S
  BY ElementOfSeq
<1>4. read \in Seq(S) /\ Len(read) = n
  BY <1>1, <1>2, <1>3, SubSeqProperties
<1>5. rest \in Seq(S) /\ Len(rest) = Len(input) - n
  BY <1>1, <1>2, <1>3, SubSeqProperties
<1>6. exchange.acc \o read \in Seq(S) /\ Len(exchange.acc \o read) = Len(exchange.acc) + n
  BY <1>4, ConcatProperties
<1>7. exchange'.acc = exchange.acc \o read /\ input' = rest /\ wire' = wire
  <2>1. /\ exchange' = [exchange EXCEPT !.acc = @ \o read]
        /\ input' = rest /\ wire' = wire
    BY DEF ChunkRead
  <2>2. QED
    BY <2>1 DEF LineTypeOK
<1>8. Len(exchange'.acc) = Len(exchange.acc) + n /\ Len(input') = Len(input) - n
  BY <1>5, <1>6, <1>7
<1> HIDE DEF n, read, rest
<1>9. Len(exchange'.acc) <= BytesPerFrame
  BY <1>1, <1>2, <1>8, SerialAssumption
<1>10. Backlog' + Len(exchange'.acc) = Backlog + Len(exchange.acc)
  <2> DEFINE had == Len(exchange.acc)
             has == Len(exchange'.acc)
             unread == Len(input)
             left == Len(input')
  <2>1. Backlog' = left + Len(wire) /\ Backlog = unread + Len(wire)
    BY <1>7 DEF Backlog
  <2>2. has = had + n /\ left = unread - n /\ {had, unread, n, Len(wire)} \subseteq Nat
    BY <1>1, <1>2, <1>8
  <2> HIDE DEF had, has, unread, left
  <2>3. Backlog' + has = Backlog + had
    BY <2>1, <2>2
  <2>4. QED
    BY <2>3 DEF had, has
<1>11. QED
  BY <1>5, <1>6, <1>7, <1>9, <1>10

-----------------------------------------------------------------------------
\* The invariant holds initially, and every step keeps it.

LEMMA LineInitial == LineInit => LineInv
<1> SUFFICES ASSUME LineInit PROVE LineInv
    OBVIOUS
<1>1. LineTypeOK
  <2>1. <<>> \in Seq(Byte) /\ Len(<<>>) = 0
    BY EmptySeq
  <2>2. NoResult \in [n : Nat, ok : BOOLEAN, ack : Nat, finish : Nat, clean : BOOLEAN]
    BY DEF NoResult
  <2>3. Len(Idle.acc) <= BytesPerFrame
    BY <2>1, IdleExchange, SerialAssumption
  <2>4. QED
    BY <2>1, <2>2, <2>3, IdleTyped DEF LineInit, LineTypeOK
<1>2. ~InExchange
  BY IdleExchange DEF LineInit, InExchange
<1>3. QED
  BY <1>1, <1>2
     DEF LineInit, LineInv, Conduct, OnlyOwnAnswers, NothingLost, CleanSuccessIsOwn, NoResult

\* Between exchanges nothing is due.
LEMMA NotInExchange ==
  ASSUME LineTypeOK', ~InExchange', Conduct', CleanSuccessIsOwn'
  PROVE  LineInv'
BY DEF LineInv, OnlyOwnAnswers, NothingLost

LEMMA PortKeeps == LineInv /\ Port => LineInv'
<1> SUFFICES ASSUME LineInv, Port PROVE LineInv'
    OBVIOUS
<1>1. UNCHANGED <<wire, exchange, projected, sent, faults, result>> /\ exchange = Idle
  BY DEF Port, OpenPort, ClosePort
<1>2. open' \in BOOLEAN /\ input' = <<>>
  BY DEF Port, OpenPort, ClosePort
<1>3. LineTypeOK'
  <2>1. <<>> \in Seq(Byte)
    BY EmptySeq
  <2>2. QED
    BY <1>1, <1>2, <2>1 DEF LineInv, LineTypeOK
<1>4. ~InExchange'
  BY <1>1, IdleExchange DEF InExchange
<1>5. Conduct' /\ CleanSuccessIsOwn'
  BY <1>1, <1>4 DEF LineInv, Conduct, CleanSuccessIsOwn, InExchange
<1>6. QED
  BY <1>3, <1>4, <1>5, NotInExchange

LEMMA RefusalKeeps == LineInv /\ SendRefused => LineInv'
<1> SUFFICES ASSUME LineInv, SendRefused PROVE LineInv'
    OBVIOUS
<1>1. LineTypeOK'
  <2>1. NoResult \in [n : Nat, ok : BOOLEAN, ack : Nat, finish : Nat, clean : BOOLEAN]
    BY DEF NoResult
  <2>2. QED
    BY <2>1 DEF SendRefused, LineInv, LineTypeOK
<1>2. ~InExchange'
  BY IdleExchange DEF InExchange, SendRefused
<1>3. Conduct' /\ CleanSuccessIsOwn'
  BY <1>2 DEF LineInv, Conduct, CleanSuccessIsOwn, InExchange, SendRefused, NoResult
<1>4. QED
  BY <1>1, <1>2, <1>3, NotInExchange

\* What writing does to the line.
LEMMA Writes ==
  ASSUME LineInv, NEW cmd \in Commands, Written(cmd)
  PROVE  /\ sent' = sent + 1 /\ sent' \in Nat
         /\ wire' \in Seq(Byte)
         /\ projected \subseteq projected' /\ projected' \subseteq 1 .. sent'
         /\ Backlog = 0 /\ input' = input => wire' \in Seq(AnswersTo(sent)') /\ input = <<>>
         /\ sent + 1 \in projected' => Len(wire') = Len(wire) + AnswerBytes(cmd)
<1> USE DEF LineInv
<1>1. sent' = sent + 1 /\ sent' \in Nat /\ sent \in Nat
  BY DEF Written, LineTypeOK
<1>2. wire \in Seq(Byte) /\ input \in Seq(Byte) /\ Len(wire) \in Nat /\ Len(input) \in Nat
  BY LenProperties DEF LineTypeOK
<1>3. Backlog = 0 => wire = <<>> /\ input = <<>>
  BY <1>2, EmptySeq DEF Backlog
<1>4. CASE UNCHANGED <<wire, projected>>
  <2>1. sent + 1 \notin projected
    BY <1>1 DEF Conduct
  <2>2. <<>> \in Seq(AnswersTo(sent)')
    BY EmptySeq
  <2>3. QED
    BY <1>1, <1>2, <1>3, <1>4, <2>1, <2>2 DEF Conduct
<1>5. CASE wire' = wire \o Answers(cmd, sent + 1) /\ projected' = projected \union {sent + 1}
  <2>1. /\ Answers(cmd, sent + 1) \in Seq(Byte)
        /\ Len(Answers(cmd, sent + 1)) = AnswerBytes(cmd)
    BY <1>1, AnswersTyped
  <2>2. Answers(cmd, sent + 1) \in Seq(AnswersTo(sent)')
    <3>1. {b \in Byte : b.n = sent + 1} \subseteq AnswersTo(sent)'
      BY <1>1, <1>5 DEF AnswersTo
    <3>2. QED
      BY <1>1, <3>1, AnswersTyped
  <2>3. wire' \in Seq(Byte) /\ Len(wire') = Len(wire) + AnswerBytes(cmd)
    BY <1>2, <1>5, <2>1, ConcatProperties
  <2>4. wire = <<>> => wire' \in Seq(AnswersTo(sent)')
    BY <1>5, <2>2, ConcatEmptySeq
  <2>5. QED
    BY <1>1, <1>3, <1>5, <2>3, <2>4 DEF Conduct
<1>6. QED
  BY <1>4, <1>5 DEF Written

LEMMA BytesWrittenKeeps == ASSUME LineInv, NEW cmd \in Commands, BytesWritten(cmd) PROVE LineInv'
<1>1. Written(cmd) /\ UNCHANGED <<open, input, exchange, faults, result>>
  BY DEF BytesWritten
<1>2. /\ sent' \in Nat /\ wire' \in Seq(Byte)
      /\ projected \subseteq projected' /\ projected' \subseteq 1 .. sent'
  BY <1>1, Writes
<1>3. LineTypeOK'
  BY <1>1, <1>2 DEF LineInv, LineTypeOK
<1>4. ~InExchange' /\ ~InExchange /\ exchange = Idle
  BY <1>1, IdleExchange DEF Written, InExchange
<1>5. Conduct' /\ CleanSuccessIsOwn'
  BY <1>1, <1>2, <1>4 DEF LineInv, Conduct, CleanSuccessIsOwn
<1>6. QED
  BY <1>3, <1>4, <1>5, NotInExchange

LEMMA CommandWrittenKeeps ==
  ASSUME LineInv, NEW cmd \in Commands, CommandWritten(cmd) PROVE LineInv'
<1> DEFINE begun == [pc |-> "ack", cmd |-> cmd, n |-> sent + 1, acc |-> <<>>, ack |-> 0,
                     clean |-> Backlog = 0, before |-> Backlog]
<1>1. Written(cmd) /\ exchange' = begun /\ UNCHANGED <<open, input, faults, result>>
  BY DEF CommandWritten
<1>2. /\ sent' = sent + 1 /\ sent' \in Nat /\ wire' \in Seq(Byte)
      /\ projected \subseteq projected' /\ projected' \subseteq 1 .. sent'
      /\ Backlog = 0 => wire' \in Seq(AnswersTo(sent)') /\ input = <<>>
      /\ sent + 1 \in projected' => Len(wire') = Len(wire) + AnswerBytes(cmd)
  BY <1>1, Writes
<1>3. /\ Len(input) \in Nat /\ Len(wire) \in Nat /\ Backlog \in Nat
      /\ Backlog = Len(input) + Len(wire)
  BY LenProperties DEF LineInv, LineTypeOK, Backlog
<1>4. /\ exchange'.pc = "ack" /\ exchange'.cmd = cmd /\ exchange'.n = sent' /\ exchange'.acc = <<>>
      /\ exchange'.clean = (Backlog = 0) /\ exchange'.before = Backlog
  BY <1>1, <1>2
<1>5. <<>> \in Seq(Byte) /\ <<>> \in Seq(AnswersTo(sent)') /\ Len(<<>>) = 0
  BY EmptySeq
<1>6. LineTypeOK'
  <2> DEFINE clean == Backlog = 0
  <2>1. clean \in BOOLEAN
    OBVIOUS
  <2> HIDE DEF clean
  <2>2. begun \in [pc : {"idle", "ack", "finish"}, cmd : Commands, n : Nat, acc : Seq(Byte),
                    ack : Nat, clean : BOOLEAN, before : Nat]
    BY <1>2, <1>3, <1>5, <2>1 DEF LineInv, LineTypeOK
  <2>3. Len(exchange'.acc) <= BytesPerFrame
    BY <1>4, <1>5, SerialAssumption
  <2>4. QED
    BY <1>1, <1>2, <2>2, <2>3 DEF LineInv, LineTypeOK
<1>7. Conduct'
  BY <1>1, <1>2, <1>4 DEF Conduct, InExchange, Written
<1>8. OnlyOwnAnswers'
  <2>1. AnswersTo(sent)' = AnswersTo(exchange.n)'
    BY <1>4
  <2>2. QED
    BY <1>1, <1>2, <1>4, <1>5, <2>1 DEF OnlyOwnAnswers, InExchange
<1>9. NothingLost'
  <2>1. Backlog' = Len(input) + Len(wire')
    BY <1>1 DEF Backlog
  <2>2. Due' = AnswerBytes(cmd)
    BY <1>4 DEF Due, AnswerBytes
  <2>3. Len(exchange'.acc) = 0
    BY <1>4, <1>5
  <2>4. AnswerBytes(cmd) \in Nat
    BY SerialAssumption DEF AnswerBytes
  <2>5. ASSUME sent + 1 \in projected'
        PROVE  Backlog' + 0 = Backlog + AnswerBytes(cmd)
    BY <1>2, <1>3, <2>1, <2>4, <2>5
  <2>6. exchange'.n = sent + 1 /\ exchange'.before = Backlog
    BY <1>2, <1>4
  <2>7. QED
    BY <2>2, <2>3, <2>5, <2>6 DEF NothingLost
<1>10. CleanSuccessIsOwn'
  BY <1>1, <1>2 DEF LineInv, CleanSuccessIsOwn
<1>11. QED
  BY <1>6, <1>7, <1>8, <1>9, <1>10 DEF LineInv

LEMMA ByteArrivesKeeps == LineInv /\ ByteArrives => LineInv'
<1> SUFFICES ASSUME LineInv, ByteArrives PROVE LineInv'
    OBVIOUS
<1>1. UNCHANGED <<open, exchange, projected, sent, faults, result>>
  BY DEF ByteArrives
<1>2. LineTypeOK'
  BY <1>1, ByteMoves DEF LineInv, LineTypeOK
<1>3. Conduct' /\ CleanSuccessIsOwn'
  BY <1>1 DEF LineInv, Conduct, CleanSuccessIsOwn, InExchange
<1>4. OnlyOwnAnswers'
  BY <1>1, ByteMoves DEF LineInv, OnlyOwnAnswers, InExchange, AnswersTo
<1>5. NothingLost'
  <2>1. InExchange' => Backlog' = Backlog
    BY <1>1, ByteMoves DEF LineInv, LineTypeOK, Conduct, InExchange
  <2>2. QED
    BY <1>1, <2>1 DEF LineInv, NothingLost, InExchange, Due
<1>6. QED
  BY <1>2, <1>3, <1>4, <1>5 DEF LineInv

LEMMA ReadFailsKeeps == LineInv /\ ReadFails => LineInv'
<1> SUFFICES ASSUME LineInv, ReadFails PROVE LineInv'
    OBVIOUS
<1>1. /\ UNCHANGED <<open, wire, projected, sent, result>>
      /\ faults' = faults + 1
      /\ exchange' = [exchange EXCEPT !.clean = FALSE]
      /\ Reading
  BY DEF ReadFails
<1>2. /\ exchange'.pc = exchange.pc /\ exchange'.acc = exchange.acc /\ ~exchange'.clean
      /\ exchange.pc # "idle"
  BY <1>1 DEF LineInv, LineTypeOK, Reading
<1>3. LineTypeOK'
  <2>1. input' \in Seq(Byte)
    BY ByteLost DEF LineInv, LineTypeOK
  <2>2. exchange' \in [pc : {"idle", "ack", "finish"}, cmd : Commands, n : Nat, acc : Seq(Byte),
                       ack : Nat, clean : BOOLEAN, before : Nat]
    BY <1>1 DEF LineInv, LineTypeOK
  <2>3. Len(exchange'.acc) <= BytesPerFrame
    BY <1>2 DEF LineInv, LineTypeOK
  <2>4. QED
    BY <1>1, <2>1, <2>2, <2>3 DEF LineInv, LineTypeOK
<1>4. Conduct' /\ CleanSuccessIsOwn' /\ OnlyOwnAnswers'
  BY <1>1, <1>2 DEF LineInv, Conduct, CleanSuccessIsOwn, OnlyOwnAnswers, InExchange
<1>5. NothingLost'
  BY <1>1 DEF LineInv, LineTypeOK, NothingLost
<1>6. QED
  BY <1>3, <1>4, <1>5 DEF LineInv

LEMMA ChunkReadKeeps == LineInv /\ ChunkRead => LineInv'
<1> SUFFICES ASSUME LineInv, ChunkRead PROVE LineInv'
    OBVIOUS
<1>1. UNCHANGED <<open, wire, projected, sent, faults, result>> /\ Reading
  BY DEF ChunkRead
<1>2. PICK acc : exchange' = [exchange EXCEPT !.acc = acc]
  BY DEF ChunkRead
<1>3. /\ exchange'.pc = exchange.pc /\ exchange'.cmd = exchange.cmd /\ exchange'.n = exchange.n
      /\ exchange'.ack = exchange.ack /\ exchange'.clean = exchange.clean
      /\ exchange'.before = exchange.before /\ exchange'.acc = acc
      /\ exchange.pc # "idle"
  BY <1>1, <1>2 DEF LineInv, LineTypeOK, Reading
<1>4. LineTypeOK'
  <2>1. input' \in Seq(Byte) /\ acc \in Seq(Byte) /\ Len(exchange'.acc) <= BytesPerFrame
    BY <1>3, ChunkMoves DEF LineInv, LineTypeOK
  <2>2. QED
    BY <1>1, <1>2, <2>1 DEF LineInv, LineTypeOK
<1>5. Conduct' /\ CleanSuccessIsOwn'
  BY <1>1, <1>3 DEF LineInv, Conduct, CleanSuccessIsOwn, InExchange
<1>6. OnlyOwnAnswers'
  <2>1. AnswersTo(exchange.n)' = AnswersTo(exchange.n)
    BY <1>1, <1>3 DEF AnswersTo
  <2>2. QED
    BY <1>1, <1>3, <2>1, ChunkMoves DEF LineInv, OnlyOwnAnswers, InExchange
<1>7. NothingLost'
  <2>1. Backlog' + Len(exchange'.acc) = Backlog + Len(exchange.acc)
    BY ChunkMoves DEF LineInv, LineTypeOK
  <2>2. QED
    BY <1>1, <1>3, <2>1 DEF LineInv, NothingLost, InExchange, Due
<1>8. QED
  BY <1>4, <1>5, <1>6, <1>7 DEF LineInv

\* The last byte of a frame read in a clean exchange is of the exchange's own command.
LEMMA LastByteTyped ==
  ASSUME LineInv, FrameRead
  PROVE  /\ LastByte(exchange.acc).n \in Nat
         /\ exchange.clean => LastByte(exchange.acc).n = exchange.n /\ exchange.n \in projected
<1>1. BytesPerFrame \in 1 .. Len(exchange.acc)
  BY SerialAssumption DEF FrameRead
<1>2. LastByte(exchange.acc) \in Byte
  BY <1>1, ElementOfSeq DEF LineInv, LineTypeOK, LastByte
<1>3. exchange.clean => LastByte(exchange.acc) \in AnswersTo(exchange.n)
  BY <1>1, ElementOfSeq DEF LineInv, OnlyOwnAnswers, LastByte, FrameRead, InExchange
<1>4. QED
  BY <1>2, <1>3 DEF Byte, AnswersTo

\* The end of a call, when what it claims is right.
LEMMA EndKeeps ==
  ASSUME LineInv, InExchange, exchange' = Idle,
         UNCHANGED <<open, input, wire, projected, sent, faults>>,
         result' \in [n : Nat, ok : BOOLEAN, ack : Nat, finish : Nat, clean : BOOLEAN],
         CleanSuccessIsOwn'
  PROVE  LineInv'
<1>1. <<>> \in Seq(Byte) /\ Len(<<>>) = 0
  BY EmptySeq
<1>2. Len(exchange'.acc) <= BytesPerFrame
  BY <1>1, IdleExchange, SerialAssumption
<1>3. LineTypeOK'
  BY <1>2, IdleTyped DEF LineInv, LineTypeOK
<1>4. ~InExchange'
  BY IdleExchange DEF InExchange
<1>5. Conduct'
  BY <1>4 DEF LineInv, Conduct
<1>6. QED
  BY <1>3, <1>4, <1>5, NotInExchange

LEMMA AcknowledgedKeeps == LineInv /\ Acknowledged => LineInv'
<1> SUFFICES ASSUME LineInv, Acknowledged PROVE LineInv'
    OBVIOUS
<1>1. UNCHANGED <<open, input, wire, projected, sent, faults>> /\ FrameRead /\ exchange.pc = "ack"
  BY DEF Acknowledged
<1> DEFINE own == LastByte(exchange.acc).n
<1>2. own \in Nat /\ (exchange.clean => own = exchange.n /\ exchange.n \in projected)
  BY <1>1, LastByteTyped
<1>3. CASE exchange.cmd.kind = "set"
  <2>1. /\ exchange' = Idle
        /\ result' = [n |-> exchange.n, ok |-> TRUE, ack |-> own, finish |-> 0,
                      clean |-> exchange.clean]
    BY <1>3 DEF Acknowledged
  <2> HIDE DEF own
  <2>2. result' \in [n : Nat, ok : BOOLEAN, ack : Nat, finish : Nat, clean : BOOLEAN]
    BY <1>2, <2>1 DEF LineInv, LineTypeOK
  <2>3. CleanSuccessIsOwn'
    BY <1>1, <1>2, <2>1 DEF CleanSuccessIsOwn
  <2>4. QED
    BY <1>1, <2>1, <2>2, <2>3, EndKeeps DEF InExchange
<1>4. CASE exchange.cmd.kind # "set"
  <2>1. /\ exchange' = [exchange EXCEPT !.pc = "finish", !.acc = <<>>, !.ack = own]
        /\ UNCHANGED result
    BY <1>4 DEF Acknowledged
  <2> HIDE DEF own
  <2>2. /\ exchange'.pc = "finish" /\ exchange'.acc = <<>> /\ exchange'.ack = own
        /\ exchange'.n = exchange.n /\ exchange'.clean = exchange.clean
        /\ exchange'.before = exchange.before
    BY <2>1 DEF LineInv, LineTypeOK
  <2>3. <<>> \in Seq(Byte) /\ Len(<<>>) = 0 /\ \A S : <<>> \in Seq(S)
    BY EmptySeq
  <2>4. LineTypeOK'
    <3>1. Len(exchange'.acc) <= BytesPerFrame
      BY <2>2, <2>3, SerialAssumption
    <3>2. QED
      BY <1>1, <1>2, <2>1, <2>3, <3>1 DEF LineInv, LineTypeOK
  <2>5. Conduct' /\ CleanSuccessIsOwn'
    BY <1>1, <2>1, <2>2 DEF LineInv, Conduct, CleanSuccessIsOwn, InExchange
  <2>6. OnlyOwnAnswers'
    <3>1. AnswersTo(exchange.n)' = AnswersTo(exchange.n)
      BY <1>1, <2>2 DEF AnswersTo
    <3>2. QED
      BY <1>1, <1>2, <2>2, <2>3, <3>1 DEF LineInv, OnlyOwnAnswers, InExchange
  <2>7. NothingLost'
    <3>1. exchange.cmd.kind = "production"
      BY <1>4, SerialAssumption DEF LineInv, LineTypeOK
    <3>2. Due = BytesPerFrame + BytesPerFrame /\ Due' = BytesPerFrame
      BY <1>1, <2>2, <3>1 DEF Due
    <3>3. Len(exchange.acc) = BytesPerFrame /\ Len(exchange'.acc) = 0
      BY <1>1, <2>2, <2>3 DEF FrameRead
    <3>4. Backlog' = Backlog /\ Backlog \in Nat
      BY <1>1, LenProperties DEF LineInv, LineTypeOK, Backlog
    <3>5. exchange.before \in Nat
      BY DEF LineInv, LineTypeOK
    <3>6. QED
      BY <1>1, <2>2, <3>2, <3>3, <3>4, <3>5, SerialAssumption DEF LineInv, NothingLost, InExchange
  <2>8. QED
    BY <2>4, <2>5, <2>6, <2>7 DEF LineInv
<1>5. QED
  BY <1>3, <1>4

LEMMA FinishedKeeps == LineInv /\ Finished => LineInv'
<1> SUFFICES ASSUME LineInv, Finished PROVE LineInv'
    OBVIOUS
<1> DEFINE own == LastByte(exchange.acc).n
<1>1. /\ UNCHANGED <<open, input, wire, projected, sent, faults>>
      /\ FrameRead /\ exchange.pc = "finish" /\ exchange' = Idle
      /\ result' = [n |-> exchange.n, ok |-> TRUE, ack |-> exchange.ack, finish |-> own,
                    clean |-> exchange.clean]
  BY DEF Finished, Ends
<1>2. own \in Nat /\ (exchange.clean => own = exchange.n /\ exchange.n \in projected)
  BY <1>1, LastByteTyped
<1> HIDE DEF own
<1>3. result' \in [n : Nat, ok : BOOLEAN, ack : Nat, finish : Nat, clean : BOOLEAN]
  BY <1>1, <1>2 DEF LineInv, LineTypeOK
<1>4. CleanSuccessIsOwn'
  BY <1>1, <1>2 DEF CleanSuccessIsOwn, LineInv, OnlyOwnAnswers, InExchange
<1>5. QED
  BY <1>1, <1>3, <1>4, EndKeeps DEF InExchange

LEMMA FailureKeeps == LineInv /\ (Mismatched \/ ReadTimesOut) => LineInv'
<1> SUFFICES ASSUME LineInv, Mismatched \/ ReadTimesOut PROVE LineInv'
    OBVIOUS
<1>1. /\ UNCHANGED <<open, input, wire, projected, sent, faults>>
      /\ InExchange /\ exchange' = Idle
      /\ result' = [n |-> exchange.n, ok |-> FALSE, ack |-> exchange.ack, finish |-> 0,
                    clean |-> exchange.clean]
  BY DEF Mismatched, ReadTimesOut, Ends, FrameRead, Reading, InExchange
<1>2. result' \in [n : Nat, ok : BOOLEAN, ack : Nat, finish : Nat, clean : BOOLEAN]
  BY <1>1 DEF LineInv, LineTypeOK
<1>3. CleanSuccessIsOwn'
  BY <1>1 DEF CleanSuccessIsOwn
<1>4. QED
  BY <1>1, <1>2, <1>3, EndKeeps

LEMMA LineInductive == LineInv /\ [LineStep]_lineVars => LineInv'
<1> SUFFICES ASSUME LineInv, [LineStep]_lineVars PROVE LineInv'
    OBVIOUS
<1>1. CASE UNCHANGED lineVars
  BY <1>1 DEF lineVars, LineInv, LineTypeOK, Conduct, OnlyOwnAnswers, NothingLost, CleanSuccessIsOwn,
              InExchange, AnswersTo, Backlog, Due
<1>2. CASE Port
  BY <1>2, PortKeeps
<1>3. CASE Line
  BY <1>3, ByteArrivesKeeps, ReadFailsKeeps, ChunkReadKeeps, AcknowledgedKeeps, FinishedKeeps,
     FailureKeeps DEF Line, Exchange
<1>4. CASE SendRefused
  BY <1>4, RefusalKeeps
<1>5. ASSUME NEW cmd \in Commands, CommandWritten(cmd) \/ BytesWritten(cmd) PROVE LineInv'
  BY <1>5, CommandWrittenKeeps, BytesWrittenKeeps
<1>6. QED
  BY <1>1, <1>2, <1>3, <1>4, <1>5 DEF LineStep

-----------------------------------------------------------------------------
\* What an exchange leaves unread.

\* An exchange ends with a step that neither reads nor adds anything.
LEMMA EndMovesNothing ==
  ASSUME LineInv, LineStep, InExchange, exchange' = Idle
  PROVE  UNCHANGED <<input, wire>>
<1>1. exchange'.pc = "idle" /\ exchange.pc # "idle" /\ exchange # Idle
  BY IdleExchange DEF InExchange
<1>2. ~Port /\ ~SendRefused
  BY <1>1 DEF Port, OpenPort, ClosePort, SendRefused
<1>3. \A cmd \in Commands : ~CommandWritten(cmd) /\ ~BytesWritten(cmd)
  BY <1>1 DEF CommandWritten, BytesWritten, Written
<1>4. ~ByteArrives
  BY <1>1 DEF ByteArrives
<1>5. ~ReadFails
  BY <1>1 DEF ReadFails, Reading, LineInv, LineTypeOK
<1>6. ~ChunkRead
  BY <1>1 DEF ChunkRead, Reading, LineInv, LineTypeOK
<1>7. QED
  BY <1>2, <1>3, <1>4, <1>5, <1>6
     DEF LineStep, Line, Exchange, Acknowledged, Finished, Mismatched, ReadTimesOut

LEMMA BacklogKept ==
  ASSUME LineInv, [LineStep]_lineVars, exchange # Idle, exchange' = Idle, faults = 0,
         exchange.n \in projected
  PROVE  Backlog' >= exchange.before
<1>1. InExchange
  BY DEF LineInv, Conduct
<1>2. Backlog' = Backlog
  BY <1>1, EndMovesNothing DEF Backlog, lineVars
<1>3. Backlog + Len(exchange.acc) = exchange.before + Due
  BY <1>1 DEF LineInv, NothingLost
<1>4. /\ Backlog \in Nat /\ exchange.before \in Nat /\ BytesPerFrame \in Nat
      /\ Len(exchange.acc) \in Nat /\ Len(exchange.acc) <= BytesPerFrame
  BY LenProperties, SerialAssumption DEF LineInv, LineTypeOK, Backlog
<1>5. Due \in Nat /\ BytesPerFrame <= Due
  BY <1>4 DEF Due
<1>6. Backlog >= exchange.before
  BY <1>3, <1>4, <1>5
<1>7. QED
  BY <1>2, <1>6
=============================================================================
