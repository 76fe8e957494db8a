------------------------------ MODULE MsgParser ------------------------------
(***************************************************************************)
(* network.MsgParser (network/tcp_msg.go): a message on the connection is  *)
(* its length, in 1, 2 or 4 bytes, and its bytes.  Both ends are set up    *)
(* alike, with any number of calls of SetMsgLen and SetByteOrder before    *)
(* the first message ("It's dangerous to call the method on reading or     *)
(* writing").  The bytes arrive one by one; io.ReadFull waits for as many  *)
(* as it was asked for.                                                    *)
(***************************************************************************)
EXTENDS Integers, Sequences, SequencesExt

CONSTANTS Base,                  \* values of a byte, 256 in the code
          Args,                  \* the argument lists of Write in use
          LenArgs, MinArgs, MaxArgs, \* arguments of SetMsgLen in use
          MaxSets, MaxMsgs       \* bounds on the calls of SetMsgLen and Write

Byte == 0..(Base - 1)

ASSUME ParserAssumption ==
    /\ Base \in Nat \ {0, 1} /\ MaxSets \in Nat /\ MaxMsgs \in Nat
    /\ Args \subseteq Seq(Seq(Byte))
    /\ LenArgs \subseteq Nat /\ MinArgs \subseteq Nat /\ MaxArgs \subseteq Nat

VARIABLES
    lenMsgLen, minMsgLen, maxMsgLen, littleEndian,
    sets,      \* calls of SetMsgLen so far
    wire,      \* bytes written and not yet arrived
    arrived,   \* bytes arrived and not yet read
    rpc,       \* the reader: -1 before the length, else the length it read
    written,   \* history: the messages Write accepted
    read,      \* history: the messages Read returned
    failed     \* Read returned "message too long" or "message too short"

setup == <<lenMsgLen, minMsgLen, maxMsgLen, littleEndian, sets>>
parserVars == <<setup, wire, arrived, rpc, written, read, failed>>

\* Base to the power of n, and the largest length that n bytes hold.
Power(n) ==
    <<1, Base, Base * Base, Base * Base * Base, Base * Base * Base * Base>>[n + 1]
MaxLen(n) == Power(n) - 1

ParserTypeOK ==
    /\ lenMsgLen \in {1, 2, 4} /\ littleEndian \in BOOLEAN
    /\ minMsgLen \in 0..MaxLen(lenMsgLen) /\ maxMsgLen \in 0..MaxLen(lenMsgLen)
    /\ sets \in 0..MaxSets
    /\ wire \in Seq(Byte) /\ arrived \in Seq(Byte) /\ rpc \in -1..MaxLen(lenMsgLen)
    /\ written \in Seq(Seq(Byte)) /\ read \in Seq(Seq(Byte)) /\ failed \in BOOLEAN

\* NewMsgParser; its default of 4096 is cut to what two bytes hold here.
ParserInit ==
    /\ lenMsgLen = 2 /\ minMsgLen = 1 /\ maxMsgLen = MaxLen(2) /\ littleEndian = FALSE
    /\ sets = 0 /\ wire = <<>> /\ arrived = <<>> /\ rpc = -1
    /\ written = <<>> /\ read = <<>> /\ failed = FALSE

AtMost(n, max) == IF n > max THEN max ELSE n

\* Mutant of SetMsgLen: a given maximum is not cut.
SetMsgLenUncut(n, min, max) ==
    LET l == IF n \in {1, 2, 4} THEN n ELSE lenMsgLen
    IN  /\ written = <<>> /\ sets < MaxSets /\ sets' = sets + 1
        /\ lenMsgLen' = l
        /\ minMsgLen' = AtMost(IF min # 0 THEN min ELSE minMsgLen, MaxLen(l))
        /\ maxMsgLen' = IF max # 0 THEN max ELSE AtMost(maxMsgLen, MaxLen(l))
        /\ UNCHANGED <<littleEndian, wire, arrived, rpc, written, read, failed>>

\* An unknown width and zero bounds keep the old values; then both bounds are
\* cut to what the width can express.
SetMsgLen(n, min, max) ==
    LET l == IF n \in {1, 2, 4} THEN n ELSE lenMsgLen
    IN  /\ written = <<>> /\ sets < MaxSets /\ sets' = sets + 1
        /\ lenMsgLen' = l
        /\ minMsgLen' = AtMost(IF min # 0 THEN min ELSE minMsgLen, MaxLen(l))
        /\ maxMsgLen' = AtMost(IF max # 0 THEN max ELSE maxMsgLen, MaxLen(l))
        /\ UNCHANGED <<littleEndian, wire, arrived, rpc, written, read, failed>>

SetByteOrder(little) ==
    /\ written = <<>> /\ littleEndian' = little
    /\ UNCHANGED <<lenMsgLen, minMsgLen, maxMsgLen, sets, wire, arrived, rpc, written, read, failed>>

\* The n lowest bytes of v, in the byte order of the parser; and back.
Put(v, n) ==
    [i \in 1..n |-> (v \div Power(IF littleEndian THEN i - 1 ELSE n - i)) % Base]
Uint(b) ==
    LET At(k) == b[IF littleEndian THEN k + 1 ELSE Len(b) - k]
    IN  CASE Len(b) = 1 -> At(0)
          [] Len(b) = 2 -> At(0) + At(1) * Power(1)
          [] Len(b) = 4 -> At(0) + At(1) * Power(1) + At(2) * Power(2) + At(3) * Power(3)

Fits(n) == n <= maxMsgLen /\ n >= minMsgLen

\* Write of a message of acceptable length; any other is an error and leaves
\* the connection alone.
Write(args) ==
    LET msg == FlattenSeq(args)
    IN  /\ Len(written) < MaxMsgs /\ Fits(Len(msg))
        /\ written' = Append(written, msg) /\ wire' = wire \o Put(Len(msg), lenMsgLen) \o msg
        /\ UNCHANGED <<setup, arrived, rpc, read, failed>>

Arrive ==
    /\ wire # <<>> /\ wire' = Tail(wire) /\ arrived' = Append(arrived, Head(wire))
    /\ UNCHANGED <<setup, rpc, written, read, failed>>

\* Read up to the check of the length, and the rest of it.
ReadLen ==
    /\ ~failed /\ rpc = -1 /\ Len(arrived) >= lenMsgLen
    /\ LET n == Uint(SubSeq(arrived, 1, lenMsgLen))
       IN  failed' = ~Fits(n) /\ rpc' = IF Fits(n) THEN n ELSE -1
    /\ arrived' = SubSeq(arrived, lenMsgLen + 1, Len(arrived))
    /\ UNCHANGED <<setup, wire, written, read>>

ReadData ==
    /\ ~failed /\ rpc # -1 /\ Len(arrived) >= rpc
    /\ read' = Append(read, SubSeq(arrived, 1, rpc))
    /\ arrived' = SubSeq(arrived, rpc + 1, Len(arrived)) /\ rpc' = -1
    /\ UNCHANGED <<setup, wire, written, failed>>

ParserNext ==
    \/ \E n \in LenArgs, min \in MinArgs, max \in MaxArgs : SetMsgLen(n, min, max)
    \/ \E little \in BOOLEAN : SetByteOrder(little)
    \/ \E args \in Args : Write(args)
    \/ Arrive \/ ReadLen \/ ReadData

ParserSpec == ParserInit /\ [][ParserNext]_parserVars

-----------------------------------------------------------------------------
(* Properties.                                                             *)

\* Read returns the messages Write accepted, whole, in order and nothing else,
\* whatever bytes they hold and however the bytes arrive: the bounds SetMsgLen
\* leaves behind never let through a length that its width cannot express.
RoundTrip == IsPrefix(read, written)

\* Read accepts every length that Write accepted, so it never gives the
\* connection up, and when all bytes have been read all messages have.
NothingLost ==
    /\ ~failed
    /\ wire = <<>> /\ arrived = <<>> /\ rpc = -1 => read = written

\* The two ends agree on the messages in every state.
FrameInv == ParserTypeOK /\ RoundTrip /\ NothingLost

=============================================================================
