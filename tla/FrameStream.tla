---------------------------- MODULE FrameStream -----------------------------
(***************************************************************************)
(* One direction of a TCP stream, byte by byte: every message is sent by a *)
(* task of its own, which takes the mutex of the write half and writes a   *)
(* size and the bytes of the message; the reader of the other side reads a *)
(* size and then as many bytes as it says.                                 *)
(*                                                                         *)
(* The size has a fixed width and saturates (value_from_number), and the   *)
(* bytes that come after a size are not marked in any way: a message that  *)
(* is too long for its size makes the reader take the rest of it for the   *)
(* next size.  A byte is a digit of base Base, a size has Width digits.    *)
(* The server writes and the client reads; the code of the other direction *)
(* is the same.  Both sides have the same settings.                        *)
(***************************************************************************)
EXTENDS Integers, Sequences, FiniteSets, SequencesExt

CONSTANTS
  Base,      \* digits of a byte, an even number
  Width,     \* bytes of a size
  Lengths,   \* lengths of messages; a serialised message is never empty
  MaxMsgs    \* bound: messages sent

ASSUME FrameAssumption ==
  /\ Base \in Nat /\ Base % 2 = 0 /\ MaxMsgs \in 1 .. Base - 1
  /\ Width \in Nat \ {0}
  /\ Lengths \subseteq Nat \ {0}

VARIABLES
  bytes, order,   \* settings: BytesOptions and OrderOptions
  lens,           \* lengths of the messages sent, in the order of the calls
  unsent,         \* what the task of each message has still to write
  holders,        \* the tasks that hold the mutex of the write half
  started,        \* the tasks that have held it, in that order
  wire,           \* bytes written and not read
  link,           \* the stream is open or broken
  phase, size, got, \* the reader: where it is, the size read, bytes read
  received        \* message_received: the messages read, each a sequence

settings == <<bytes, order>>
writers  == <<lens, unsent, holders, started>>
reader   == <<phase, size, got, received>>
vars     == <<settings, writers, wire, link, reader>>

Byte == 0 .. Base - 1

\* Base to the power n.
Power[n \in 0 .. Width] == IF n = 0 THEN 1 ELSE Base * Power[n - 1]

\* Half of what a size of Width bytes can hold, and all of it.
Half == Power[Width] \div 2
Full == Power[Width]

\* The largest size of the type chosen in the settings.
Limit == IF bytes = "signed" THEN Half - 1 ELSE Full - 1

-----------------------------------------------------------------------------
(* Sizes.                                                                  *)

\* value_from_number: `as` saturates.
ValueFromNumber(n) == IF n > Limit THEN Limit ELSE n

\* v without its i lowest bytes.
Shifted(v) ==
  LET s[i \in 0 .. Width] == IF i = 0 THEN v ELSE s[i - 1] \div Base IN s

\* to_le_bytes, of a number that is not negative.
LittleEndian(v) == [i \in 1 .. Width |-> Shifted(v)[i - 1] % Base]

\* The number the first i of bytes s are, the highest one first.
Leading(s) ==
  LET n[i \in 0 .. Width] == IF i = 0 THEN 0 ELSE n[i - 1] * Base + s[i] IN n

\* Fault: always little endian.
WriteFromSettingsLittle(v) == LittleEndian(v)

\* write_from_settings: a size is not negative when it is written.
WriteFromSettings(v) ==
  IF order = "big" THEN Reverse(LittleEndian(v)) ELSE LittleEndian(v)

\* read_from_settings, on the bytes of one size; negative from the middle on
\* if it is signed.
ReadFromSettings(s) ==
  LET v == Leading(IF order = "big" THEN s ELSE Reverse(s))[Width]
  IN  IF bytes = "signed" /\ v >= Half THEN v - Full ELSE v

Payload(m) == [i \in 1 .. lens[m] |-> m]

\* What the task of message m writes.
Frame(m) == WriteFromSettings(ValueFromNumber(lens[m])) \o Payload(m)

Fits(m) == lens[m] <= Limit

-----------------------------------------------------------------------------
TypeOK ==
  /\ bytes \in {"unsigned", "signed"} /\ order \in {"little", "big"}
  /\ lens \in Seq(Lengths) /\ Len(lens) <= MaxMsgs
  /\ unsent \in Seq(Seq(Byte)) /\ Len(unsent) = Len(lens)
  /\ holders \subseteq DOMAIN lens
  /\ started \in Seq(DOMAIN lens)
  /\ wire \in Seq(Byte)
  /\ link \in {"open", "broken"}
  /\ phase \in {"size", "body", "down", "panicked"}
  /\ size \in 0 .. Full - 1
  /\ got \in Seq(Byte)
  /\ received \in Seq(Seq(Byte))

Init ==
  /\ bytes \in {"unsigned", "signed"} /\ order \in {"little", "big"}
  /\ lens = <<>> /\ unsent = <<>> /\ holders = {} /\ started = <<>>
  /\ wire = <<>> /\ link = "open"
  /\ phase = "size" /\ size = 0 /\ got = <<>> /\ received = <<>>

-----------------------------------------------------------------------------
(* The writers.                                                            *)

\* send_message: a task is spawned for the message.
SendMessage(n) ==
  /\ Len(lens) < MaxMsgs
  /\ lens' = Append(lens, n)
  /\ unsent' = Append(unsent, <<>>)
  /\ UNCHANGED <<settings, holders, started, wire, link, reader>>

\* Fault: the write half is used without its mutex.
LockUnguarded(m) ==
  /\ m \notin Range(started)
  /\ holders' = holders \union {m}
  /\ started' = Append(started, m)
  /\ unsent' = [unsent EXCEPT ![m] = Frame(m)]
  /\ UNCHANGED <<settings, lens, wire, link, reader>>

\* write.lock(); tasks reach it in any order.
Lock(m) ==
  /\ m \notin Range(started)
  /\ holders = {}
  /\ holders' = {m}
  /\ started' = Append(started, m)
  /\ unsent' = [unsent EXCEPT ![m] = Frame(m)]
  /\ UNCHANGED <<settings, lens, wire, link, reader>>

\* write_from_settings and write_all, which may stop after any byte; the
\* guard is dropped at the end.
WriteByte(m) ==
  /\ m \in holders
  /\ link = "open"
  /\ wire' = Append(wire, Head(unsent[m]))
  /\ unsent' = [unsent EXCEPT ![m] = Tail(unsent[m])]
  /\ holders' = IF Len(unsent[m]) = 1 THEN holders \ {m} ELSE holders
  /\ UNCHANGED <<settings, lens, started, link, reader>>

\* The error is printed and the rest of the message is dropped.
WriteFails(m) ==
  /\ m \in holders
  /\ link = "broken"
  /\ unsent' = [unsent EXCEPT ![m] = <<>>]
  /\ holders' = holders \ {m}
  /\ UNCHANGED <<settings, lens, started, wire, link, reader>>

WriterStep(m) == Lock(m) \/ WriteByte(m) \/ WriteFails(m)

-----------------------------------------------------------------------------
(* The reader.                                                             *)

\* The bytes arrive one by one, for the size as for the message.
ReadByte ==
  /\ \/ phase = "size" /\ Len(got) < Width
     \/ phase = "body" /\ Len(got) < size
  /\ wire # <<>>
  /\ got' = Append(got, Head(wire))
  /\ wire' = Tail(wire)
  /\ UNCHANGED <<settings, writers, link, phase, size, received>>

\* Fault: a negative size is used as it is.
ReadSizeNegative ==
  /\ phase = "size"
  /\ Len(got) = Width
  /\ size' = ReadFromSettings(got)
  /\ phase' = "body"
  /\ got' = <<>>
  /\ UNCHANGED <<settings, writers, wire, link, received>>

\* read_value_to_usize makes a negative number larger than any buffer can be:
\* vec! panics.
ReadSize ==
  /\ phase = "size"
  /\ Len(got) = Width
  /\ LET v == ReadFromSettings(got)
     IN  IF v < 0 THEN phase' = "panicked" /\ UNCHANGED size
         ELSE phase' = "body" /\ size' = v
  /\ got' = <<>>
  /\ UNCHANGED <<settings, writers, wire, link, received>>

\* Fault: the reader asks for one byte more than the size says.
SendMessageReceivedLate ==
  /\ phase = "body"
  /\ Len(got) = size + 1
  /\ received' = Append(received, got)
  /\ phase' = "size"
  /\ got' = <<>>
  /\ UNCHANGED <<settings, writers, wire, link, size>>

SendMessageReceived ==
  /\ phase = "body"
  /\ Len(got) = size
  /\ received' = Append(received, got)
  /\ phase' = "size"
  /\ got' = <<>>
  /\ UNCHANGED <<settings, writers, wire, link, size>>

\* A part of a size or of a message is thrown away with the connection.
ReadFails ==
  /\ \/ phase = "size" /\ Len(got) < Width
     \/ phase = "body" /\ Len(got) < size
  /\ link = "broken"
  /\ phase' = "down"
  /\ UNCHANGED <<settings, writers, wire, link, size, got, received>>

ReaderStep == ReadByte \/ ReadSize \/ SendMessageReceived \/ ReadFails

-----------------------------------------------------------------------------
LinkBreaks ==
  /\ link = "open"
  /\ link' = "broken"
  /\ UNCHANGED <<settings, writers, wire, reader>>

Next ==
  \/ \E n \in Lengths : SendMessage(n)
  \/ \E m \in DOMAIN lens : WriterStep(m)
  \/ ReaderStep
  \/ LinkBreaks

Spec == Init /\ [][Next]_vars

\* The runtime polls every task; nothing is assumed of the application.
Fairness ==
  /\ \A m \in 1 .. MaxMsgs : WF_vars(m \in DOMAIN lens /\ WriterStep(m))
  /\ WF_vars(ReaderStep)

FairSpec == Spec /\ Fairness

-----------------------------------------------------------------------------
\* Up to the first message that is too long for its size, the messages are
\* received whole, unmixed, one for one and in the order in which their tasks
\* got the mutex, whatever their number, the settings and the moment the
\* stream breaks; no part of a message is ever received.
IntactUntilUnfit ==
  \A k \in DOMAIN received :
    (\A i \in 1 .. k : i \in DOMAIN started => Fits(started[i])) =>
      k \in DOMAIN started /\ received[k] = Payload(started[k])

\* A reader panics over a size only after a message that was too long
\* (vec![0u8; size] in ReadType::read): its report is then never sent.
NoPanicUntilUnfit ==
  phase = "panicked" => \E i \in DOMAIN started : ~Fits(started[i])

\* Every message that is sent arrives while the stream is open, unless one is
\* too long.
SentArrives ==
  \A m \in 1 .. MaxMsgs :
    m \in DOMAIN lens ~>
      \/ \E k \in DOMAIN received : k \in DOMAIN started /\ started[k] = m
      \/ link = "broken"
      \/ \E i \in DOMAIN lens : ~Fits(i)
=============================================================================
