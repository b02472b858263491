------------------------------- MODULE Framing -------------------------------
(***************************************************************************)
(* How UltimaClient cuts the byte stream of the server into messages:      *)
(* the read handler appends what arrived to recvBuffer and handlePackets() *)
(* takes messages off its front.  A message is its header (length and      *)
(* type, 8 bytes in the code) and a body; its length counts both.          *)
(*                                                                         *)
(* A byte is modelled by the message it belongs to and its offset in it,   *)
(* so that a header is a run of offsets 1, 2, ... of one message; the      *)
(* length read from anything else is arbitrary.                            *)
(*                                                                         *)
(* External: TCP, which delivers the bytes of a session in order, in       *)
(* pieces of any size, and drops those under way when the session ends.    *)
(***************************************************************************)
EXTENDS Naturals, Sequences, SequencesExt

CONSTANTS
  HeaderSize,   \* bytes of a header
  Lengths,      \* the lengths of the messages the server sends
  BufferSize,   \* bytes one read may return
  MaxMessages,  \* bound: messages sent
  MaxSessions   \* bound: sessions

ASSUME FramingAssumption ==
  /\ HeaderSize \in Nat \ {0}
  /\ Lengths \subseteq Nat /\ \A l \in Lengths : l >= HeaderSize
  /\ BufferSize \in Nat \ {0}
  /\ MaxMessages \in Nat
  /\ MaxSessions \in Nat \ {0}

VARIABLES
  wire,        \* bytes of the session sent and not yet read
  recvBuffer,  \* UltimaClient::recvBuffer
  pc,          \* the io thread: "waiting" for a read, "parsing" in
               \*   handlePackets(), "spinning" in it without progress
  sent,        \* the number of messages sent
  handled,     \* the messages given to their handler, in order
  corrupt,     \* a length was read from what is no header
  sessions

vars == <<wire, recvBuffer, pc, sent, handled, corrupt, sessions>>

Byte(n, l, i) == [msg |-> n, len |-> l, off |-> i]
Bytes ==
  [msg : 1..MaxMessages, len : Lengths, off : UNION {1..l : l \in Lengths}]

TypeOK ==
  /\ wire \in Seq(Bytes)
  /\ recvBuffer \in Seq(Bytes)
  /\ Len(recvBuffer) < HeaderSize + BufferSize
  /\ pc \in {"waiting", "parsing", "spinning"}
  /\ sent \in 0..MaxMessages
  /\ handled \in Seq(1..MaxMessages)
  /\ corrupt \in BOOLEAN
  /\ sessions \in 1..MaxSessions

Init ==
  /\ wire = <<>>
  /\ recvBuffer = <<>>
  /\ pc = "waiting"
  /\ sent = 0
  /\ handled = <<>>
  /\ corrupt = FALSE
  /\ sessions = 1

------------------------------------------------------------------------------
(* The server sends message sent + 1, of length l.                         *)
ServerSends(l) ==
  /\ sent < MaxMessages
  /\ sent' = sent + 1
  /\ wire' = wire \o [i \in 1..l |-> Byte(sent + 1, l, i)]
  /\ UNCHANGED <<recvBuffer, pc, handled, corrupt, sessions>>

(* The read handler: n bytes received, appended, handlePackets() called.   *)
HandleRead(n) ==
  /\ pc = "waiting"
  /\ n <= Len(wire)
  /\ recvBuffer' = recvBuffer \o SubSeq(wire, 1, n)
  /\ wire' = SubSeq(wire, n + 1, Len(wire))
  /\ pc' = "parsing"
  /\ UNCHANGED <<sent, handled, corrupt, sessions>>

(* The front of recvBuffer is the header of a message.                     *)
Aligned ==
  \A i \in 1..HeaderSize :
    recvBuffer[i].msg = recvBuffer[1].msg /\ recvBuffer[i].off = i

(* What handlePackets() may read as the length at the front of recvBuffer: *)
(* any value when it is no header; one is as good as another when it is    *)
(* more than recvBuffer holds.                                             *)
LengthField ==
  IF Aligned THEN {recvBuffer[1].len} ELSE 0..(Len(recvBuffer) + 1)

Erase(l) == recvBuffer' = SubSeq(recvBuffer, l + 1, Len(recvBuffer))

(* Mutants: the message is erased without its header; the body of the loop *)
(* runs only once.                                                         *)
IterateErasesBody(l) ==
  /\ corrupt' = (corrupt \/ ~Aligned)
  /\ \/ /\ Len(recvBuffer) >= l
        /\ handled' = IF Aligned THEN Append(handled, recvBuffer[1].msg) ELSE handled
        /\ Erase(IF l > HeaderSize THEN l - HeaderSize ELSE 0)
        /\ pc' = IF l <= HeaderSize THEN "spinning" ELSE "parsing"
     \/ /\ Len(recvBuffer) < l
        /\ pc' = "spinning"
        /\ UNCHANGED <<recvBuffer, handled>>
  /\ UNCHANGED <<wire, sent, sessions>>

IterateOnce(l) ==
  /\ corrupt' = (corrupt \/ ~Aligned)
  /\ pc' = "waiting"
  /\ IF Len(recvBuffer) >= l
       THEN /\ handled' = IF Aligned THEN Append(handled, recvBuffer[1].msg) ELSE handled
            /\ Erase(l)
       ELSE UNCHANGED <<recvBuffer, handled>>
  /\ UNCHANGED <<wire, sent, sessions>>

(* An iteration of the loop of handlePackets() with the length l.          *)
Iterate(l) ==
  /\ corrupt' = (corrupt \/ ~Aligned)
  /\ \/ /\ Len(recvBuffer) >= l
        /\ handled' = IF Aligned THEN Append(handled, recvBuffer[1].msg) ELSE handled
        /\ Erase(l)
        /\ pc' = IF l = 0 THEN "spinning" ELSE "parsing"
     \/ /\ Len(recvBuffer) < l     \* nothing is done, and the loop goes on
        /\ pc' = "spinning"
        /\ UNCHANGED <<recvBuffer, handled>>
  /\ UNCHANGED <<wire, sent, sessions>>

LoopEnds == Len(recvBuffer) < HeaderSize

Parse ==
  /\ pc = "parsing"
  /\ \/ /\ LoopEnds
        /\ pc' = "waiting"
        /\ UNCHANGED <<wire, recvBuffer, sent, handled, corrupt, sessions>>
     \/ /\ ~LoopEnds
        /\ \E l \in LengthField : Iterate(l)

(* The session ends and reconnect() makes a new one.  recvBuffer is kept.  *)
Reconnect ==
  /\ pc = "waiting"
  /\ sessions < MaxSessions
  /\ sessions' = sessions + 1
  /\ wire' = <<>>
  /\ UNCHANGED <<recvBuffer, pc, sent, handled, corrupt>>

Read == \E n \in 1..BufferSize : HandleRead(n)

Next ==
  \/ \E l \in Lengths : ServerSends(l)
  \/ Read
  \/ Parse
  \/ Reconnect

(* The io thread keeps parsing, and reads while there is something to read. *)
Spec == Init /\ [][Next]_vars /\ WF_vars(Read) /\ WF_vars(Parse)

------------------------------------------------------------------------------
(* Nothing is lost, doubled or reordered between the wire and the handlers *)
(* of a session that began with an empty recvBuffer, however its bytes are *)
(* cut: the bytes not yet handled are the messages after the last handled. *)
Contiguous(s) ==
  \A i \in 1..(Len(s) - 1) :
    \/ s[i + 1] = [s[i] EXCEPT !.off = @ + 1]
    \/ s[i].off = s[i].len /\ s[i + 1].off = 1 /\ s[i + 1].msg = s[i].msg + 1

NothingLost ==
  sessions = 1 =>
    LET rest == recvBuffer \o wire
    IN  /\ ~corrupt
        /\ \A i \in DOMAIN handled : handled[i] = i
        /\ Contiguous(rest)
        /\ IF rest = <<>>
              THEN Len(handled) = sent
              ELSE /\ Head(rest).msg = Len(handled) + 1 /\ Head(rest).off = 1
                   /\ Last(rest).msg = sent /\ Last(rest).off = Last(rest).len

(* A message whose end is under way in a session is handled, unless the    *)
(* session ends first, a message that is not complete stops the io thread, *)
(* or the framing is lost: what an ended session left of a header is taken *)
(* for the next one.                                                       *)
UnderWay(m) ==
  LET rest == recvBuffer \o wire
  IN  \E i \in DOMAIN rest : rest[i].msg = m /\ rest[i].off = rest[i].len

Stalled == pc = "spinning" /\ Aligned /\ Len(recvBuffer) < recvBuffer[1].len

EventuallyHandled ==
  \A m \in 1..MaxMessages, s \in 1..MaxSessions :
    (sessions = s /\ UnderWay(m))
      ~> \/ \E i \in DOMAIN handled : handled[i] = m
         \/ sessions # s \/ Stalled \/ corrupt

(* handlePackets() returns, so that the io thread can read, write and be   *)
(* joined by the destructor.                                               *)
KeepsReading == pc # "spinning"

==============================================================================
