--------------------------- MODULE MemcachedFraming ---------------------------
(* How both ends of a memcached connection cut the bytes of the other end     *)
(* into lines and data blocks (lib/memcached/service: parseFirstLine and      *)
(* tryConsumeData).                                                           *)
(*                                                                            *)
(* A byte stream is a sequence of tokens.  The text of a line that can be     *)
(* parsed is one token, its byte is HEAD; every byte of a data block is one;  *)
(* so are CR and LF.  The parser sees the byte of a token and, in a HEAD,     *)
(* which message it is; part says what the sender meant the token to be, and  *)
(* only the network and the properties look at it.                            *)
EXTENDS Integers, SequencesExt

CONSTANTS HEAD, CR, LF

ASSUME ByteAssumption == HEAD # CR /\ HEAD # LF /\ CR # LF

Token(byte, part, id) == [byte |-> byte, part |-> part, id |-> id]

(* A line and, after it, a block of bytes.                                    *)
Line(id) == <<Token(HEAD, "head", id), Token(CR, "line", id), Token(LF, "line", id)>>
Block(bytes, id) ==
  [i \in 1..Len(bytes) |-> Token(bytes[i], "block", id)]
    \o <<Token(CR, "end", id), Token(LF, "end", id)>>

Parts == {"head", "line", "block", "end"}

(* The network may cut a stream after any token.  The cut does no harm where  *)
(* a message begins and before a byte of a data block.                        *)
HarmlessCut(stream, n) == n < Len(stream) => stream[n + 1].part \in {"head", "block"}

-----------------------------------------------------------------------------
(* parseFirstLine throws unless CR LF is found and a known line precedes it.  *)
CrlfAt(buffer) == {i \in 1..(Len(buffer) - 1) : buffer[i].byte = CR /\ buffer[i + 1].byte = LF}
StartsWithLine(buffer) ==
  CrlfAt(buffer) # {} /\ Min(CrlfAt(buffer)) = 2 /\ buffer[1].byte = HEAD
AfterLine(buffer) == SubSeq(buffer, 4, Len(buffer))

WithoutCR(buffer) == IF buffer # <<>> /\ buffer[1].byte = CR THEN Tail(buffer) ELSE buffer
WithoutLF(buffer) == IF buffer # <<>> /\ buffer[1].byte = LF THEN Tail(buffer) ELSE buffer

BytesOf(tokens) == [i \in 1..Len(tokens) |-> tokens[i].byte]

\* Mutant: the line end of a block is left in the buffer.
TakeBlockNoEnd(value, bytes, buffer) ==
  LET missing == bytes - Len(value)
      taken == SubSeq(buffer, 1, Min({missing, Len(buffer)}))
  IN  [value |-> value \o BytesOf(taken), rest |-> SubSeq(buffer, Len(taken) + 1, Len(buffer))]

(* onReceiveData: moves what a block still misses from the buffer to it.  If  *)
(* the buffer has it all, a CR and an LF behind it go as well, as far as they *)
(* are there; whoever calls reads off the length of the value whether the     *)
(* block is complete.                                                         *)
TakeBlock(value, bytes, buffer) ==
  LET missing == bytes - Len(value)
      taken == SubSeq(buffer, 1, Min({missing, Len(buffer)}))
      rest  == SubSeq(buffer, Len(taken) + 1, Len(buffer))
  IN  [value |-> value \o BytesOf(taken), rest |-> WithoutLF(WithoutCR(rest))]
=============================================================================
