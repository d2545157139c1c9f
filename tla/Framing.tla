------------------------------- MODULE Framing -------------------------------
(***************************************************************************)
(* BoundedLines (bounded.rs): the reader between the standard input of the *)
(* server and the SDK, which splits what it is given into frames at the    *)
(* line ends.  Bytes arrive in pieces that are no frames; the count of the *)
(* bytes of a line outlives them, and a read that makes a line too long    *)
(* fails, with nothing of it handed on.                                    *)
(***************************************************************************)
EXTENDS Integers, Sequences, SequencesExt

CONSTANTS
  Inputs,    \* what clients may write, sequences of "byte" and "end"
  MaxFrame,  \* MAX_REQUEST_BYTES
  Scratch    \* the size of the scratch buffer

ASSUME FramingAssumption ==
  /\ Inputs \subseteq Seq({"byte", "end"})
  /\ MaxFrame \in Nat /\ Scratch \in Nat \ {0}

VARIABLES
  sent,       \* what the client writes, all of it
  taken,      \* how much of it was read from the inner reader
  lineBytes,  \* the bytes of the line being read
  handed,     \* what the SDK was given
  reader      \* "closed" while there is no client, "reading", and "ended" or "failed":
              \* the SDK reads no more after either

framingVars == <<sent, taken, lineBytes, handed, reader>>

NoClient ==
  reader = "closed" /\ sent = <<>> /\ taken = 0 /\ lineBytes = 0 /\ handed = <<>>

(* BoundedLines::new, when a client starts the server. *)
Connect(input) ==
  /\ NoClient
  /\ sent' = input /\ reader' = "reading"
  /\ UNCHANGED <<taken, lineBytes, handed>>

(* The count after one more byte; it stands once it is too large. *)
Count(n, b) == IF n > MaxFrame THEN n ELSE IF b = "end" THEN 0 ELSE n + 1

(* Mutant: the count begins anew with every read. *)
Counted_EachRead(count, piece) ==
  LET after[k \in 0 .. Len(piece)] == IF k = 0 THEN 0 ELSE Count(after[k - 1], piece[k])
  IN  after[Len(piece)]

(* The count after the bytes of a piece, up to the one that makes it too large. *)
Counted(count, piece) ==
  LET after[k \in 0 .. Len(piece)] == IF k = 0 THEN count ELSE Count(after[k - 1], piece[k])
  IN  after[Len(piece)]

(* poll_read, that finds n bytes: as many as the inner reader has and as the *)
(* caller's buffer and the scratch buffer have room for.  (When it has none  *)
(* yet the poll is pending and nothing changes.)                             *)
PollRead(n) ==
  LET piece == SubSeq(sent, taken + 1, taken + n)
      count == Counted(lineBytes, piece)
  IN  /\ reader = "reading" /\ taken + n <= Len(sent)
      /\ taken' = taken + n
      /\ lineBytes' = count
      /\ IF count > MaxFrame
         THEN reader' = "failed" /\ UNCHANGED handed
         ELSE handed' = handed \o piece /\ UNCHANGED reader
      /\ UNCHANGED sent

(* The client closed its end: an empty read. *)
ReadEnd ==
  /\ reader = "reading" /\ taken = Len(sent)
  /\ reader' = "ended"
  /\ UNCHANGED <<sent, taken, lineBytes, handed>>

(* The server ends with its input. *)
Exit ==
  /\ reader \in {"ended", "failed"}
  /\ reader' = "closed" /\ sent' = <<>> /\ taken' = 0 /\ lineBytes' = 0 /\ handed' = <<>>

FramingInit == NoClient

FramingNext ==
  \/ NoClient /\ \E input \in Inputs : Connect(input)
  \/ \E n \in 1 .. Scratch : PollRead(n)
  \/ ReadEnd
  \/ Exit

FramingSpec == FramingInit /\ [][FramingNext]_framingVars

-----------------------------------------------------------------------------
(* Properties                                                              *)

(* Some line of the bytes, or of the first n, ended or not, is longer than a *)
(* frame may be.                                                             *)
LongFrom(bytes, i)   == \A j \in i .. i + MaxFrame : bytes[j] = "byte"
LongWithin(bytes, n) == \E i \in 1 .. n - MaxFrame : LongFrom(bytes, i)
HasLongLine(bytes)   == LongWithin(bytes, Len(bytes))

(* "Bound each stdio frame": however the bytes are cut into reads, the SDK is *)
(* given no line longer than a frame, and all of an input that has none; the  *)
(* read that fails did find one.                                              *)
FramesAreBounded ==
  /\ ~HasLongLine(handed)
  /\ IsPrefix(handed, sent)
  /\ reader = "ended"  => handed = sent
  /\ reader = "failed" => HasLongLine(SubSeq(sent, 1, taken))

-----------------------------------------------------------------------------
(* The inductive invariant behind it.                                      *)

(* The last c of the first n bytes are a line that has not ended. *)
Unended(bytes, n, c) ==
  /\ c \in 0 .. n
  /\ \A j \in n - c + 1 .. n : bytes[j] = "byte"
  /\ c < n => bytes[n - c] = "end"

FramingInv ==
  /\ sent \in Seq({"byte", "end"}) /\ taken \in 0 .. Len(sent)
  /\ reader \in {"closed", "reading", "ended", "failed"}
  /\ reader = "closed" => NoClient
  /\ reader # "failed" => /\ handed = SubSeq(sent, 1, taken) /\ ~LongWithin(sent, taken)
                          /\ lineBytes <= MaxFrame /\ Unended(sent, taken, lineBytes)
  /\ reader = "ended"  => taken = Len(sent)
  /\ reader = "failed" =>
       /\ LongWithin(sent, taken)
       /\ \E n \in 0 .. taken : handed = SubSeq(sent, 1, n) /\ ~LongWithin(sent, n)
=============================================================================
