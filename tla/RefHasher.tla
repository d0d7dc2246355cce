------------------------------ MODULE RefHasher ------------------------------
(***************************************************************************)
(* What hashing a chunk promises: the tree hash of pkg/bmt/reference, "a   *)
(* simple nonconcurrent reference implementation of the BMT hash", behind  *)
(* the calls of a hasher.  A hasher is taken, given a span and data, asked *)
(* for the hash, and must answer with the hash of what it was given,       *)
(* whatever earlier chunks were hashed with the same memory.               *)
(*                                                                         *)
(* A byte is a number, the padding is 0 and a segment is one byte long.    *)
(* The base hash of two parts is the pair of them, so that no two inputs   *)
(* collide; it is written flat, a -1 before the parts.                     *)
(***************************************************************************)
EXTENDS Integers, Sequences

CONSTANT SegmentCount   \* leaves of the tree, a power of two (128 in the code)

VARIABLES
  phase,   \* "free", "open" (being written), "asked", "answered"
  span,    \* the span set for the current chunk
  data,    \* the bytes written for the current chunk, up to the capacity
  answer   \* what the last call of Hash returned

refVars == <<phase, span, data, answer>>

Pad(d) == d \o [i \in 1 .. SegmentCount - Len(d) |-> 0]

\* RefHasher.hash: the base hash of the hashes of the two halves, down to a section
\* of two segments.
RECURSIVE TreeHash(_)
TreeHash(d) ==
  IF Len(d) = 2 THEN <<-1>> \o d
  ELSE LET half == Len(d) \div 2
       IN <<-1>> \o TreeHash(SubSeq(d, 1, half)) \o TreeHash(SubSeq(d, half + 1, Len(d)))

Hash(d) == TreeHash(Pad(d))

Init == phase = "free" /\ span = 0 /\ data = <<>> /\ answer = <<>>

Get == /\ phase = "free"
       /\ phase' = "open" /\ span' = 0 /\ data' = <<>>
       /\ UNCHANGED answer

SetHeader == phase = "open" /\ span' \in Nat /\ UNCHANGED <<phase, data, answer>>

Write == /\ phase = "open"
         /\ Len(data') \in Len(data) .. SegmentCount
         /\ SubSeq(data', 1, Len(data)) = data
         /\ UNCHANGED <<phase, span, answer>>

Ask == phase = "open" /\ phase' = "asked" /\ UNCHANGED <<span, data, answer>>

\* A hash may be answered in the call that asks for it.
Answer == /\ phase \in {"open", "asked"} /\ phase' = "answered"
          /\ answer' = <<span, Hash(data)>>
          /\ UNCHANGED <<span, data>>

Put == phase = "answered" /\ phase' = "free" /\ UNCHANGED <<span, data, answer>>

Next == Get \/ SetHeader \/ Write \/ Ask \/ Answer \/ Put

\* Every hash that is asked for is answered.
Spec == Init /\ [][Next]_refVars /\ WF_refVars(phase = "asked" /\ Answer)

=============================================================================
