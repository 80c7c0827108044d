----------------------------- MODULE MemoryLength -----------------------------
(***************************************************************************)
(* What backing-store.cc promises of the length of a memory that several   *)
(* threads grow: every call takes effect at one moment between its start   *)
(* and its return, or fails and changes nothing, and its answer is that of *)
(* this moment.  "The result of this function appears like the result of   *)
(* an RMW-update on {byte_length_}" (GrowWasmMemoryInPlace).               *)
(***************************************************************************)
EXTENDS Integers

CONSTANTS
  Thread,
  Lengths    \* the lengths that a memory can have, natural numbers

VARIABLES
  length,    \* the length of the memory; NoMemory when there is none
  answer     \* the last answer of a call: who, what was asked, and the result

NoMemory == -1

Init == length = NoMemory /\ answer = <<>>

Allocate == length = NoMemory /\ length' \in Lengths /\ UNCHANGED answer
Free == length # NoMemory /\ length' = NoMemory /\ answer' = <<>>

\* A copy is as long as it was asked to be, and not shorter than the original.
Copy == length # NoMemory /\ length' \in Lengths /\ length' >= length /\ UNCHANGED answer

\* Grow by delta, and answer with the length before.
GrowBy(t) ==
  /\ length # NoMemory
  /\ \E delta \in Lengths :
       /\ length + delta \in Lengths
       /\ length' = length + delta
       /\ answer' = <<t, "by", delta, <<"was", length>>>>

\* Grow to n: a memory that is longer by now is said to have raced.
GrowTo(t) ==
  /\ length # NoMemory
  /\ \E n \in Lengths :
       \/ n >= length /\ length' = n /\ answer' = <<t, "to", n, <<"success">>>>
       \/ n < length /\ UNCHANGED length /\ answer' = <<t, "to", n, <<"race">>>>

\* Resize to n, longer or shorter, of a memory that is not shared.
Resize(t) ==
  /\ length # NoMemory
  /\ length' \in Lengths
  /\ answer' = <<t, "resize", length', <<"success">>>>

Fail(t) ==
  /\ \E what \in {"by", "to", "resize"}, n \in Lengths : answer' = <<t, what, n, <<"failure">>>>
  /\ UNCHANGED length

Next ==
  \/ Allocate \/ Free \/ Copy
  \/ \E t \in Thread : GrowBy(t) \/ GrowTo(t) \/ Resize(t) \/ Fail(t)

Spec == Init /\ [][Next]_<<length, answer>>

===============================================================================
