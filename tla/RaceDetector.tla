---------------------------- MODULE RaceDetector ----------------------------
(***************************************************************************)
(* What the detector of WebTSan.tla promises a disciplined program, with   *)
(* no clock in it: of each thread, sync address and access the accesses    *)
(* that happen before it, and at every byte of an access the races with it,*)
(* which are the conflicting accesses that are still in a cell and are not *)
(* among these.                                                            *)
(*                                                                         *)
(* An access is named by the cell it is kept in.  A new access in the cell *)
(* takes its place, and nobody knows of the old one any more.  Where the   *)
(* code clears or looks up a shadow, only the loss of the cells is left.   *)
(***************************************************************************)
EXTENDS Integers

CONSTANTS
  Tid,                  \* the thread slots
  SyncAddr,             \* the sync addresses
  ByteLength,           \* the bytes of the buffer
  kShadowCellsPerByte   \* the accesses that are kept of a byte

VARIABLES
  status,     \* what each slot is: free, running, finished or left
  cells,      \* the access that each cell keeps
  known,      \* the accesses that happen before what a thread does next
  orphans,    \* those that happen before a thread that will be created
  published,  \* those that happen before an acquire of an address
  access,     \* the access a thread executes, and what happens before it
  races       \* what it races with in the byte under its cursor

state == <<status, cells, known, orphans, published, access, races>>

Byte == 0 .. ByteLength - 1
Slot == 0 .. kShadowCellsPerByte - 1
Cell == Byte \X Slot

NoCell == [tid |-> 0, kind |-> "none"]
NoAccess == [byte |-> 0, end |-> 0, kind |-> "none", before |-> {}]

Runs(t) == status[t] = "running" /\ access[t] = NoAccess

\* The cells of the byte with an access of another thread that conflicts with
\* t's and does not happen before it.
Unordered(t) ==
  {x \in {access[t].byte} \X Slot :
     /\ access[t].kind # "none" /\ cells[x].kind # "none"
     /\ cells[x].tid # t
     /\ "write" \in {cells[x].kind, access[t].kind}
     /\ x \notin access[t].before}

Init ==
  /\ status = [t \in Tid |-> IF t = 0 THEN "running" ELSE "free"]
  /\ cells = [x \in Cell |-> NoCell]
  /\ known = [t \in Tid |-> {}] /\ orphans = {}
  /\ published = [a \in SyncAddr |-> {}]
  /\ access = [t \in Tid |-> NoAccess]
  /\ races = [t \in Tid |-> {}]

-----------------------------------------------------------------------------
(* Threads.                                                                *)

Create(t) ==
  /\ status[t] = "free"
  /\ status' = [status EXCEPT ![t] = "running"]
  /\ known' = [known EXCEPT ![t] = orphans]
  /\ UNCHANGED <<cells, orphans, published, access>>

Finish(t) ==
  /\ Runs(t)
  /\ status' = [status EXCEPT ![t] = "finished"]
  /\ orphans' = orphans \cup known[t]
  /\ known' = [u \in Tid |-> IF u # t /\ status[u] # "free" THEN known[u] \cup known[t]
                                                            ELSE known[u]]
  /\ UNCHANGED <<cells, published, access>>

Destroy(t) ==
  /\ status[t] # "free" /\ access[t] = NoAccess
  /\ status' = [status EXCEPT ![t] = "free"]
  /\ orphans' = orphans \cup known[t]
  /\ UNCHANGED <<cells, known, published, access>>

JoinThread(t, u) ==
  /\ Runs(t) /\ status[u] = "finished"
  /\ status' = [status EXCEPT ![u] = "free"]
  /\ known' = [known EXCEPT ![t] = @ \cup known[u]]
  /\ UNCHANGED <<cells, orphans, published, access>>

\* u's OS thread goes on as t.
Absorb(t, u) ==
  /\ Runs(t) /\ Runs(u) /\ t # u
  /\ status' = [status EXCEPT ![u] = "left"]
  /\ known' = [known EXCEPT ![t] = @ \cup known[u]]
  /\ UNCHANGED <<cells, orphans, published, access>>

-----------------------------------------------------------------------------
(* Synchronisation.                                                        *)

Acquire(t, a) ==
  /\ Runs(t)
  /\ known' = [known EXCEPT ![t] = @ \cup published[a]]
  /\ UNCHANGED <<status, cells, orphans, published, access>>

Release(t, a) ==
  /\ Runs(t)
  /\ published' = [published EXCEPT ![a] = @ \cup known[t]]
  /\ UNCHANGED <<status, cells, known, orphans, access>>

Forget(a) ==
  /\ published' = [published EXCEPT ![a] = {}]
  /\ UNCHANGED <<status, cells, known, orphans, access>>

-----------------------------------------------------------------------------
(* Accesses.                                                               *)

\* What is known when an access begins happens before all of it.
Begin(t) ==
  /\ Runs(t)
  /\ \E byte \in Byte, end \in 1 .. ByteLength, kind \in {"read", "write"} :
       /\ byte < end
       /\ access' = [access EXCEPT ![t] = [byte |-> byte, end |-> end, kind |-> kind,
                                           before |-> known[t]]]
  /\ UNCHANGED <<status, cells, known, orphans, published>>

\* The access is kept in its cell, which loses what was there.  It goes on with
\* the next byte, unless this was the last one or there was a race.
Record(t) ==
  LET x == <<access[t].byte, t % kShadowCellsPerByte>>
      ends == races[t] # {} \/ access[t].byte + 1 = access[t].end
  IN
  /\ access[t] # NoAccess
  /\ cells' = [cells EXCEPT ![x] = [tid |-> t, kind |-> access[t].kind]]
  /\ known' = [u \in Tid |-> IF u = t THEN known[u] \cup {x} ELSE known[u] \ {x}]
  /\ orphans' = orphans \ {x}
  /\ published' = [a \in SyncAddr |-> published[a] \ {x}]
  /\ access' = [u \in Tid |->
       IF u # t THEN [access[u] EXCEPT !.before = @ \ {x}]
       ELSE IF ends THEN NoAccess
       ELSE [access[t] EXCEPT !.byte = @ + 1, !.before = @ \ {x}]]
  /\ UNCHANGED status

\* The accesses to some bytes are forgotten.
Clear(bytes) ==
  /\ cells' = [x \in Cell |-> IF x[1] \in bytes THEN NoCell ELSE cells[x]]
  /\ UNCHANGED <<status, known, orphans, published, access>>

-----------------------------------------------------------------------------
Step ==
  \/ \E t \in Tid : Create(t) \/ Finish(t) \/ Destroy(t) \/ Begin(t) \/ Record(t)
  \/ \E t, u \in Tid : JoinThread(t, u) \/ Absorb(t, u)
  \/ \E t \in Tid, a \in SyncAddr : Acquire(t, a) \/ Release(t, a)
  \/ \E a \in SyncAddr : Forget(a)
  \/ \E bytes \in SUBSET Byte : Clear(bytes)

\* The races are the unordered accesses, no more and no less, after every step.
Next == Step /\ races' = [t \in Tid |-> Unordered(t)']

Spec == Init /\ [][Next]_state

=============================================================================
