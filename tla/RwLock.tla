------------------------------- MODULE RwLock -------------------------------
(* What brlock promises its callers, and all that Generations takes of it:  *)
(* read_lock and write_lock return in one step, to any number of readers or *)
(* to one writer.                                                           *)
CONSTANT Users    (* the threads that may ask for the lock                  *)

VARIABLES
  reading,        (* the users between read_lock and read_unlock            *)
  owning          (* those between write_lock and write_unlock              *)

rwVars == <<reading, owning>>

RwInit == reading = {} /\ owning = {}

(* read_lock returns to u; it does not while a writer is in.                *)
ReadLocked(u) ==
  /\ owning = {} /\ u \notin reading
  /\ reading' = reading \cup {u}
  /\ UNCHANGED owning

ReadUnlocked(u) ==
  /\ u \in reading
  /\ reading' = reading \ {u}
  /\ UNCHANGED owning

(* write_lock returns to u, alone.                                          *)
WriteLocked(u) ==
  /\ owning = {} /\ reading = {}
  /\ owning' = {u}
  /\ UNCHANGED reading

WriteUnlocked(u) ==
  /\ owning = {u}
  /\ owning' = {}
  /\ UNCHANGED reading

RwNext ==
  \E u \in Users : ReadLocked(u) \/ ReadUnlocked(u) \/ WriteLocked(u) \/ WriteUnlocked(u)

RwSpec == RwInit /\ [][RwNext]_rwVars
=============================================================================
