------------------------------ MODULE Transfer ------------------------------
(***************************************************************************)
(* What a resumable download promises, without chunks, workers, retries or *)
(* locks.  Bytes reach the file; some of them are claimed as complete by   *)
(* the running program; the ledger on disk is what a later run would skip. *)
(***************************************************************************)
EXTENDS Integers

CONSTANT Size
Byte == 0 .. Size - 1

VARIABLES file,     \* bytes with the right content
          claimed,  \* bytes the running program counts as complete
          ledger,   \* bytes a later run will not ask for again
          outcome   \* "down", "running", "cancelled", "failed", "success"

vars == <<file, claimed, ledger, outcome>>

Init == file = {} /\ claimed = {} /\ ledger = {} /\ outcome = "down"

Running == outcome = "running"

\* A run starts, or starts again, from the ledger; success is final.
Begin ==
  /\ outcome \in {"down", "cancelled", "failed"}
  /\ claimed' = ledger
  /\ outcome' = "running"
  /\ UNCHANGED <<file, ledger>>

Fetch ==
  /\ Running
  /\ file' \in SUBSET Byte /\ file \subseteq file'
  /\ UNCHANGED <<claimed, ledger, outcome>>

\* Only bytes that are in the file are ever claimed.
Claim ==
  /\ Running
  /\ claimed' \in SUBSET file /\ claimed \subseteq claimed'
  /\ UNCHANGED <<file, ledger, outcome>>

\* The ledger is overwritten in place: lost first, then as the program knows it.
Lose ==
  /\ outcome \in {"running", "success"}
  /\ ledger' = {}
  /\ UNCHANGED <<file, claimed, outcome>>

Save ==
  /\ Running
  /\ ledger' = claimed
  /\ UNCHANGED <<file, claimed, outcome>>

\* The program reports; a cancelled or successful run has tried to save.
Report ==
  /\ Running
  /\ \/ outcome' = "failed" /\ UNCHANGED ledger
     \/ outcome' = "cancelled" /\ ledger' \in {ledger, claimed}
     \/ outcome' = "success" /\ claimed = Byte /\ ledger' \in {ledger, claimed}
  /\ UNCHANGED <<file, claimed>>

\* Removing the ledger of a complete file can fail.
Disappoint ==
  /\ outcome = "success" /\ outcome' = "failed"
  /\ UNCHANGED <<file, claimed, ledger>>

Die ==
  /\ outcome # "down"
  /\ claimed' = {}
  /\ outcome' = "down"
  /\ UNCHANGED <<file, ledger>>

Next == Begin \/ Fetch \/ Claim \/ Lose \/ Save \/ Report \/ Disappoint \/ Die

Spec == Init /\ [][Next]_vars
-----------------------------------------------------------------------------
TypeOK ==
  /\ file \subseteq Byte /\ claimed \subseteq Byte /\ ledger \subseteq Byte
  /\ outcome \in {"down", "running", "cancelled", "failed", "success"}

(***************************************************************************)
(* The two promises: nothing is skipped that is not in the file, and only  *)
(* a whole file is a success.                                              *)
(***************************************************************************)
Honest ==
  /\ claimed \subseteq file /\ ledger \subseteq file
  /\ outcome = "success" => file = Byte
=============================================================================
