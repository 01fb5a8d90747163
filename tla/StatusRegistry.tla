--------------------------- MODULE StatusRegistry ---------------------------
(***************************************************************************)
(* What a status list promises: a table of statuses, in which one entry is *)
(* set at a time, and copies of it that are published and never change.    *)
(***************************************************************************)
EXTENDS Naturals, Sequences

CONSTANTS Status, StatusValid

VARIABLES table,     \* the status of each index; empty before it is created
          published  \* the copies published so far

vars == <<table, published>>

Init == table = [i \in {} |-> StatusValid] /\ published = <<>>

Create ==
  /\ DOMAIN table = {}
  /\ DOMAIN table' # {} /\ table' = [i \in DOMAIN table' |-> StatusValid]
  /\ UNCHANGED published

Assign ==
  /\ \E i \in DOMAIN table :
       /\ table' = [table EXCEPT ![i] = table'[i]]
       /\ table'[i] \in Status
  /\ UNCHANGED published

Publish ==
  /\ DOMAIN table # {}
  /\ published' = Append(published, table)
  /\ UNCHANGED table

Next == Create \/ Assign \/ Publish

Spec == Init /\ [][Next]_vars
=============================================================================
