---------------------------- MODULE ExportLedger ----------------------------
(***************************************************************************)
(* What the export promises a reader of the file, whatever the queue, the  *)
(* goroutines and the disk do: a record gets one fate, it is begun or it   *)
(* is reported lost; a begun record has at most one line; lines are only   *)
(* appended; and a run's last line may be the notice of what was lost.     *)
(***************************************************************************)
EXTENDS Naturals, FiniteSets, Sequences

VARIABLES
  opened,    \* records given a number so far: 1..opened
  begun,     \* records the writer undertook to write
  lost,      \* records counted lost
  reported,  \* what Dropped() says
  lines      \* the complete lines: a record, or Notice(n)

ledger == <<opened, begun, lost, reported, lines>>

Line(r)   == [kind |-> "record", of |-> r]
Notice(n) == [kind |-> "notice", of |-> n]

Landed(r) == \E i \in DOMAIN lines : lines[i] = Line(r)
Closed    == lines # <<>> /\ lines[Len(lines)].kind = "notice"

Init == opened = 0 /\ begun = {} /\ lost = {} /\ reported = 0 /\ lines = <<>>

Open ==
  /\ opened' = opened + 1
  /\ UNCHANGED <<begun, lost, reported, lines>>

Begin(r) ==
  /\ r \notin begun \cup lost /\ ~Closed
  /\ begun' = begun \cup {r}
  /\ UNCHANGED <<opened, lost, reported, lines>>

Lose(R) ==
  /\ R # {} /\ R \cap (begun \cup lost) = {}
  /\ lost' = lost \cup R
  /\ reported' = reported + Cardinality(R)
  /\ UNCHANGED <<opened, begun, lines>>

Land(r) ==
  /\ r \in begun /\ ~Landed(r) /\ ~Closed
  /\ lines' = Append(lines, Line(r))
  /\ UNCHANGED <<opened, begun, lost, reported>>

\* The notice never claims more than was lost; it may miss what is lost later.
Notify(n) ==
  /\ n \in 1..reported /\ ~Closed
  /\ lines' = Append(lines, Notice(n))
  /\ UNCHANGED <<opened, begun, lost, reported>>

Next ==
  \/ Open
  \/ \E r \in 1..opened : Begin(r) \/ Land(r)
  \/ \E R \in SUBSET (1..opened) : Lose(R)
  \/ \E n \in 1..reported : Notify(n)

Spec == Init /\ [][Next]_ledger
=============================================================================
