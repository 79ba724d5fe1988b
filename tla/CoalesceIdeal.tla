---------------------------- MODULE CoalesceIdeal ----------------------------
(***************************************************************************)
(* What a replay promises of its multi-line groups: they are the groups a  *)
(* timer that is never late would have made, on the capture's own clock.   *)
(*                                                                         *)
(* Everything happens at its instant, in the order of the instants.  A     *)
(* group is released the moment it has been idle for Timeout, before       *)
(* anything else that happens then or later; groups due together leave in  *)
(* the order their headers came.  When the capture ends, what is held is   *)
(* released in that order at the last instant.                             *)
(***************************************************************************)
EXTENDS Naturals, Sequences

CONSTANTS
  Streams,   \* the streams lines are grouped by
  Timeout,   \* how long a group may be idle
  CapLines,  \* physical lines after which a group is released at once
  Ids,       \* the names of lines
  Instants   \* the instants of the capture

VARIABLES
  held,      \* per stream, the group being assembled (count = 0: none)
  now,       \* the instant of the last thing that happened
  ended,     \* the capture is over
  out        \* the groups released, each with its instant

idealVars == <<held, now, ended, out>>

NoGroup == [count |-> 0, ids |-> <<>>, active |-> FALSE, last |-> 0, seq |-> 0]

Init ==
  /\ held = [s \in Streams |-> NoGroup]
  /\ now = 0
  /\ ended = FALSE
  /\ out = <<>>

Holds(s) == held[s].count > 0
Due(s) == held[s].last + Timeout

Released(s, g, at) == Append(out, [stream |-> s, ids |-> g.ids, at |-> at])

\* s is released at its deadline, the earliest there is.
Release(s) ==
  /\ Holds(s) /\ ~ended
  /\ Due(s) >= now
  /\ \A r \in Streams \ {s} :
       Holds(r) => \/ Due(s) < Due(r)
                   \/ Due(s) = Due(r) /\ held[s].seq < held[r].seq
  /\ now' = Due(s)
  /\ out' = Released(s, held[s], Due(s))
  /\ held' = [held EXCEPT ![s] = NoGroup]
  /\ UNCHANGED ended

\* Line id of stream s happens at instant t, every earlier deadline being past.
\* It joins the group of its stream, which is released if that fills it ...
Join(s, id, t, fills) ==
  /\ Holds(s)
  /\ LET g == [count |-> held[s].count + 1, ids |-> Append(held[s].ids, id),
               active |-> TRUE, last |-> t, seq |-> held[s].seq]
     IN  IF fills \/ g.count >= CapLines
         THEN /\ held' = [held EXCEPT ![s] = NoGroup]
              /\ out' = Released(s, g, t)
         ELSE /\ held' = [held EXCEPT ![s] = g]
              /\ UNCHANGED out

\* ... or it is the header of the next group, and the one before it is released.
Open(s, id, t, g) ==
  /\ g.count = 1 /\ g.ids = <<id>> /\ g.last = t
  /\ \A r \in Streams : Holds(r) => held[r].seq < g.seq
  /\ held' = [held EXCEPT ![s] = g]
  /\ out' = IF Holds(s) THEN Released(s, held[s], t) ELSE out

Line(s, id, t) ==
  /\ ~ended
  /\ t >= now
  /\ \A r \in Streams : Holds(r) => t < Due(r)
  /\ now' = t
  /\ \/ \E fills \in BOOLEAN : Join(s, id, t, fills)
     \/ Open(s, id, t, held'[s])
  /\ UNCHANGED ended

End ==
  /\ ~ended
  /\ ended' = TRUE
  /\ UNCHANGED <<held, now, out>>

\* The capture is over: s is the group whose header came first.
Drain(s) ==
  /\ ended /\ Holds(s)
  /\ \A r \in Streams \ {s} : Holds(r) => held[s].seq < held[r].seq
  /\ out' = Released(s, held[s], now)
  /\ held' = [held EXCEPT ![s] = NoGroup]
  /\ UNCHANGED <<now, ended>>

Next ==
  \/ \E s \in Streams : Release(s) \/ Drain(s)
  \/ \E s \in Streams, id \in Ids, t \in Instants : Line(s, id, t)
  \/ End

Spec == Init /\ [][Next]_idealVars
=============================================================================
