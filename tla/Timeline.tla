------------------------------- MODULE Timeline -------------------------------
(***************************************************************************)
(* What the key visualizer's storage promises, whatever its layers: one    *)
(* line of adjacent segments from the oldest time kept to the newest.  A   *)
(* sample extends it at the new end, history is made coarser by merging    *)
(* neighbours, and it is forgotten from the old end only.                  *)
(***************************************************************************)
EXTENDS Integers

CONSTANT MaxTime

VARIABLES
    origin, end,  \* where the line begins, and where it ends
    segments      \* the set of [from, until, samples] it consists of

vars == <<origin, end, segments>>

Init ==
    /\ origin = 0
    /\ end = 0
    /\ segments = {}

\* A sample taken at time t covers the time since the end of the line.
Extend(t) ==
    /\ t > end
    /\ end' = t
    /\ segments' = segments \union {[from |-> end, until |-> t, samples |-> {t}]}
    /\ UNCHANGED origin

\* Two neighbours become one that spans their time and holds their samples.
Coarsen(older, newer) ==
    /\ older.until = newer.from
    /\ segments' = (segments \ {older, newer})
                   \union {[from |-> older.from, until |-> newer.until,
                            samples |-> older.samples \union newer.samples]}
    /\ UNCHANGED <<origin, end>>

Forget(oldest) ==
    /\ oldest.from = origin
    /\ origin' = oldest.until
    /\ segments' = segments \ {oldest}
    /\ UNCHANGED end

Next ==
    \/ \E t \in 1 .. MaxTime : Extend(t)
    \/ \E older, newer \in segments : Coarsen(older, newer)
    \/ \E oldest \in segments : Forget(oldest)

Spec == Init /\ [][Next]_vars

-----------------------------------------------------------------------------
\* The moment t lies in segment s.
In(t, s) == s.from < t /\ t <= s.until

\* Every moment between the ends is in one segment, and in no other.
Covered ==
    \A t \in origin + 1 .. end :
        \E s \in segments : In(t, s) /\ \A r \in segments : In(t, r) => r = s

\* The inductive invariant of a line: no segment is empty or leaves the line,
\* no two overlap, and none is missing.
OneLine ==
    /\ origin \in Nat /\ end \in Nat /\ origin <= end
    /\ \A s \in segments : /\ s.from \in Nat /\ s.until \in Nat
                           /\ origin <= s.from /\ s.from < s.until /\ s.until <= end
    /\ \A s, r \in segments : s = r \/ s.until <= r.from \/ r.until <= s.from
    /\ \A t \in origin + 1 .. end : \E s \in segments : In(t, s)
=============================================================================
