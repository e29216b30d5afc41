----------------------------- MODULE MCDynConfig -----------------------------
(***************************************************************************)
(* Two handlers, each of a section of its own, and two subscribers.  A     *)
(* behaviour has crashes, or it is told to stop at some moment, with one   *)
(* subscriber: stopping tells which.                                       *)
(***************************************************************************)
EXTENDS DynConfig, TLC

CONSTANTS kv, prof, start, s1, s2, db, raw, bad, none, nobody

MCCallers == {kv, prof}
MCSections == {kv, prof}
MCSectionOf == (kv :> kv) @@ (prof :> prof)
MCValues == {db, raw, bad}

VARIABLE stopping

Running == IF stopping THEN {s1} ELSE Subscribers

\* What is still pushed after the order to stop fits into the channel, as it
\* does in the code, where a channel holds 1000.
InTime == received[s1] > 0 \/ pc[Starter] \in {"loading", "storing"}

MCNext ==
    /\ \/ StartStep
       \/ \E p \in Callers, v \in Values : (stopping => v # bad) /\ Modify(p, v)
       \/ \E p \in Procs : CallStep(p)
       \/ \E s \in Running : LoopStep(s)
       \/ stopping /\ InTime /\ Cancel
       \/ Stop
       \/ ~stopping /\ Crash
    /\ UNCHANGED stopping

\* etcd is empty, or an older version wrote a section that Validate rejects.
Older == [s \in Sections |-> IF s = kv THEN bad ELSE raw]

MCInit == Init /\ stopping \in BOOLEAN /\ etcd \in {None, Older}

MCSpec ==
    /\ MCInit
    /\ [][MCNext]_<<vars, stopping>>
    /\ WF_vars(StartStep)
    /\ \A p \in Procs : WF_vars(CallStep(p))
    /\ \A s \in Subscribers : WF_vars(s \in Running /\ LoopStep(s))
    /\ WF_vars(stopping /\ InTime /\ Cancel) /\ WF_vars(Stop)
=============================================================================
