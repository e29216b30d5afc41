----------------------------- MODULE MCLogSearch -----------------------------
(***************************************************************************)
(* Two requests at a time, on two groups of one target each with a crash,  *)
(* or on one group of two TiKV targets: wide tells which.                  *)
(***************************************************************************)
EXTENDS LogSearch, TLC

CONSTANTS h1, h2, boot, none

VARIABLE wide

\* Handlers are alike: the second one serves while the first one is busy.
Free(h) == h = h1 \/ call[h1] # Idle

MCNext ==
    /\ \/ \E h \in Handlers :
            /\ Free(h)
            /\ \/ \E n \in 1 .. MaxTargets : n = (IF wide THEN 2 ELSE 1) /\ (wide => calls = 0) /\ Create(h, n)
               \/ \E g \in Groups : (wide => calls < 2) /\ (Retry(h, g) \/ Cancel(h, g) \/ Delete(h, g))
       \/ \E h \in Handlers \union {Boot} : HandlerStep(h)
       \/ \E r \in Runs : RunStep(r) \/ \E t \in Tasks : TaskStep(r, t) \/ SearchStep(r, t)
       \/ ~wide /\ Crash
       \/ BootStep
    /\ \A t \in Tasks : tasks'[t] # None => tasks'[t].tikv = wide
    /\ failures' + crashes' < 2
    /\ UNCHANGED wide

MCInit == Init /\ wide \in BOOLEAN
MCSpec == MCInit /\ [][MCNext]_<<vars, wide>> /\ Fairness
=============================================================================
