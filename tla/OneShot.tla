------------------------------ MODULE OneShot ------------------------------
(* What a client of the background jobs may rely on: a job it submitted is    *)
(* open until it ends, takes effect at most once, and only while it is open.  *)
CONSTANTS Jobs
VARIABLES phase, effect

Init == phase = [j \in Jobs |-> "new"] /\ effect = [j \in Jobs |-> FALSE]

Submit(j) ==
    /\ phase[j] = "new" /\ phase' = [phase EXCEPT ![j] = "open"]
    /\ UNCHANGED effect
TakeEffect(j) ==
    /\ phase[j] = "open" /\ ~effect[j]
    /\ effect' = [effect EXCEPT ![j] = TRUE]
    /\ UNCHANGED phase
End(S) ==
    /\ \A j \in S : phase[j] \in {"new", "open"}
    /\ phase' = [j \in Jobs |-> IF j \in S THEN "ended" ELSE phase[j]]
    /\ UNCHANGED effect

Next == (\E j \in Jobs : Submit(j) \/ TakeEffect(j)) \/ \E S \in SUBSET Jobs : End(S)
Spec == Init /\ [][Next]_<<phase, effect>>
=============================================================================
