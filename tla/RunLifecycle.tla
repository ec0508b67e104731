---------------------------- MODULE RunLifecycle ----------------------------
(***************************************************************************)
(* What a managed attempt promises, as docs/MANAGED_RUN_LIFECYCLE.md draws *)
(* it and nmsim/run_context.py implements it: one context that moves once  *)
(* from ACTIVE to FINISHED or FAILED, a manifest on disk whose verdict a   *)
(* later reader may rely on, and a public `latest` name that only a        *)
(* successful attempt ever takes.                                          *)
(***************************************************************************)
VARIABLES
    state,     \* of the context
    verdict,   \* of run_manifest.json
    public     \* out_root/latest names this attempt

vars == <<state, verdict, public>>

TypeOK ==
    /\ state \in {"NEW", "ACTIVE", "FINISHED", "FAILED"}
    /\ verdict \in {"unfinished", "accepted", "rejected"}
    /\ public \in BOOLEAN

Init == state = "NEW" /\ verdict = "unfinished" /\ public = FALSE

Open == state = "NEW" /\ state' = "ACTIVE" /\ UNCHANGED <<verdict, public>>

(* The manifest becomes acceptable; the context may not know whether it did *)
(* when the write took effect and reported an error.                        *)
Accept ==
    /\ state = "ACTIVE" /\ verdict = "unfinished"
    /\ state' \in {"ACTIVE", "FINISHED"} /\ verdict' = "accepted"
    /\ UNCHANGED public

(* What a context in doubt accepted, only that context takes back: nobody   *)
(* was led to it yet.                                                       *)
Retract ==
    /\ state = "ACTIVE" /\ verdict = "accepted"
    /\ verdict' = "unfinished"
    /\ UNCHANGED <<state, public>>

Abandon ==
    /\ state = "ACTIVE" /\ verdict = "unfinished"
    /\ state' = "FAILED"
    /\ UNCHANGED <<verdict, public>>

(* The failure record is a later effect than the failure itself. *)
Reject ==
    /\ state = "FAILED" /\ verdict = "unfinished"
    /\ verdict' = "rejected"
    /\ UNCHANGED <<state, public>>

Publish ==
    /\ state = "FINISHED" /\ verdict = "accepted"
    /\ public' = TRUE
    /\ UNCHANGED <<state, verdict>>

Next == Open \/ Accept \/ Retract \/ Abandon \/ Reject \/ Publish

Spec == Init /\ [][Next]_vars
=============================================================================
