------------------------------ MODULE ReuseGate ------------------------------
(***************************************************************************)
(* nmsim/result_reuse.py: a later process decides whether a managed attempt *)
(* may stand for a run it needs.  It is given the attempt's run directory   *)
(* or a flat compatibility link, reads the manifest once and then hashes    *)
(* what the manifest registers, file by file.  The attempt (ManagedRun) may *)
(* still be running, failing or being killed while it does.                 *)
(***************************************************************************)
EXTENDS ManagedRun

VARIABLES
    declared,   \* the flat link's entry in compatibility.legacy_links
    repeated,   \* the completion copied into the result file
    gate        \* one assessment

gateVars == <<vars, declared, repeated, gate>>

Idle == [stage |-> "idle"]

Completion(m) ==
    [runs |-> m.runs, counts |-> m.counts, requests |-> m.requests, derived |-> m.derived]

(* What is kept of a manifest once it is read: the files it registers and   *)
(* the completion it claims.                                                *)
Child(m) == [results |-> m.results, completion |-> Completion(m)]

GateInit ==
    /\ Init /\ declared = "no" /\ repeated = Completion(mem) /\ gate = Idle

-----------------------------------------------------------------------------
(* The attempt, with the two pieces of evidence ManagedRun leaves out: the  *)
(* entry is made after the link and reaches the disk with the last write,   *)
(* and the first result file repeats the completion of its moment.          *)

LinkNoted == pc = "publishFlat" /\ flat # "foreign" /\ pc' = "publishWrite"
LinkWritten == pc \in {"publishWrite", "publishWarn"} /\ declared = "memory"

Runs ==
    /\ Step
    /\ declared' \in IF LinkNoted THEN {"memory"}
                     ELSE IF LinkWritten
                          THEN IF faults' = faults THEN {"disk"} ELSE Left("memory", "disk")
                          ELSE {declared}
    /\ repeated' = IF exported = 0 /\ exported' = 1 THEN Completion(mem) ELSE repeated
    /\ UNCHANGED gate

Dies == Crash /\ UNCHANGED <<declared, repeated, gate>>

-----------------------------------------------------------------------------
(* The assessment *)

(* One run, all rounds and decisions, a response for each, nothing failed.  *)
Complete(m) ==
    /\ m.runs = [started |-> 1, completed |-> 1, failed |-> 0]
    /\ Rounds > 0 /\ Agents > 0
    /\ m.counts["RoundStarted"] = Rounds /\ m.counts["RoundFinished"] = Rounds
    /\ m.counts["AgentDecisionParsed"] = Rounds * Agents
    /\ m.requests = [attempted |-> Rounds * Agents, completed |-> Rounds * Agents]
    /\ m.derived = [roundsFailed |-> 0, roundsSkipped |-> 0,
                    decisionsFailed |-> 0, decisionsSkipped |-> 0]

(* Seeded bug: the status alone is trusted. *)
MutantTrusted(m) == m.status = "finished" /\ Complete(m)

Trusted(m) ==
    /\ m.status = "finished" /\ m.state = "FINISHED" /\ m.complete
    /\ Complete(m)

(* A manifest without result files has no identity. *)
Registers(m) == m.results.files > 0 \/ m.results.events # NoEvents

(* A link is followed to the run it leads to.  One that leads elsewhere is  *)
(* another run's evidence, and a plain file nobody's.                       *)
Resolve(via) ==
    /\ gate.stage = "idle" /\ via = "link" => flat # "other"
    /\ gate' = IF via = "link" /\ flat # "self" THEN [stage |-> "legacy"]
               ELSE [stage |-> "resolved", via |-> via]
    /\ UNCHANGED <<vars, declared, repeated>>

LinkDeclared(via) == via = "link" => declared = "disk"

(* The manifest is read once.  It must be trusted as it is and, when a link *)
(* led to it, declare that link; `fits` is the comparison of the science it *)
(* names with the expected one.                                             *)
Load ==
    /\ gate.stage = "resolved"
    /\ LET settled == /\ pc = "done" /\ ctx = "FINISHED"
                      /\ LinkDeclared(gate.via)
       IN  \E fits \in BOOLEAN :
              gate' = IF /\ Registers(disk) /\ Trusted(disk) /\ fits
                         /\ LinkDeclared(gate.via)
                      THEN [stage |-> "events", via |-> gate.via, settled |-> settled,
                            doubt |-> Accepted(disk) /\ ctx # "FINISHED",
                            child |-> Child(disk)]
                      ELSE [stage |-> "refused", due |-> settled /\ fits]
    /\ UNCHANGED <<vars, declared, repeated>>

(* The registered files are hashed in the order of their names, the event   *)
(* log first; then the result file's own identity is compared.              *)
Check(from, to, holds) ==
    /\ gate.stage = from
    /\ gate' = IF holds THEN [gate EXCEPT !.stage = to]
               ELSE [stage |-> "refused", due |-> gate.settled]
    /\ UNCHANGED <<vars, declared, repeated>>

HashEvents == Check("events", "files", gate.child.results.events = logged)
HashFiles == Check("files", "result", gate.child.results.files = Files /\ exported = Files)
CompareResult == Check("result", "reusable", repeated = gate.child.completion)

Assess ==
    \/ \E via \in {"manifest", "link"} : Resolve(via)
    \/ Load \/ HashEvents \/ HashFiles \/ CompareResult

-----------------------------------------------------------------------------
GateNext ==
    \/ Runs \/ Dies \/ Assess
    \/ Terminated /\ UNCHANGED <<declared, repeated, gate>>

GateSpec == GateInit /\ [][GateNext]_gateVars /\ WF_gateVars(Runs)

(* What is judged reusable is a run that stays accepted, whatever happened  *)
(* to the attempt between the reading of its manifest and the last hash.    *)
(* Only a manifest read directly, between a last write that took effect and *)
(* the error it reported, can be taken back later; a link never leads to    *)
(* one.  And an attempt that finished and published is never refused for    *)
(* its evidence.                                                            *)
ReuseIsSound ==
    /\ gate.stage = "reusable" =>
          /\ logged["RoundFinished"] = Rounds
          /\ logged["AgentDecisionParsed"] = Rounds * Agents
          /\ \/ Accepted(disk) /\ logged["RunFailed"] = 0
             \/ gate.via = "manifest" /\ gate.doubt
    /\ gate.stage = "refused" => ~gate.due
=============================================================================
