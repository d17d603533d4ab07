----------------------------- MODULE DeployK8s -----------------------------
(***************************************************************************)
(* The commands `deploy k8s` and `undeploy k8s` (internal/cli/deploy.go):  *)
(* each runs kubectl step by step on the Deployment and the Service of one *)
(* name, while others run the same commands and Ctrl+C comes at any time.  *)
(*                                                                         *)
(* A signal handler is installed only for the port-forward.  Before that   *)
(* Ctrl+C ends the command at once; afterwards the command goes on to its  *)
(* clean-up, but the kubectl it waits for gets the terminal's signal too   *)
(* and fails.  kubectl and the cluster are external: a step may fail at    *)
(* any time, a failed deletion may have been carried out or not.           *)
(***************************************************************************)
EXTENDS Sequences, FiniteSets

CONSTANTS Deployers,  \* runs of deploy k8s
          Undeployers \* runs of undeploy k8s

ASSUME DeployAssumption == Deployers \intersect Undeployers = {}

VARIABLES
    present,  \* the resources in the cluster
    at,       \* at[c]: what command c does
    todo,     \* todo[c]: the resources its kubectl has still to treat
    failed,   \* failed[c]: a resource was not applied
    caught,   \* caught[c]: its context is done
    said,     \* said[c]: how it ended
    applied,  \* history: applied[c]: resources any command applied since c began to delete
    deleted   \* history: deleted[c]: resources any command deleted since c began to apply

vars == <<present, at, todo, failed, caught, said, applied, deleted>>

Commands  == Deployers \union Undeployers
Resources == {"deployment", "service"}
InOrder   == <<"deployment", "service">>

Places == {"idle", "applying", "rolling", "forwarding", "deleting", "over"}
Ends   == {"-", "failed", "deployed", "removed", "warned", "killed"}

Init ==
    /\ present = {}
    /\ at = [c \in Commands |-> "idle"]
    /\ todo = [c \in Commands |-> << >>]
    /\ failed = [c \in Commands |-> FALSE]
    /\ caught = [c \in Commands |-> FALSE]
    /\ said = [c \in Commands |-> "-"]
    /\ applied = [c \in Commands |-> {}]
    /\ deleted = [c \in Commands |-> {}]

EndAs(c, how) ==
    /\ at' = [at EXCEPT ![c] = "over"]
    /\ said' = [said EXCEPT ![c] = how]

BeginDelete(c) ==
    /\ at' = [at EXCEPT ![c] = "deleting"]
    /\ todo' = [todo EXCEPT ![c] = InOrder]
    /\ applied' = [applied EXCEPT ![c] = {}]

-----------------------------------------------------------------------------
(* deploy k8s *)

Deploy(c) ==
    /\ c \in Deployers /\ at[c] = "idle"
    /\ at' = [at EXCEPT ![c] = "applying"]
    /\ todo' = [todo EXCEPT ![c] = InOrder]
    /\ deleted' = [deleted EXCEPT ![c] = {}]
    /\ UNCHANGED <<present, failed, caught, said, applied>>

\* kubectl apply treats the documents one by one, the rest after a failure too.
ApplyOne(c) ==
    /\ at[c] = "applying" /\ todo[c] # << >>
    /\ todo' = [todo EXCEPT ![c] = Tail(@)]
    /\ \/ /\ present' = present \union {Head(todo[c])}
          /\ applied' = [d \in Commands |-> applied[d] \union {Head(todo[c])}]
          /\ UNCHANGED failed
       \/ /\ failed' = [failed EXCEPT ![c] = TRUE]
          /\ UNCHANGED <<present, applied>>
    /\ UNCHANGED <<at, caught, said, deleted>>

\* Mutant: the exit status of kubectl apply is not looked at.
ApplyEndsUnchecked(c) ==
    /\ at[c] = "applying" /\ todo[c] = << >>
    /\ at' = [at EXCEPT ![c] = "rolling"]
    /\ UNCHANGED <<present, todo, failed, caught, said, applied, deleted>>

ApplyEnds(c) ==
    /\ at[c] = "applying" /\ todo[c] = << >>
    /\ IF failed[c] THEN EndAs(c, "failed")
                    ELSE at' = [at EXCEPT ![c] = "rolling"] /\ UNCHANGED said
    /\ UNCHANGED <<present, todo, failed, caught, applied, deleted>>

\* kubectl rollout status succeeds for a Deployment that is there, or fails.
RolloutEnds(c) ==
    /\ at[c] = "rolling"
    /\ \/ EndAs(c, "failed")
       \/ /\ "deployment" \in present
          /\ \/ EndAs(c, "deployed")            \* --port-forward=false
             \/ at' = [at EXCEPT ![c] = "forwarding"] /\ UNCHANGED said
    /\ UNCHANGED <<present, todo, failed, caught, applied, deleted>>

\* kubectl port-forward ends by itself, well or not: the clean-up follows.
ForwardEnds(c) ==
    /\ at[c] = "forwarding"
    /\ BeginDelete(c)
    /\ UNCHANGED <<present, failed, caught, said, deleted>>

-----------------------------------------------------------------------------
(* undeploy k8s, and the deletion both share *)

Undeploy(c) ==
    /\ c \in Undeployers /\ at[c] = "idle"
    /\ BeginDelete(c)
    /\ UNCHANGED <<present, failed, caught, said, deleted>>

Delete(r) ==
    /\ present' = present \ {r}
    /\ deleted' = [d \in Commands |-> deleted[d] \union {r}]

\* Mutant: the loop runs one time too often.
DeleteOneMore(c) ==
    /\ at[c] = "deleting"
    /\ Delete(Head(todo[c]))
    /\ todo' = [todo EXCEPT ![c] = Tail(@)]
    /\ IF Len(todo[c]) = 0 THEN EndAs(c, "removed") ELSE UNCHANGED <<at, said>>
    /\ UNCHANGED <<failed, caught, applied>>

\* kubectl delete --ignore-not-found succeeds; after the last one all is gone.
DeleteOne(c) ==
    /\ at[c] = "deleting"
    /\ Delete(Head(todo[c]))
    /\ todo' = [todo EXCEPT ![c] = Tail(@)]
    /\ IF Len(todo[c]) = 1 THEN EndAs(c, "removed") ELSE UNCHANGED <<at, said>>
    /\ UNCHANGED <<failed, caught, applied>>

\* Mutant: the loop goes on after a failure and forgets it.
DeleteFailsOn(c) ==
    /\ at[c] = "deleting"
    /\ todo' = [todo EXCEPT ![c] = Tail(@)]
    /\ IF Len(todo[c]) = 1 THEN EndAs(c, "removed") ELSE UNCHANGED <<at, said>>
    /\ UNCHANGED <<present, failed, caught, applied, deleted>>

\* kubectl delete fails or times out: the loop is left, the rest stays.
DeleteFails(c) ==
    /\ at[c] = "deleting"
    /\ Delete(Head(todo[c])) \/ UNCHANGED <<present, deleted>>
    /\ EndAs(c, IF c \in Deployers THEN "warned" ELSE "failed")
    /\ UNCHANGED <<todo, failed, caught, applied>>

-----------------------------------------------------------------------------
(* Ctrl+C *)

\* Without a handler the command dies, and with it the kubectl in progress.
Kill(c) ==
    /\ \/ at[c] \in {"applying", "rolling"}
       \/ c \in Undeployers /\ at[c] = "deleting"
    /\ EndAs(c, "killed")
    /\ UNCHANGED <<present, todo, failed, caught, applied, deleted>>

\* Mutant: the port-forward is not bound to the context.
CancelForwardUnbound(c) ==
    /\ at[c] = "forwarding"
    /\ caught' = [caught EXCEPT ![c] = TRUE]
    /\ UNCHANGED <<present, at, todo, failed, said, applied, deleted>>

\* With it the context is done and the port-forward is stopped,
CancelForward(c) ==
    /\ at[c] = "forwarding"
    /\ caught' = [caught EXCEPT ![c] = TRUE]
    /\ BeginDelete(c)
    /\ UNCHANGED <<present, failed, said, deleted>>

\* and a later one is swallowed, but not by the kubectl that deletes.
CancelDelete(c) ==
    /\ c \in Deployers /\ at[c] = "deleting"
    /\ caught' = [caught EXCEPT ![c] = TRUE]
    /\ Delete(Head(todo[c])) \/ UNCHANGED <<present, deleted>>
    /\ EndAs(c, "warned")
    /\ UNCHANGED <<todo, failed, applied>>

-----------------------------------------------------------------------------
Command(c) ==
    \/ Deploy(c) \/ ApplyOne(c) \/ ApplyEnds(c) \/ RolloutEnds(c) \/ ForwardEnds(c)
    \/ Undeploy(c) \/ DeleteOne(c) \/ DeleteFails(c)

CtrlC(c) == Kill(c) \/ CancelForward(c) \/ CancelDelete(c)

Next == \E c \in Commands : Command(c) \/ CtrlC(c)

\* kubectl delete has a timeout; nobody waits for the other steps.
Spec == Init /\ [][Next]_vars /\ \A c \in Commands : WF_vars(DeleteOne(c) \/ DeleteFails(c))

-----------------------------------------------------------------------------
DeployTypeOK ==
    /\ present \subseteq Resources
    /\ at \in [Commands -> Places] /\ said \in [Commands -> Ends]
    /\ failed \in [Commands -> BOOLEAN] /\ caught \in [Commands -> BOOLEAN]
    /\ applied \in [Commands -> SUBSET Resources] /\ deleted \in [Commands -> SUBSET Resources]
    /\ \A c \in Commands :
          /\ todo[c] \in {<< >>, <<"service">>, InOrder}
          /\ at[c] = "over" <=> said[c] # "-"
          /\ at[c] = "deleting" => todo[c] # << >>

\* "All resources removed." is true: what is in the cluster when a command has
\* said so was applied by another command since this one began to delete,
\* whatever failed and whoever else ran (deploy.go:242-251, 286-304).
RemovedMeansGone ==
    \A c \in Commands : said[c] = "removed" => present \subseteq applied[c]

\* A deployment reported as done is in the cluster, all of it, but for what
\* another command has deleted since it began (deploy.go:194-221).
DeployedMeansThere ==
    \A c \in Commands : said[c] = "deployed" => Resources \subseteq present \union deleted[c]

\* Ctrl+C during the port-forward brings the command to its end by itself,
\* even if the clean-up fails (deploy.go:223-257).
CaughtEnds == \A c \in Commands : caught[c] ~> at[c] = "over"

\* A deploy that Ctrl+C has killed has left nothing in the cluster, if no other
\* command could have applied it: "Cleans up on Ctrl+C." (deploy.go:159).
InterruptCleansUp ==
    \A c \in Deployers : said[c] = "killed" /\ Deployers = {c} => present = {}
=============================================================================
