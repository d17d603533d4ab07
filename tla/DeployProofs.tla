---------------------------- MODULE DeployProofs ----------------------------
(***************************************************************************)
(* What holds of deploy and undeploy for every number of commands run on   *)
(* the same cluster, whatever fails and whenever Ctrl+C comes.             *)
(***************************************************************************)
EXTENDS DeployK8s, Naturals, TLAPS

\* The resources kubectl has still to treat.
Left(c) == {todo[c][i] : i \in 1 .. Len(todo[c])}

\* What is not yet deleted of what nobody applied again is still to be deleted.
DeletingInv == \A c \in Commands :
    /\ at[c] = "deleting" => present \subseteq applied[c] \union Left(c)
    /\ said[c] = "removed" => present \subseteq applied[c]

\* What is not yet applied of what nobody deleted is still to be applied, or
\* has failed and will be noticed.
ApplyingInv == \A c \in Commands :
    /\ at[c] = "applying" /\ ~ failed[c] => Resources \subseteq present \union deleted[c] \union Left(c)
    /\ at[c] = "rolling" \/ said[c] = "deployed" => Resources \subseteq present \union deleted[c]

TodoLists == {<< >>, <<"service">>, InOrder}

IInv == DeployTypeOK /\ todo \in [Commands -> TodoLists] /\ DeletingInv /\ ApplyingInv

-----------------------------------------------------------------------------
\* The lists of resources there are, and what is left of them.
LEMMA Lists ==
    /\ Len(InOrder) = 2 /\ Head(InOrder) = "deployment" /\ Tail(InOrder) = <<"service">>
    /\ Len(<<"service">>) = 1 /\ Head(<<"service">>) = "service" /\ Tail(<<"service">>) = << >>
    /\ InOrder # << >> /\ <<"service">> # << >> /\ InOrder # <<"service">>
BY DEF InOrder

LEMMA LeftOf ==
    ASSUME NEW c \in Commands
    PROVE  /\ todo[c] = InOrder => Left(c) = Resources
           /\ todo[c] = <<"service">> => Left(c) = {"service"}
           /\ todo[c] = << >> => Left(c) = {}
<1>1. ASSUME todo[c] = InOrder PROVE Left(c) = Resources
  <2>1. 1 .. Len(todo[c]) = {1, 2} /\ todo[c][1] = "deployment" /\ todo[c][2] = "service"
    BY <1>1 DEF InOrder
  <2>2. QED
    BY <2>1 DEF Left, Resources
<1>2. ASSUME todo[c] = <<"service">> PROVE Left(c) = {"service"}
  <2>1. 1 .. Len(todo[c]) = {1} /\ todo[c][1] = "service"
    BY <1>2
  <2>2. QED
    BY <2>1 DEF Left
<1>3. ASSUME todo[c] = << >> PROVE Left(c) = {}
  BY <1>3 DEF Left
<1>4. QED
  BY <1>1, <1>2, <1>3

\* The same of the lists after a step.
LEMMA LeftThen ==
    ASSUME NEW c \in Commands
    PROVE  /\ todo'[c] = InOrder => Left(c)' = Resources
           /\ todo'[c] = <<"service">> => Left(c)' = {"service"}
           /\ todo'[c] = << >> => Left(c)' = {}
           /\ todo'[c] = todo[c] => Left(c)' = Left(c)
<1>1. ASSUME todo'[c] = InOrder PROVE Left(c)' = Resources
  <2>1. 1 .. Len(todo'[c]) = {1, 2} /\ todo'[c][1] = "deployment" /\ todo'[c][2] = "service"
    BY <1>1 DEF InOrder
  <2>2. QED
    BY <2>1 DEF Left, Resources
<1>2. ASSUME todo'[c] = <<"service">> PROVE Left(c)' = {"service"}
  <2>1. 1 .. Len(todo'[c]) = {1} /\ todo'[c][1] = "service"
    BY <1>2
  <2>2. QED
    BY <2>1 DEF Left
<1>3. ASSUME todo'[c] = << >> PROVE Left(c)' = {}
  BY <1>3 DEF Left
<1>4. ASSUME todo'[c] = todo[c] PROVE Left(c)' = Left(c)
  BY <1>4 DEF Left
<1>5. QED
  BY <1>1, <1>2, <1>3, <1>4

\* Treating the head of a list leaves the rest of it.
LEMMA LeftAfterHead ==
    ASSUME todo \in [Commands -> TodoLists], NEW c \in Commands, todo[c] # << >>,
           todo' = [todo EXCEPT ![c] = Tail(@)]
    PROVE  /\ todo' \in [Commands -> TodoLists] /\ todo'[c] # InOrder
           /\ Left(c) = Left(c)' \union {Head(todo[c])} /\ Head(todo[c]) \in Resources
           /\ Len(todo[c]) = 1 <=> todo'[c] = << >>
           /\ \A d \in Commands \ {c} : Left(d)' = Left(d)
<1>1. todo'[c] = Tail(todo[c]) /\ \A d \in Commands \ {c} : todo'[d] = todo[d]
  OBVIOUS
<1>2. CASE todo[c] = InOrder
  <2>1. todo'[c] = <<"service">> /\ Head(todo[c]) = "deployment" /\ Len(todo[c]) = 2
    BY <1>1, <1>2, Lists
  <2>2. todo' \in [Commands -> TodoLists]
    BY <2>1 DEF TodoLists
  <2>3. Left(c) = Resources /\ Left(c)' = {"service"}
    BY <1>2, <2>1, LeftOf, LeftThen
  <2>4. todo'[c] # InOrder /\ todo'[c] # << >>
    BY <2>1, Lists
  <2>5. \A d \in Commands \ {c} : Left(d)' = Left(d)
    BY <1>1, LeftThen
  <2>6. QED
    BY <2>1, <2>2, <2>3, <2>4, <2>5 DEF Resources
<1>3. CASE todo[c] = <<"service">>
  <2>1. todo'[c] = << >> /\ Head(todo[c]) = "service" /\ Len(todo[c]) = 1
    BY <1>1, <1>3, Lists
  <2>2. QED
    BY <1>1, <1>3, <2>1, LeftOf, LeftThen, Lists DEF TodoLists, Resources
<1>4. QED
  BY <1>2, <1>3 DEF TodoLists

LEMMA Initially == Init => IInv
<1>1. InOrder # << >>
  BY Lists
<1>2. QED
  BY <1>1 DEF Init, IInv, DeployTypeOK, DeletingInv, ApplyingInv, TodoLists, Places, Ends

-----------------------------------------------------------------------------
(* One lemma per action.                                                   *)

LEMMA DeployKeeps ==
    ASSUME IInv, NEW c \in Commands, Deploy(c)
    PROVE  IInv'
<1> USE DEF IInv, Deploy
<1>1. todo' \in [Commands -> TodoLists] /\ todo'[c] = InOrder
  BY DEF TodoLists
<1>2. Left(c)' = Resources /\ \A d \in Commands \ {c} : Left(d)' = Left(d)
  BY <1>1, LeftThen
<1>3. DeployTypeOK'
  BY <1>1, Lists DEF DeployTypeOK, Places, TodoLists
<1>4. DeletingInv' /\ ApplyingInv'
  BY <1>2 DEF DeployTypeOK, DeletingInv, ApplyingInv
<1>5. QED
  BY <1>1, <1>3, <1>4

LEMMA ApplyOneKeeps ==
    ASSUME IInv, NEW c \in Commands, ApplyOne(c)
    PROVE  IInv'
<1> USE DEF IInv, ApplyOne
<1>1. /\ todo' \in [Commands -> TodoLists]
      /\ Left(c) = Left(c)' \union {Head(todo[c])} /\ Head(todo[c]) \in Resources
      /\ \A d \in Commands \ {c} : Left(d)' = Left(d)
  BY LeftAfterHead
<1>2. /\ present' \subseteq Resources /\ failed' \in [Commands -> BOOLEAN]
      /\ applied' \in [Commands -> SUBSET Resources]
  <2>1. present' \subseteq Resources
    BY <1>1 DEF DeployTypeOK
  <2>2. failed' \in [Commands -> BOOLEAN]
    BY DEF DeployTypeOK
  <2>3. applied' \in [Commands -> SUBSET Resources]
    BY <1>1 DEF DeployTypeOK
  <2>4. QED
    BY <2>1, <2>2, <2>3
<1>3. DeployTypeOK'
  BY <1>1, <1>2 DEF DeployTypeOK, TodoLists
<1>4. CASE /\ present' = present \union {Head(todo[c])} /\ UNCHANGED failed
           /\ applied' = [d \in Commands |-> applied[d] \union {Head(todo[c])}]
  <2>1. \A d \in Commands : applied'[d] = applied[d] \union {Head(todo[c])}
    BY <1>4
  <2>2. DeletingInv'
    BY <1>1, <1>4, <2>1 DEF DeletingInv
  <2>3. ApplyingInv'
    BY <1>1, <1>4 DEF ApplyingInv
  <2>4. QED
    BY <1>1, <1>3, <2>2, <2>3
<1>5. CASE UNCHANGED <<present, applied>> /\ failed' = [failed EXCEPT ![c] = TRUE]
  <2>1. DeletingInv'
    BY <1>1, <1>5 DEF DeletingInv
  <2>2. ApplyingInv'
    BY <1>1, <1>5 DEF ApplyingInv, DeployTypeOK
  <2>3. QED
    BY <1>1, <1>3, <2>1, <2>2
<1>6. QED
  BY <1>4, <1>5

LEMMA ApplyEndsKeeps ==
    ASSUME IInv, NEW c \in Commands, ApplyEnds(c)
    PROVE  IInv'
<1> USE DEF IInv, ApplyEnds, EndAs
<1>1. Left(c) = {} /\ \A d \in Commands : Left(d)' = Left(d)
  BY LeftOf, LeftThen
<1>2. DeployTypeOK'
  BY DEF DeployTypeOK, Places, Ends
<1>3. DeletingInv' /\ ApplyingInv'
  BY <1>1 DEF DeployTypeOK, DeletingInv, ApplyingInv
<1>4. QED
  BY <1>2, <1>3

LEMMA RolloutEndsKeeps ==
    ASSUME IInv, NEW c \in Commands, RolloutEnds(c)
    PROVE  IInv'
<1> USE DEF IInv, RolloutEnds, EndAs
<1>1. \A d \in Commands : Left(d)' = Left(d)
  BY LeftThen
<1>2. DeployTypeOK'
  BY DEF DeployTypeOK, Places, Ends
<1>3. DeletingInv' /\ ApplyingInv'
  BY <1>1 DEF DeployTypeOK, DeletingInv, ApplyingInv
<1>4. QED
  BY <1>2, <1>3

\* A deletion begins: everything is still to be deleted.
LEMMA BeginDeleteKeeps ==
    ASSUME IInv, NEW c \in Commands, BeginDelete(c), said[c] = "-",
           UNCHANGED <<present, failed, said, deleted>>, caught' \in [Commands -> BOOLEAN]
    PROVE  IInv'
<1> USE DEF IInv, BeginDelete
<1>1. todo' \in [Commands -> TodoLists] /\ todo'[c] = InOrder
  BY DEF TodoLists
<1>2. Left(c)' = Resources /\ \A d \in Commands \ {c} : Left(d)' = Left(d)
  BY <1>1, LeftThen
<1>3. DeployTypeOK'
  BY <1>1, Lists DEF DeployTypeOK, Places, TodoLists
<1>4. DeletingInv' /\ ApplyingInv'
  BY <1>2 DEF DeployTypeOK, DeletingInv, ApplyingInv
<1>5. QED
  BY <1>1, <1>3, <1>4

LEMMA DeletionBegins ==
    ASSUME IInv, NEW c \in Commands, ForwardEnds(c) \/ Undeploy(c) \/ CancelForward(c)
    PROVE  IInv'
<1>1. /\ BeginDelete(c) /\ UNCHANGED <<present, failed, said, deleted>>
      /\ at[c] \in {"forwarding", "idle"}
  BY DEF ForwardEnds, Undeploy, CancelForward
<1>2. said[c] = "-"
  BY <1>1 DEF IInv, DeployTypeOK
<1>3. caught' \in [Commands -> BOOLEAN]
  BY DEF ForwardEnds, Undeploy, CancelForward, IInv, DeployTypeOK
<1>4. QED
  BY <1>1, <1>2, <1>3, BeginDeleteKeeps

LEMMA DeleteOneKeeps ==
    ASSUME IInv, NEW c \in Commands, DeleteOne(c)
    PROVE  IInv'
<1> USE DEF IInv, DeleteOne, Delete, EndAs
<1>1. todo[c] # << >>
  BY DEF DeployTypeOK
<1>2. /\ todo' \in [Commands -> TodoLists]
      /\ Left(c) = Left(c)' \union {Head(todo[c])} /\ Head(todo[c]) \in Resources
      /\ Len(todo[c]) = 1 <=> todo'[c] = << >>
      /\ \A d \in Commands \ {c} : Left(d)' = Left(d)
  BY <1>1, LeftAfterHead
<1>3. todo'[c] = << >> => Left(c)' = {}
  BY LeftThen
<1>4. DeployTypeOK'
  BY <1>2 DEF DeployTypeOK, TodoLists, Places, Ends
<1>5. /\ at[c] = "deleting" /\ present' = present \ {Head(todo[c])}
      /\ at'[c] \in {"over", "deleting"} /\ said'[c] # "deployed"
      /\ at'[c] = "over" => todo'[c] = << >>
      /\ \A d \in Commands : d # c => at'[d] = at[d] /\ said'[d] = said[d]
  <2>1. at[c] = "deleting" /\ said[c] = "-" /\ present' = present \ {Head(todo[c])}
    BY DEF DeployTypeOK
  <2>2. CASE Len(todo[c]) = 1
    BY <1>2, <2>1, <2>2 DEF DeployTypeOK
  <2>3. CASE Len(todo[c]) # 1
    BY <1>2, <2>1, <2>3 DEF DeployTypeOK
  <2>4. QED
    BY <2>2, <2>3
<1>6. \A d \in Commands : deleted'[d] = deleted[d] \union {Head(todo[c])}
  OBVIOUS
<1>7. DeletingInv'
  BY <1>2, <1>3, <1>5 DEF DeployTypeOK, DeletingInv
<1>8. ApplyingInv'
  <2>1. \A d \in Commands : present \union deleted[d] \subseteq present' \union deleted'[d]
    BY <1>5, <1>6
  <2>2. UNCHANGED failed
    OBVIOUS
  <2> HIDE DEF IInv, DeleteOne
  <2>3. QED
    BY <1>2, <1>5, <2>1, <2>2 DEF ApplyingInv, IInv
<1>9. QED
  BY <1>2, <1>4, <1>7, <1>8

\* An end that claims nothing, be one more resource deleted or not.
LEMMA EndKeeps ==
    ASSUME IInv, NEW c \in Commands, NEW how \in {"failed", "warned", "killed"},
           EndAs(c, how), UNCHANGED <<todo, failed, applied>>,
           caught' \in [Commands -> BOOLEAN], at[c] # "over",
           (\E r \in Resources : Delete(r)) \/ UNCHANGED <<present, deleted>>
    PROVE  IInv'
<1> USE DEF IInv, EndAs
<1>1. \A d \in Commands : Left(d)' = Left(d)
  BY LeftThen
<1>2. present' \subseteq Resources /\ deleted' \in [Commands -> SUBSET Resources]
  BY DEF DeployTypeOK, Delete
<1>3. DeployTypeOK'
  BY <1>2 DEF DeployTypeOK, Places, Ends
<1>4. DeletingInv' /\ ApplyingInv'
  BY <1>1 DEF DeployTypeOK, DeletingInv, ApplyingInv, Delete
<1>5. QED
  BY <1>3, <1>4

LEMMA FailuresKeep ==
    ASSUME IInv, NEW c \in Commands, DeleteFails(c) \/ Kill(c) \/ CancelDelete(c)
    PROVE  IInv'
<1>1. ASSUME at[c] = "deleting"
      PROVE  Head(todo[c]) \in Resources
  BY <1>1, Lists DEF IInv, DeployTypeOK, TodoLists, Resources
<1>2. \E how \in {"failed", "warned", "killed"} : EndAs(c, how)
  BY DEF DeleteFails, Kill, CancelDelete
<1>3. (\E r \in Resources : Delete(r)) \/ UNCHANGED <<present, deleted>>
  BY <1>1 DEF DeleteFails, Kill, CancelDelete
<1>4. /\ UNCHANGED <<todo, failed, applied>> /\ at[c] # "over"
      /\ caught' \in [Commands -> BOOLEAN]
  BY DEF DeleteFails, Kill, CancelDelete, IInv, DeployTypeOK
<1>5. QED
  BY <1>2, <1>3, <1>4, EndKeeps

LEMMA EveryStepKeeps ==
    ASSUME IInv, [Next]_vars
    PROVE  IInv'
<1>1. CASE UNCHANGED vars
  BY <1>1 DEF vars, IInv, DeployTypeOK, DeletingInv, ApplyingInv, Left
<1>2. QED
  BY <1>1, DeployKeeps, ApplyOneKeeps, ApplyEndsKeeps, RolloutEndsKeeps, DeletionBegins,
     DeleteOneKeeps, FailuresKeep DEF Next, Command, CtrlC

LEMMA DeployInvariant == Spec => []IInv
BY Initially, EveryStepKeeps, PTL DEF Spec

-----------------------------------------------------------------------------
\* A deletion always has a resource left to delete, and a command is over
\* exactly when it has said how it ended.
THEOREM DeployTypes == Spec => []DeployTypeOK
<1>1. IInv => DeployTypeOK
  BY DEF IInv
<1>2. QED
  BY <1>1, DeployInvariant, PTL

\* "All resources removed." is true for any number of commands on the cluster:
\* what is there was applied since by another one.
THEOREM RemovedIsGone == Spec => []RemovedMeansGone
<1>1. IInv => RemovedMeansGone
  BY DEF IInv, DeletingInv, RemovedMeansGone
<1>2. QED
  BY <1>1, DeployInvariant, PTL

\* A deployment reported as done is in the cluster, but for what another
\* command has deleted since it began.
THEOREM DeployedIsThere == Spec => []DeployedMeansThere
<1>1. IInv => DeployedMeansThere
  BY DEF IInv, ApplyingInv, DeployedMeansThere
<1>2. QED
  BY <1>1, DeployInvariant, PTL
=============================================================================
