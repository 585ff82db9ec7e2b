------------------------ MODULE IntentPipeline_proofs ------------------------
(* Theorems of IntentPipeline, for any processes and any keys.             *)
EXTENDS IntentPipeline, TLAPS

(* Every step of the pipeline keeps PipelineInv: one step per action.      *)
LEMMA PipelineStep ==
  ASSUME PipelineInv, [Next]_vars
  PROVE  PipelineInv'
<1> USE PipelineAssumption DEF PipelineInv, TypeOK, ClaimIsExclusive, AtMostOneLive, Phases
<1>1. ASSUME NEW r \in Runners, NEW k \in Keys, Generate(r, k)
      PROVE  PipelineInv'
  BY <1>1 DEF Generate, Move
<1>2. ASSUME NEW r \in Runners, Approve(r)
      PROVE  PipelineInv'
  BY <1>2 DEF Approve, Move
<1>3. ASSUME NEW r \in Runners, Claim(r)
      PROVE  PipelineInv'
  <2>1. key[r] \in Keys
    BY <1>3 DEF Claim
  <2>2. CASE Wins(r)
    <3>1. live[key[r]] = 0
      BY <2>1, <2>2 DEF Wins
    <3>2. \A q \in Runners : phase[q] = "submitting" => key[q] # key[r]
      BY <2>2 DEF Wins
    <3> QED
      BY <1>3, <2>1, <2>2, <3>1, <3>2 DEF Claim, Move
  <2>3. CASE ~Wins(r)
    BY <1>3, <2>3 DEF Claim, Move
  <2> QED
    BY <2>2, <2>3
<1>4. ASSUME NEW r \in Runners, Send(r)
      PROVE  PipelineInv'
  <2>1. key[r] \in claimed /\ live[key[r]] = 0
    BY <1>4 DEF Send
  <2>2. \A q \in Runners : q # r /\ phase[q] = "submitting" => key[q] # key[r]
    BY <1>4 DEF Send
  <2> QED
    BY <1>4, <2>1, <2>2 DEF Send, Move
<1>5. ASSUME NEW r \in Runners, GiveUp(r)
      PROVE  PipelineInv'
  BY <1>5 DEF GiveUp, Move
<1>6. ASSUME NEW k \in Keys, Refuse(k)
      PROVE  PipelineInv'
  BY <1>6 DEF Refuse
<1>7. CASE UNCHANGED vars
  BY <1>7 DEF vars
<1> QED
  BY <1>1, <1>2, <1>3, <1>4, <1>5, <1>6, <1>7 DEF Next

(* Type correctness, exclusive claims and at most one live request, in     *)
(* every reachable state.                                                  *)
THEOREM PipelineInvariant == Spec => []PipelineInv
<1>1. Init => PipelineInv
  BY PipelineAssumption
     DEF Init, PipelineInv, TypeOK, ClaimIsExclusive, AtMostOneLive, Phases
<1>2. PipelineInv /\ [Next]_vars => PipelineInv'
  BY PipelineStep
<1> QED
  BY <1>1, <1>2, PTL DEF Spec

(* However many processes race for a key, the venue holds at most one      *)
(* request of it.                                                          *)
THEOREM AtMostOneLiveAlways == Spec => []AtMostOneLive
<1>1. PipelineInv => AtMostOneLive
  BY DEF PipelineInv
<1> QED
  BY <1>1, PipelineInvariant, PTL

(* The step form of DeadStaysDead: once a claimed key has no request left  *)
(* and nobody about to send it, no step brings it back.                    *)
LEMMA DeadStep ==
  ASSUME PipelineInv, [Next]_vars, NEW k \in Keys, Dead(k)
  PROVE  Dead(k)'
<1> USE DEF PipelineInv, TypeOK, ClaimIsExclusive, Dead
<1>1. ASSUME NEW r \in Runners, NEW l \in Keys, Generate(r, l)
      PROVE  Dead(k)'
  BY <1>1 DEF Generate, Move
<1>2. ASSUME NEW r \in Runners, Approve(r)
      PROVE  Dead(k)'
  BY <1>2 DEF Approve, Move
<1>3. ASSUME NEW r \in Runners, Claim(r)
      PROVE  Dead(k)'
  BY <1>3 DEF Claim, Wins, Move
<1>4. ASSUME NEW r \in Runners, Send(r)
      PROVE  Dead(k)'
  BY <1>4 DEF Send, Move
<1>5. ASSUME NEW r \in Runners, GiveUp(r)
      PROVE  Dead(k)'
  BY <1>5 DEF GiveUp, Move
<1>6. ASSUME NEW l \in Keys, Refuse(l)
      PROVE  Dead(k)'
  BY <1>6 DEF Refuse
<1>7. CASE UNCHANGED vars
  BY <1>7 DEF vars
<1> QED
  BY <1>1, <1>2, <1>3, <1>4, <1>5, <1>6, <1>7 DEF Next

(* A refused or abandoned key is never sent again, whichever processes     *)
(* were already past their own check of the table.                         *)
THEOREM DeadForGood == Spec => DeadStaysDead
<1>1. PipelineInv /\ [Next]_vars => [\A k \in Keys : Dead(k) => Dead(k)']_vars
  BY DeadStep
<1> QED
  BY <1>1, PipelineInvariant, PTL DEF Spec, DeadStaysDead

=============================================================================
