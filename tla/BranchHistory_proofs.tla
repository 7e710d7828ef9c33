------------------------- MODULE BranchHistory_proofs -------------------------
(***************************************************************************)
(* The abstract history loses nothing.                                     *)
(***************************************************************************)
EXTENDS BranchHistory, TLAPS

(* Types, and that the history is closed under parents and tips.           *)
HistoryInv ==
  /\ None \notin Commit
  /\ tip \in [Branch -> Commit \cup {None}]
  /\ DOMAIN chain \subseteq Commit
  /\ chain \in [DOMAIN chain -> Commit \cup {None}]
  /\ acked \subseteq DOMAIN chain
  /\ \A b \in Branch : tip[b] # None => tip[b] \in DOMAIN chain
  /\ ChainReachable

(***************************************************************************)
(* A commit that joins the chain on top of the tip of b keeps everything   *)
(* the chain held reachable (write_branch on a commit whose parent is the  *)
(* tip it replaces).                                                       *)
(***************************************************************************)
LEMMA AdvanceKeepsReachable ==
  ASSUME HistoryInv, NEW b \in Branch, NEW c \in Commit, Advance(b, c)
  PROVE  ChainReachable'
<1>1. ASSUME NEW d \in Commit, NEW S \in SUBSET Commit, ParentClosed(S)'
      PROVE  ParentClosed(S)
  BY <1>1 DEF ParentClosed, Advance, HistoryInv
<1>2. tip'[b] = c /\ c # None
  BY DEF HistoryInv, Advance
<1>3. ASSUME NEW d \in DOMAIN chain'
      PROVE  \E a \in Branch : tip'[a] # None /\ Reaches(tip[a], d)'
  <2>1. CASE d = c
    <3>1. Reaches(tip[b], d)'
      BY <2>1, <1>2 DEF Reaches
    <3> QED BY <3>1, <1>2
  <2>2. CASE d # c
    <3>1. d \in DOMAIN chain
      BY <2>2 DEF Advance
    <3>2. PICK a \in Branch : tip[a] # None /\ Reaches(tip[a], d)
      BY <3>1 DEF HistoryInv, ChainReachable
    <3>3. CASE a # b
      <4>1. tip'[a] = tip[a]
        BY <3>3 DEF Advance, HistoryInv
      <4>2. Reaches(tip[a], d)'
        BY <4>1, <3>2, <1>1 DEF Reaches
      <4> QED BY <4>1, <4>2, <3>2
    <3>4. CASE a = b
      <4>1. ASSUME NEW S \in SUBSET Commit, c \in S, ParentClosed(S)'
            PROVE  d \in S
        <5>1. chain'[c] = tip[b] /\ c \in DOMAIN chain'
          BY DEF Advance
        <5>2. tip[b] \in S
          BY <4>1, <5>1, <3>2, <3>4 DEF ParentClosed
        <5>3. ParentClosed(S)
          BY <4>1, <1>1
        <5> QED BY <5>2, <5>3, <3>2, <3>4 DEF Reaches
      <4>2. Reaches(tip[b], d)'
        BY <4>1, <1>2 DEF Reaches
      <4> QED BY <4>2, <1>2
    <3> QED BY <3>3, <3>4
  <2> QED BY <2>1, <2>2
<1> QED BY <1>3 DEF ChainReachable

LEMMA HistoryStep ==
  ASSUME HistoryInv, [Next]_vars
  PROVE  HistoryInv'
<1>1. ASSUME NEW b \in Branch, NEW c \in Commit, Advance(b, c)
      PROVE  HistoryInv'
  <2>1. ChainReachable'
    BY <1>1, AdvanceKeepsReachable
  <2>2. tip' \in [Branch -> Commit \cup {None}]
    BY <1>1 DEF HistoryInv, Advance
  <2>3. DOMAIN chain' = DOMAIN chain \cup {c} /\ chain' \in [DOMAIN chain' -> Commit \cup {None}]
    BY <1>1 DEF HistoryInv, Advance
  <2>4. \A a \in Branch : tip'[a] # None => tip'[a] \in DOMAIN chain'
    BY <1>1, <2>3 DEF HistoryInv, Advance
  <2>5. acked' \subseteq DOMAIN chain'
    BY <1>1, <2>3 DEF HistoryInv, Advance
  <2> QED BY <2>1, <2>2, <2>3, <2>4, <2>5 DEF HistoryInv
<1>2. ASSUME NEW c \in Commit, Acknowledge(c)
      PROVE  HistoryInv'
  BY <1>2 DEF HistoryInv, Acknowledge, ChainReachable, Reaches, ParentClosed
<1>3. CASE UNCHANGED vars
  BY <1>3 DEF HistoryInv, vars, ChainReachable, Reaches, ParentClosed
<1> QED BY <1>1, <1>2, <1>3 DEF Next

(***************************************************************************)
(* In every behaviour of the atomic history, an acknowledged commit stays  *)
(* reachable from some branch.                                             *)
(***************************************************************************)
THEOREM HistoryKeepsAcked ==
  ASSUME None \notin Commit
  PROVE  Spec => [](ChainReachable /\ AckedReachable)
<1>1. Init => HistoryInv
  BY DEF Init, HistoryInv, ChainReachable
<1>2. HistoryInv /\ [Next]_vars => HistoryInv'
  BY HistoryStep
<1>3. HistoryInv => ChainReachable /\ AckedReachable
  BY DEF HistoryInv, ChainReachable, AckedReachable
<1> QED BY <1>1, <1>2, <1>3, PTL DEF Spec
=============================================================================
