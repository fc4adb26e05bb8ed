---------------------------- MODULE HandoffProofs ----------------------------
(***************************************************************************)
(* The contract of Handoff.tla is safe for any set of buffers.             *)
(***************************************************************************)
EXTENDS Handoff, TLAPS

\* of the two constants
Distinct == None \notin Buf

Safe == TypeOK /\ Exclusive

LEMMA SafeStep == ASSUME Distinct, Safe, [Next]_vars PROVE Safe'
<1> USE DEF Distinct, Safe, TypeOK, Exclusive, Party, Pass
<1>1. ASSUME NEW b \in Buf, StartFill(b) \/ EndFill(b)
      PROVE  Safe'
  BY <1>1 DEF StartFill, EndFill
<1>2. ASSUME NEW b \in Buf, Take(b) \/ GiveBack(b)
      PROVE  Safe'
  BY <1>2 DEF Take, GiveBack
<1>3. ASSUME NEW b \in Buf, Lend(b)
      PROVE  Safe'
  BY <1>3 DEF Lend
<1>4. ASSUME NEW b \in Buf, StartRead(b)
      PROVE  Safe'
  BY <1>4 DEF StartRead
<1>5. ASSUME NEW b \in Buf, Return(b)
      PROVE  Safe'
  BY <1>5 DEF Return
<1>6. CASE EndRead \/ Stop
  BY <1>6 DEF EndRead, Stop
<1>7. CASE UNCHANGED vars
  BY <1>7 DEF vars
<1> QED BY <1>1, <1>2, <1>3, <1>4, <1>5, <1>6, <1>7 DEF Next

(***************************************************************************)
(* In the contract the renderer only reads what was lent to it and the     *)
(* camera only writes what it owns.                                        *)
(***************************************************************************)
THEOREM ContractIsSafe == ASSUME Distinct PROVE Spec => []Safe
<1>1. Init => Safe
  BY DEF Distinct, Init, Safe, TypeOK, Exclusive, Party
<1>2. Safe /\ [Next]_vars => Safe'
  BY SafeStep
<1> QED BY <1>1, <1>2, PTL DEF Spec

(***************************************************************************)
(* Every buffer has an owner, and what is written or read is a buffer:     *)
(* also across a Stop, which takes the buffers from everybody at once.     *)
(***************************************************************************)
THEOREM ContractTypes == ASSUME Distinct PROVE Spec => []TypeOK
<1>1. Safe => TypeOK BY DEF Safe
<1> QED BY <1>1, ContractIsSafe, PTL

(***************************************************************************)
(* The camera never writes a buffer while the renderer reads it.           *)
(***************************************************************************)
THEOREM ContractExclusive == ASSUME Distinct PROVE Spec => []Exclusive
<1>1. Safe => Exclusive BY DEF Safe
<1> QED BY <1>1, ContractIsSafe, PTL
=============================================================================
