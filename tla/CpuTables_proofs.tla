--------------------------- MODULE CpuTables_proofs ---------------------------
(***************************************************************************)
(* Why a reset of the machine while its processors come up has one of two  *)
(* causes, for any number of application processors.                       *)
(*                                                                         *)
(* A processor between build_table and ltr needs the descriptor of the TSS *)
(* to stay as it wrote it.  Only another processor's ltr changes it, and   *)
(* that one has to be between build_table and ltr as well.                 *)
(***************************************************************************)
EXTENDS CpuTables, FiniteSetTheorems, TLAPS

Between == {"lgdt", "far", "ltr"}

Steps == {"cli", "gdt", "lidt", "sti", "running", "panic"} \cup Between

TypeInv ==
  /\ pc \in [Aps -> Steps] /\ tss_desc \in {"available", "busy"}
  /\ gdtr \subseteq Aps /\ idtr \subseteq Aps /\ interrupts \subseteq Aps
  /\ reset \in BOOLEAN /\ crowded \in BOOLEAN

\* While no two processors were between build_table and ltr, at most one is,
\* and it finds the descriptor it wrote.
AloneInv ==
  ~crowded => \A p \in Aps :
    pc[p] \in Between =>
      /\ tss_desc = "available"
      /\ \A q \in Aps : pc[q] \in Between => q = p

\* How far a processor is says which tables it has loaded, and that nothing
\* but a non-maskable interrupt can reach it while it has one without the other.
TablesInv ==
  \A p \in Aps :
    /\ p \in gdtr <=> pc[p] \notin {"cli", "gdt", "lgdt"}
    /\ p \in idtr <=> pc[p] \in {"sti", "running", "panic"}
    /\ p \in interrupts => pc[p] \in {"cli", "running"}

IInv == TypeInv /\ AloneInv /\ TablesInv /\ ApResetHasCause

\* Two members make a set of more than one.
LEMMA TwoMembers ==
  ASSUME NEW S, IsFiniteSet(S), NEW x \in S, NEW y \in S, x # y
  PROVE  Cardinality(S) > 1
<1>1. IsFiniteSet({x}) /\ Cardinality({x}) = 1
  BY FS_Singleton
<1>2. IsFiniteSet({x} \cup {y}) /\ Cardinality({x} \cup {y}) = 2
  BY <1>1, FS_AddElement
<1>3. Cardinality({x} \cup {y}) <= Cardinality(S) /\ Cardinality(S) \in Nat
  BY FS_Subset, FS_CardinalityType
<1> QED
  BY <1>2, <1>3

\* The history variable crowded says what its name says.
LEMMA NotCrowded ==
  ASSUME NEW p \in Aps, NEW from, NEW to, Step(p, from, to), ~crowded',
         NEW q \in Aps, NEW r \in Aps, pc'[q] \in Between, pc'[r] \in Between
  PROVE  q = r
<1> DEFINE B == {x \in Aps : pc'[x] \in Between}
<1>1. IsFiniteSet(B)
  BY ApsAssumption, FS_Subset
<1>2. ~(Cardinality(B) > 1)
  BY DEF Step, Between
<1> QED
  BY <1>1, <1>2, TwoMembers

LEMMA InitInv == Init => IInv
BY DEF Init, IInv, TypeInv, AloneInv, TablesInv, ApResetHasCause, Steps, Between

\* A processor goes on to its next step: the descriptor is left alone, or it is
\* written by build_table, or taken by ltr.
LEMMA StepAlone ==
  ASSUME IInv, NEW p \in Aps, NEW from, NEW to \in Steps, Step(p, from, to),
         \/ from \notin {"gdt", "ltr"} /\ tss_desc' = tss_desc
            /\ (to \in Between => from \in Between)
         \/ from = "gdt" /\ tss_desc' = "available"
         \/ from = "ltr" /\ to \notin Between
  PROVE  AloneInv'
<1> SUFFICES ASSUME ~crowded', NEW q \in Aps, pc'[q] \in Between
             PROVE  /\ tss_desc' = "available"
                    /\ \A r \in Aps : pc'[r] \in Between => r = q
  BY DEF AloneInv
<1>1. ~crowded /\ pc[p] = from /\ pc' = [pc EXCEPT ![p] = to]
  BY DEF Step
<1>2. \A r \in Aps : pc'[r] \in Between => r = q
  BY NotCrowded
<1>3. CASE from = "ltr" /\ to \notin Between
  BY <1>1, <1>3 DEF IInv, TypeInv, AloneInv, Between
<1>4. CASE from \notin {"gdt", "ltr"} /\ tss_desc' = tss_desc /\ (to \in Between => from \in Between)
  BY <1>1, <1>4 DEF IInv, TypeInv, AloneInv
<1> QED
  BY <1>2, <1>3, <1>4

\* An interrupt or a fault resets the machine only between lgdt and lidt.
LEMMA RaiseInv ==
  ASSUME IInv, NEW p \in Aps, Raise(p), stray \subseteq stray',
         reset' => crowded \/ \E e \in stray' :
                                e.vector = "NMI" /\ e.at \in {"far", "ltr", "lidt"}
  PROVE  IInv'
<1> USE DEF Raise
<1>1. TypeInv'
  BY DEF IInv, TypeInv, Steps
<1>2. AloneInv'
  BY DEF IInv, TypeInv, AloneInv, Between
<1>3. TablesInv'
  BY DEF IInv, TypeInv, TablesInv
<1>4. ApResetHasCause'
  BY DEF ApResetHasCause
<1> QED
  BY <1>1, <1>2, <1>3, <1>4 DEF IInv

LEMMA StepInv == IInv /\ [Next]_vars => IInv'
<1> SUFFICES ASSUME IInv, [Next]_vars PROVE IInv'
  OBVIOUS
<1>1. CASE UNCHANGED vars
  BY <1>1 DEF vars, IInv, TypeInv, AloneInv, TablesInv, ApResetHasCause
<1>2. ASSUME NEW p \in Aps, init_ap(p) PROVE IInv'
  <2> USE DEF Step, IInv, TypeInv, TablesInv, ApResetHasCause, Steps
  <2>1. CASE cli(p)
    BY <2>1, StepAlone DEF cli, Between
  <2>2. CASE build_table(p)
    BY <2>2, StepAlone DEF build_table, builds_table, Between
  <2>3. CASE lgdt(p)
    BY <2>3, StepAlone DEF lgdt, Between
  <2>4. CASE far_switch(p)
    BY <2>4, StepAlone DEF far_switch, Between
  <2>5. CASE ltr(p)
    BY <2>5, StepAlone DEF ltr, Between
  <2>6. CASE ltr_faults(p)
    <3>1. crowded
      BY <2>6 DEF ltr_faults, AloneInv, Between
    <3> QED BY <2>6, <3>1, RaiseInv DEF ltr_faults
  <2>7. CASE lidt(p)
    BY <2>7, StepAlone DEF lidt, Between
  <2>8. CASE sti(p)
    BY <2>8, StepAlone DEF sti, Between
  <2> QED
    BY <1>2, <2>1, <2>2, <2>3, <2>4, <2>5, <2>6, <2>7, <2>8 DEF init_ap
<1>3. ASSUME NEW p \in Aps, non_maskable(p) PROVE IInv'
  <2> DEFINE e == [at |-> pc[p], vector |-> "NMI"]
  <2>1. Raise(p) /\ e \in stray' /\ stray \subseteq stray' /\ ~reset
    BY <1>3 DEF non_maskable
  <2>2. reset' => pc[p] \in {"far", "ltr", "lidt"}
    BY <2>1 DEF Raise, IInv, TypeInv, TablesInv, Steps, Between
  <2> QED BY <2>1, <2>2, RaiseInv
<1>4. ASSUME NEW p \in Aps, external_interrupt(p) PROVE IInv'
  <2>1. Raise(p) /\ stray \subseteq stray' /\ p \in interrupts
    BY <1>4 DEF external_interrupt
  <2>2. ~reset'
    BY <2>1 DEF Raise, IInv, TablesInv
  <2> QED BY <2>1, <2>2, RaiseInv
<1> QED
  BY <1>1, <1>2, <1>3, <1>4 DEF Next

\* Any number of processors that come up one after another leave the machine
\* running, but for a non-maskable interrupt between lgdt and lidt of init_ap:
\* every ltr finds the descriptor as its own build_table wrote it.
THEOREM ResetCaused == Spec => []ApResetHasCause
<1>1. IInv => ApResetHasCause
  BY DEF IInv
<1> QED
  BY <1>1, InitInv, StepInv, PTL DEF Spec
==============================================================================
