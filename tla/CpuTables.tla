------------------------------ MODULE CpuTables ------------------------------
(***************************************************************************)
(* cpu::init_ap of Cpu.cpp on the application processors, after init_bsp   *)
(* on the first: each rebuilds the one table of descriptors, which its     *)
(* neighbours have loaded or are about to, and loads the one TSS in it.    *)
(* Nothing calls init_ap yet; the processors are started in the code's     *)
(* intended way, each once and whenever it likes.                          *)
(*                                                                         *)
(* From the processor's manual: ltr marks the descriptor busy in memory    *)
(* and faults when it finds it so; a non-maskable interrupt or a fault     *)
(* needs an IDT that goes with the GDT loaded, or the machine is reset.    *)
(*                                                                         *)
(* stray and crowded are history variables.                                *)
(***************************************************************************)
EXTENDS Naturals, FiniteSets

CONSTANT Aps     \* the application processors

ASSUME ApsAssumption == IsFiniteSet(Aps)

VARIABLES
  pc,            \* the next step of init_ap on each processor
  tss_desc,      \* g_gdt[3], the descriptor of the TSS
  gdtr, idtr,    \* the processors that have loaded the kernel's GDT and IDT
  interrupts,    \* the processors with interrupts enabled
  reset,         \* the machine was reset
  stray,         \* history: the interrupts that came, by step of init_ap
  crowded        \* history: two processors were between build_table and ltr

vars == <<pc, tss_desc, gdtr, idtr, interrupts, reset, stray, crowded>>

\* init_bsp has loaded the task register.
Init ==
  /\ pc = [p \in Aps |-> "cli"]
  /\ tss_desc = "busy"
  /\ gdtr = {} /\ idtr = {}
  /\ interrupts \in SUBSET Aps
  /\ reset = FALSE /\ stray = {} /\ crowded = FALSE

Step(p, from, to) ==
  /\ ~reset /\ pc[p] = from
  /\ pc' = [pc EXCEPT ![p] = to]
  /\ crowded' = (crowded \/ Cardinality({q \in Aps : pc'[q] \in {"lgdt", "far", "ltr"}}) > 1)

cli(p) ==
  /\ Step(p, "cli", "gdt")
  /\ interrupts' = interrupts \ {p}
  /\ UNCHANGED <<tss_desc, gdtr, idtr, reset, stray>>

builds_table(p, desc) ==
  /\ Step(p, "gdt", "lgdt")
  /\ tss_desc' = desc
  /\ UNCHANGED <<gdtr, idtr, interrupts, reset, stray>>

\* Faulty variant: the table init_bsp made is taken as it is.
build_table_not(p) == builds_table(p, tss_desc)

\* The descriptor is written anew, and available.
build_table(p) == builds_table(p, "available")

lgdt(p) ==
  /\ Step(p, "lgdt", "far")
  /\ gdtr' = gdtr \cup {p}
  /\ UNCHANGED <<tss_desc, idtr, interrupts, reset, stray>>

far_switch(p) ==
  /\ Step(p, "far", "ltr")
  /\ UNCHANGED <<tss_desc, gdtr, idtr, interrupts, reset, stray>>

ltr(p) ==
  /\ Step(p, "ltr", "lidt") /\ tss_desc = "available"
  /\ tss_desc' = "busy"
  /\ UNCHANGED <<gdtr, idtr, interrupts, reset, stray>>

lidt(p) ==
  /\ Step(p, "lidt", "sti")
  /\ idtr' = idtr \cup {p}
  /\ UNCHANGED <<tss_desc, gdtr, interrupts, reset, stray>>

sti(p) ==
  /\ Step(p, "sti", "running")
  /\ interrupts' = interrupts \cup {p}
  /\ UNCHANGED <<tss_desc, gdtr, idtr, reset, stray>>

\* With the kernel's tables a panic, with the start-up code's its business.
Raise(p) ==
  /\ reset' = (p \in gdtr /\ p \notin idtr)
  /\ pc' = [pc EXCEPT ![p] = IF p \in idtr THEN "panic" ELSE @]
  /\ interrupts' = IF p \in idtr THEN interrupts \ {p} ELSE interrupts
  /\ UNCHANGED <<tss_desc, gdtr, idtr, crowded>>

\* General protection: the descriptor is in use.
ltr_faults(p) ==
  /\ ~reset /\ pc[p] = "ltr" /\ tss_desc = "busy"
  /\ Raise(p)
  /\ UNCHANGED stray

non_maskable(p) ==
  /\ ~reset /\ pc[p] # "panic" /\ [at |-> pc[p], vector |-> "NMI"] \notin stray
  /\ Raise(p)
  /\ stray' = stray \cup {[at |-> pc[p], vector |-> "NMI"]}

external_interrupt(p) ==
  /\ ~reset /\ p \in interrupts
  /\ Raise(p)
  /\ stray' = stray \cup {[at |-> pc[p], vector |-> "IRQ"]}

init_ap(p) ==
  cli(p) \/ build_table(p) \/ lgdt(p) \/ far_switch(p) \/ ltr(p) \/ ltr_faults(p) \/ lidt(p) \/ sti(p)

Next == \E p \in Aps : init_ap(p) \/ non_maskable(p) \/ external_interrupt(p)

Spec == Init /\ [][Next]_vars

------------------------------------------------------------------------------
(* Properties                                                              *)

\* Processors that come up one after another never meet a busy TSS, since each
\* makes it available again: the machine is reset only when two of them were
\* between build_table and ltr at once, or by a non-maskable interrupt between
\* lgdt and lidt, which init_ap keeps further apart than init_bsp.
ApResetHasCause ==
  reset => crowded \/ \E e \in stray : e.vector = "NMI" /\ e.at \in {"far", "ltr", "lidt"}
==============================================================================
