-------------------------- MODULE KernelBoot_proofs --------------------------
(***************************************************************************)
(* Why an exception at any step of the boot ends where the properties of   *)
(* KernelBoot say: the step the boot is at determines every table, so an   *)
(* exception at that step meets the same obstacle whatever came before.    *)
(***************************************************************************)
EXTENDS KernelBoot, TLAPS

Modes == {"boot", "panic", "halted", "returned", "firmware", "reset"}

\* The steps of the boot, cut where interrupts are disabled, where the kernel's
\* GDT and where its IDT is loaded, and where interrupts are enabled again.
Enabled   == {"stdcharbmp", "panic", "cli"}
Firmware  == Enabled \cup {"gdt", "tss", "lgdt"}
Mixed     == {"idt", "lidt"}
Loaded    == {"ltr", "mask_pic", "sti"}
Served    == {"ppa", "vmm", "write", "halt"}
Kernel    == Loaded \cup Served
Steps     == Firmware \cup Mixed \cup Kernel

\* The tables, as the steps so far have left them.
TablesInv ==
  /\ tables \in [char_bitmap_table : SUBSET Chars, g_boot : BOOLEAN, g_gdt : BOOLEAN,
                 g_tss : BOOLEAN, g_idt : {<<>>, Gates}, gdtr : {"firmware", "kernel"},
                 idtr : {"firmware", "kernel"}, tr : BOOLEAN, pic : BOOLEAN]
  /\ pc # "stdcharbmp" => tables.char_bitmap_table = Chars \ {"star"}
  /\ tables.g_boot <=> pc \notin {"stdcharbmp", "panic"}
  /\ tables.g_gdt <=> pc \notin Enabled \cup {"gdt"}
  /\ tables.g_tss <=> pc \notin Enabled \cup {"gdt", "tss"}
  /\ pc \notin Firmware \cup {"idt"} => tables.g_idt = Gates
  /\ tables.gdtr = IF pc \in Firmware THEN "firmware" ELSE "kernel"
  /\ tables.idtr = IF pc \in Firmware \cup Mixed THEN "firmware" ELSE "kernel"
  /\ tables.tr <=> pc \in Kernel \ {"ltr"}
  /\ tables.pic <=> pc \notin Served \cup {"sti"}

BootInv ==
  /\ TablesInv
  /\ machine \in Machines /\ mode \in Modes /\ pc \in Steps
  /\ interrupts \in BOOLEAN /\ (interrupts => pc \in Enabled \cup Served)
  /\ mapped = IF pc \in {"write", "halt"} THEN machine.kernel ELSE machine.firmware

\* The kernel panics, and comes to rest, only under its own IDT; between the
\* IDT and the task register only a non-maskable interrupt brings it there.
PanicInv ==
  /\ mode = "panic" => pc \in Kernel
  /\ mode = "halted" => pc \in Kernel
  /\ mode = "panic" /\ pc = "ltr" => [vector |-> "NMI", pc |-> "ltr"] \in seen

IInv == BootInv /\ PanicInv /\ PanicHasCause /\ ResetHasCause

------------------------------------------------------------------------------

\* What an exception meets, at each step of the boot.
LEMMA Obstacles ==
  ASSUME BootInv
  PROVE  /\ pc \in Firmware => \A v \in Vectors : Obstacle(v) = "none"
         /\ pc \in Kernel => /\ Obstacle("NMI") = "none"
                             /\ Obstacle("NP") = "none"
                             /\ Obstacle("IRQ") = "NP"
         /\ pc \in Kernel \ {"ltr"} => Obstacle("PF") = "none"
<1> USE DEF BootInv, Obstacle, TablesInv, Vectors
<1>1. pc \in Firmware => \A v \in Vectors : Obstacle(v) = "none"
  BY DEF Firmware, Enabled, Kernel, Loaded, Served
<1>2. ASSUME pc \in Kernel
      PROVE  /\ tables.gdtr = "kernel" /\ tables.idtr = "kernel" /\ tables.g_gdt
             /\ tables.g_idt = Gates /\ tables.g_tss /\ tables.tr = (pc # "ltr")
  BY <1>2 DEF Firmware, Mixed, Enabled, Kernel, Loaded, Served
<1>3. /\ DOMAIN Gates = {"NMI", "DF", "TS", "NP", "GP", "PF"}
      /\ Gates["NMI"] = 0 /\ Gates["NP"] = 0
  BY DEF Gates
<1> QED
  BY <1>1, <1>2, <1>3

\* What each of them therefore ends in.
LEMMA Deliveries ==
  ASSUME BootInv
  PROVE  /\ "image" \in mapped /\ pc \notin Mixed => Delivered("NMI") # "reset"
         /\ "image" \in mapped /\ pc \in Kernel => Delivered("IRQ") # "reset"
         /\ "image" \in mapped /\ pc \in Kernel \ {"ltr"} => Delivered("PF") # "reset"
BY Obstacles DEF Delivered, Deliverable, Benign, BootInv, Steps, Vectors

\* Only under the kernel's IDT does an exception end in a panic.
LEMMA RaiseMode ==
  ASSUME BootInv, NEW v, Raise(v)
  PROVE  /\ mode' \in {"reset", "firmware", "panic"}
         /\ mode' = "reset" <=> Delivered(v) = "reset"
         /\ mode' = "panic" => pc \in Kernel
         /\ interrupts' = FALSE
BY DEF Raise, BootInv, TablesInv, Steps

\* Only the steps of the boot set up tables.
LEMMA TablesStay == ASSUME TablesInv, UNCHANGED <<pc, tables>> PROVE TablesInv'
BY DEF TablesInv

LEMMA InitInv == Init => IInv
BY DEF Init, IInv, BootInv, PanicInv, PanicHasCause, ResetHasCause, Steps, Modes, TablesInv,
       Firmware, Mixed, Enabled, Kernel, Loaded, Served

\* Each step of the boot keeps the invariant.
LEMMA BootStep ==
  ASSUME IInv, boot
  PROVE  IInv'
<1> USE DEF IInv, BootInv, PanicInv, PanicHasCause, ResetHasCause, Steps, Modes,
            Firmware, Mixed, Enabled, Kernel, Loaded, Served, Step, Set, running, panics
<1>1. CASE stdcharbmp_init
  BY <1>1 DEF stdcharbmp_init, TablesInv
<1>2. CASE panic_init
  BY <1>2 DEF panic_init, TablesInv
<1>3. CASE cli
  BY <1>3 DEF cli, TablesInv
<1>4. CASE build_table
  BY <1>4 DEF build_table, TablesInv
<1>5. CASE tss_init
  BY <1>5 DEF tss_init, TablesInv
<1>6. CASE lgdt
  BY <1>6 DEF lgdt, TablesInv
<1>7. CASE build_exceptions
  BY <1>7 DEF build_exceptions, TablesInv
<1>8. CASE lidt
  BY <1>8 DEF lidt, TablesInv
<1>9. CASE ltr
  BY <1>9 DEF ltr, TablesInv
<1>10. CASE mask_pic
  BY <1>10 DEF mask_pic, TablesInv
<1>11. CASE sti
  BY <1>11 DEF sti, TablesInv
<1>12. CASE ppa_init \/ ppa_init_fails
  BY <1>12 DEF ppa_init, ppa_init_fails, return_to_loader, TablesInv
<1>13. CASE vmm_init \/ vmm_init_fails
  BY <1>13 DEF vmm_init, vmm_init_fails, return_to_loader, TablesInv
<1>14. CASE write_bad \/ halt
  BY <1>14 DEF write_bad, halt, TablesInv
<1>15. CASE write_bad_faults
  <2> USE <1>15 DEF write_bad_faults
  <2>1. pc = "write" /\ "4GiB" \notin machine.kernel /\ [vector |-> "PF", pc |-> pc] \in seen'
    OBVIOUS
  <2>2. mode' = "reset" => "image" \notin mapped
    BY <2>1, RaiseMode, Deliveries
  <2> QED BY <2>1, <2>2, RaiseMode, TablesStay
<1> QED
  BY <1>1, <1>2, <1>3, <1>4, <1>5, <1>6, <1>7, <1>8, <1>9, <1>10, <1>11, <1>12, <1>13,
     <1>14, <1>15 DEF boot

\* Each step of a panic keeps the invariant.
LEMMA PanicStep ==
  ASSUME IInv, NEW p, NEW chars, NEW next, NEW rows, Panic(p, chars, next, rows)
  PROVE  IInv'
<1> USE DEF Panic, IInv
<1>1. BootInv /\ pc \in Kernel /\ UNCHANGED <<machine, pc, tables, mapped, seen>>
  BY DEF PanicInv
<1>2. CASE UNCHANGED <<mode, interrupts>>
  BY <1>1, <1>2, TablesStay DEF BootInv, PanicInv, PanicHasCause, ResetHasCause
<1>3. CASE Raise("PF") /\ ~(Touched(chars) \subseteq mapped)
  <2>1. BootInv' /\ PanicInv'
    BY <1>1, <1>3, RaiseMode, TablesStay DEF BootInv, PanicInv, Modes
  <2>2. PanicHasCause'
    BY <1>1 DEF PanicHasCause
  <2>3. ResetHasCause'
    <3>1. mode' = "reset" => "image" \notin mapped \/ pc = "ltr"
      BY <1>1, <1>3, RaiseMode, Deliveries
    <3>2. pc = "ltr" => "null" \notin mapped
      BY <1>1, <1>3 DEF Touched, BootInv, Machines
    <3> QED BY <1>1, <3>1, <3>2 DEF ResetHasCause, PanicInv
  <2> QED BY <2>1, <2>2, <2>3
<1> QED
  BY <1>2, <1>3

\* An interrupt keeps the invariant: a non-maskable one is a cause itself, and
\* an external one can only come from the local APIC.
LEMMA InterruptStep ==
  ASSUME IInv, non_maskable \/ external_interrupt
  PROVE  IInv'
<1> USE DEF IInv
<1>1. CASE non_maskable
  <2> USE <1>1 DEF non_maskable
  <2>1. /\ Raise("NMI") /\ UNCHANGED <<machine, pc, tables, mapped>> /\ seen \subseteq seen'
        /\ mode # "panic" => [vector |-> "NMI", pc |-> pc] \in seen'
    OBVIOUS
  <2>2. BootInv' /\ PanicInv'
    BY <2>1, RaiseMode, TablesStay DEF BootInv, PanicInv, Modes
  <2>3. PanicHasCause'
    BY <2>1 DEF PanicHasCause
  <2>4. ResetHasCause'
    <3>1. mode' = "reset" => "image" \notin mapped \/ pc \in Mixed
      BY <2>1, RaiseMode, Deliveries
    <3>2. pc \in Mixed => mode # "panic"
      BY DEF PanicInv, Mixed, Kernel, Loaded, Served
    <3> QED BY <2>1, <3>1, <3>2 DEF ResetHasCause, Mixed
  <2> QED BY <2>2, <2>3, <2>4
<1>2. CASE external_interrupt
  <2> USE <1>2 DEF external_interrupt
  <2>1. /\ Raise("IRQ") /\ UNCHANGED <<machine, pc, tables, mapped>> /\ seen \subseteq seen'
        /\ mode # "panic" /\ [vector |-> "IRQ", pc |-> pc] \in seen'
    OBVIOUS
  <2>2. pc \in Served /\ machine.lapic
    BY DEF BootInv, TablesInv, Firmware, Mixed, Served, Enabled
  <2>3. BootInv' /\ PanicInv'
    BY <2>1, <2>2, RaiseMode, TablesStay DEF BootInv, PanicInv, Modes, Served
  <2>4. PanicHasCause'
    BY <2>1, <2>2 DEF PanicHasCause
  <2>5. ResetHasCause'
    <3>1. mode' = "reset" => "image" \notin mapped
      BY <2>1, <2>2, RaiseMode, Deliveries DEF Kernel
    <3> QED BY <2>1, <3>1 DEF ResetHasCause
  <2> QED BY <2>3, <2>4, <2>5
<1> QED
  BY <1>1, <1>2

LEMMA StepInv == IInv /\ [Next]_vars => IInv'
<1> SUFFICES ASSUME IInv, [Next]_vars PROVE IInv'
  OBVIOUS
<1>1. CASE boot
  BY <1>1, BootStep
<1>2. CASE panic_clear \/ panic_title \/ panic_row
  BY <1>2, PanicStep DEF panic_clear, panic_title, panic_row
<1>3. CASE panic_halt
  BY <1>3, TablesStay DEF panic_halt, panics, IInv, BootInv, PanicInv, PanicHasCause, ResetHasCause, Modes
<1>4. CASE non_maskable \/ external_interrupt
  BY <1>4, InterruptStep
<1>5. CASE UNCHANGED vars
  BY <1>5, TablesStay DEF vars, IInv, BootInv, PanicInv, PanicHasCause, ResetHasCause
<1> QED
  BY <1>1, <1>2, <1>3, <1>4, <1>5 DEF Next, panic

LEMMA Invariance == Spec => []IInv
BY InitInv, StepInv, PTL DEF Spec

------------------------------------------------------------------------------
(* What follows for the boot of any machine.                               *)

\* Whichever step an exception interrupts, the panic it leads to has boot
\* information and the glyphs of its message: panic::init and stdcharbmp::init
\* come before the IDT that can lead there.
THEOREM ScreenReady == Spec => []PanicHasScreen
<1>1. IInv => PanicHasScreen
  BY DEF IInv, BootInv, PanicInv, PanicHasScreen, TablesInv, Kernel, Loaded, Served, Enabled,
         Chars, Row
<1> QED
  BY <1>1, Invariance, PTL

\* A panic comes from a non-maskable interrupt, the local APIC, or the write to an
\* address that is not mapped: the legacy controllers are silent before sti.
THEOREM PanicCaused == Spec => []PanicHasCause
<1>1. IInv => PanicHasCause
  BY DEF IInv
<1> QED
  BY <1>1, Invariance, PTL

\* A reset comes out of the gap between lgdt and ltr, or of page tables without
\* the kernel: everywhere else an exception finds a gate and a stack.
THEOREM ResetCaused == Spec => []ResetHasCause
<1>1. IInv => ResetHasCause
  BY DEF IInv
<1> QED
  BY <1>1, Invariance, PTL
==============================================================================
