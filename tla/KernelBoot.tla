----------------------------- MODULE KernelBoot -----------------------------
(***************************************************************************)
(* Kernel/src/KernelMain.cpp and what it calls: the boot of the kernel,    *)
(* one step per call (per processor table in cpu::init_bsp), and the path  *)
(* an exception takes from the processor through the gates of Idt.cpp and  *)
(* the handlers of Exception.cpp into panic::panic.                        *)
(*                                                                         *)
(* A non-maskable interrupt may come before any step, an external one      *)
(* while interrupts are enabled.  How the processor delivers them is       *)
(* modelled from its manual: a gate of the loaded IDT, whose code selector *)
(* must be one of the loaded GDT and whose stack one of the loaded TSS; an *)
(* exception met while delivering one is a double fault, then a reset.     *)
(* Memory management is here no more than what vmm::init leaves mapped;    *)
(* VirtualMemoryManager has the rest.                                      *)
(*                                                                         *)
(* seen is a history variable.                                             *)
(***************************************************************************)
EXTENDS Naturals

CONSTANT ROWS    \* the rows panic::panic writes below its title

VARIABLES
  machine,       \* what the boot depends on, fixed
  pc,            \* the next step of the boot
  mode,          \* "boot", "panic", "halted", "returned", "firmware", "reset"
  tables,        \* what stdcharbmp::init, panic::init and init_bsp set up: glyphs,
                 \* boot information, GDT, stacks of the TSS, gates; whose GDT and
                 \* IDT are loaded, whether the TSS is; the legacy PIC unmasked
  interrupts,    \* are enabled
  mapped,        \* the places of interest the loaded page tables map
  nmi,           \* a non-maskable interrupt came: none follows without iret
  at,            \* panic::panic: what it does next
  row,           \* panic::panic: the rows written
  seen           \* history: the interrupts and faults of the boot, and when

panics == <<at, row>>
vars == <<machine, pc, mode, tables, interrupts, mapped, nmi, panics, seen>>

\* Places: page 0, the kernel's image and stack, the frame buffer, and the
\* address 0x100000000 that k_main writes to.
Places == {"null", "image", "frameBuffer", "4GiB"}

\* bitmap, page: ppa::init gets a bitmap, vmm::init a page for its root table.
\* firmware: the places mapped at first; kernel: those vmm::init maps.
\* lapic: the local APIC has an interrupt to deliver.
Machines ==
  [bitmap : BOOLEAN, page : BOOLEAN, lapic : BOOLEAN, kernel : SUBSET Places,
   firmware : {{"image", "frameBuffer"}, {"image", "frameBuffer", "null"}}]

Chars == {"letter", "digit", "space", "colon", "star"}

Vectors == {"NMI", "DF", "TS", "NP", "GP", "PF", "IRQ"}
Benign  == {"NMI", "IRQ"}

\* The gates of the first 32 vectors, each with its stack: double faults and page
\* faults have stacks of their own.  All other gates are left not present.
Gates == [v \in Vectors \ {"IRQ"} |-> CASE v = "DF" -> 1 [] v = "PF" -> 2 [] OTHER -> 0]

------------------------------------------------------------------------------
(* The processor.                                                          *)

\* What goes wrong when v is delivered: "none" if nothing does.
Obstacle(v) ==
  IF tables.gdtr # tables.idtr \/ (tables.gdtr = "kernel" /\ ~tables.g_gdt) THEN "GP"
  ELSE IF tables.idtr = "firmware" THEN "none"
  ELSE IF v \notin DOMAIN tables.g_idt THEN "NP"
  ELSE IF tables.g_idt[v] # 0 /\ ~(tables.tr /\ tables.g_tss) THEN "TS"
  ELSE "none"

Deliverable(v) == Obstacle(v) = "none"

\* The vector that reaches a handler in the end, or "reset".
Delivered(v) ==
  IF "image" \notin mapped THEN "reset"
  ELSE IF Deliverable(v) THEN v
  ELSE IF v \in Benign /\ Deliverable(Obstacle(v)) THEN Obstacle(v)
  ELSE IF Deliverable("DF") THEN "DF"
  ELSE "reset"

\* The gates are interrupt gates: they disable interrupts, as does the panic.
\* Each handler of the kernel goes into panic::panic and stays there; the
\* firmware's stay in the firmware.
Raise(v) ==
  /\ mode' = IF Delivered(v) = "reset" THEN "reset"
             ELSE IF tables.idtr = "firmware" THEN "firmware" ELSE "panic"
  /\ at' = "clear"
  /\ row' = 0
  /\ interrupts' = FALSE

non_maskable ==
  /\ mode \in {"boot", "panic", "halted"} /\ ~nmi
  /\ nmi' = TRUE
  /\ Raise("NMI")
  /\ seen' = IF mode = "panic" THEN seen ELSE seen \cup {[vector |-> "NMI", pc |-> pc]}
  /\ UNCHANGED <<machine, pc, tables, mapped>>

\* Before cpu::init_bsp the firmware serves its interrupts and returns.
external_interrupt ==
  /\ mode \in {"boot", "halted"} /\ interrupts /\ (machine.lapic \/ tables.pic)
  /\ ~(tables.idtr = "firmware" /\ tables.gdtr = "firmware")
  /\ Raise("IRQ")
  /\ seen' = seen \cup {[vector |-> "IRQ", pc |-> pc]}
  /\ UNCHANGED <<machine, pc, tables, mapped, nmi>>

------------------------------------------------------------------------------
(* KernelMain.cpp: init and k_main                                         *)

Init ==
  /\ machine \in Machines
  /\ pc = "stdcharbmp" /\ mode = "boot"
  /\ tables = [char_bitmap_table |-> {}, g_boot |-> FALSE, g_gdt |-> FALSE,
               g_tss |-> FALSE, g_idt |-> <<>>, gdtr |-> "firmware", idtr |-> "firmware",
               tr |-> FALSE, pic |-> TRUE]
  /\ interrupts \in BOOLEAN
  /\ mapped = machine.firmware
  /\ nmi = FALSE /\ at = "clear" /\ row = 0 /\ seen = {}

Step(p, q) == mode = "boot" /\ pc = p /\ pc' = q

running == <<machine, mode, nmi, panics, seen>>

Set(p, q, t) == Step(p, q) /\ tables' = t /\ UNCHANGED <<running, interrupts, mapped>>

stdcharbmp_init ==
  Set("stdcharbmp", "panic", [tables EXCEPT !.char_bitmap_table = Chars \ {"star"}])

\* Faulty variant: the panic's boot information is not kept.
panic_init_not == Set("panic", "cli", tables)

panic_init == Set("panic", "cli", [tables EXCEPT !.g_boot = TRUE])

\* Faulty variant: interrupts stay as they were.
cli_not == Set("cli", "gdt", tables)

cli ==
  /\ Step("cli", "gdt")
  /\ interrupts' = FALSE
  /\ UNCHANGED <<running, tables, mapped>>

build_table == Set("gdt", "tss", [tables EXCEPT !.g_gdt = TRUE])

\* The stacks of double faults and page faults.
tss_init == Set("tss", "lgdt", [tables EXCEPT !.g_tss = TRUE])

lgdt == Set("lgdt", "idt", [tables EXCEPT !.gdtr = "kernel"])

build_exceptions == Set("idt", "lidt", [tables EXCEPT !.g_idt = Gates])

lidt == Set("lidt", "ltr", [tables EXCEPT !.idtr = "kernel"])

\* With cpu_far_switch, which reloads selectors no exception depends on.
ltr == Set("ltr", "mask_pic", [tables EXCEPT !.tr = TRUE])

\* Faulty variant: the legacy controllers stay unmasked.
mask_pic_not == Set("mask_pic", "sti", tables)

mask_pic == Set("mask_pic", "sti", [tables EXCEPT !.pic = FALSE])

\* Interrupts are enabled with no gate for any of them.
sti ==
  /\ Step("sti", "ppa")
  /\ interrupts' = TRUE
  /\ UNCHANGED <<running, tables, mapped>>

\* k_main returns to the loader, that to a firmware without boot services.
return_to_loader ==
  /\ mode' = "returned"
  /\ UNCHANGED <<machine, pc, tables, interrupts, mapped, nmi, panics, seen>>

ppa_init_fails ==
  /\ mode = "boot" /\ pc = "ppa" /\ ~machine.bitmap
  /\ return_to_loader

\* After dfw::init, whose only failure is a second call.
ppa_init ==
  /\ Step("ppa", "vmm") /\ machine.bitmap
  /\ UNCHANGED <<running, tables, interrupts, mapped>>

vmm_init_fails ==
  /\ mode = "boot" /\ pc = "vmm" /\ ~machine.page
  /\ return_to_loader

\* A kernel that does not map itself does not get to the next instruction.
vmm_init ==
  /\ mode = "boot" /\ pc = "vmm" /\ machine.page
  /\ mapped' = machine.kernel
  /\ pc' = "write"
  /\ mode' = IF "image" \in machine.kernel THEN "boot" ELSE "reset"
  /\ UNCHANGED <<machine, tables, interrupts, nmi, panics, seen>>

\* *bad = 0xDEADBEEF
write_bad ==
  /\ Step("write", "halt") /\ "4GiB" \in mapped
  /\ UNCHANGED <<running, tables, interrupts, mapped>>

write_bad_faults ==
  /\ mode = "boot" /\ pc = "write" /\ "4GiB" \notin mapped
  /\ Raise("PF")
  /\ seen' = seen \cup {[vector |-> "PF", pc |-> pc]}
  /\ UNCHANGED <<machine, pc, tables, mapped, nmi>>

halt ==
  /\ mode = "boot" /\ pc = "halt"
  /\ mode' = "halted"
  /\ UNCHANGED <<machine, pc, tables, interrupts, mapped, nmi, panics, seen>>

------------------------------------------------------------------------------
(* PanicFrameWriter.cpp: panic                                             *)

Title == {"star", "space", "letter"}
Row   == {"letter", "digit", "space", "colon"}

\* What panic::panic touches: the frame buffer, unless it has no boot
\* information, and page 0 for a character that has no glyph.
Touched(chars) ==
  IF ~tables.g_boot THEN {}
  ELSE {"frameBuffer"} \cup (IF chars \subseteq tables.char_bitmap_table THEN {} ELSE {"null"})

\* One action of the panic: it goes on, or faults and starts over.
Panic(p, chars, next, rows) ==
  /\ mode = "panic" /\ at = p
  /\ IF Touched(chars) \subseteq mapped
     THEN at' = next /\ row' = rows /\ UNCHANGED <<mode, interrupts>>
     ELSE Raise("PF")
  /\ UNCHANGED <<machine, pc, tables, mapped, nmi, seen>>

panic_clear == Panic("clear", {}, "title", row)
panic_title == Panic("title", Title, "rows", row)

\* Faulty variant: the row is not counted.
panic_row_again == row < ROWS /\ Panic("rows", Row, "rows", row)

panic_row == row < ROWS /\ Panic("rows", Row, "rows", row + 1)

panic_halt ==
  /\ mode = "panic" /\ at = "rows" /\ row = ROWS
  /\ mode' = "halted"
  /\ UNCHANGED <<machine, pc, tables, interrupts, mapped, nmi, panics, seen>>

------------------------------------------------------------------------------

boot ==
  \/ stdcharbmp_init \/ panic_init \/ cli \/ build_table \/ tss_init \/ lgdt
  \/ build_exceptions \/ lidt \/ ltr \/ mask_pic \/ sti
  \/ ppa_init \/ ppa_init_fails \/ vmm_init \/ vmm_init_fails
  \/ write_bad \/ write_bad_faults \/ halt

panic == panic_clear \/ panic_title \/ panic_row \/ panic_halt

Next == boot \/ panic \/ non_maskable \/ external_interrupt

\* The processor executes its next instruction; interrupts need never come.
Spec == Init /\ [][Next]_vars /\ WF_vars(boot \/ panic)

------------------------------------------------------------------------------
(* Properties                                                              *)

\* A panic finds what it writes with: whichever fault brings the kernel there,
\* at whichever step, panic::init and stdcharbmp::init have run and the message
\* does not vanish in draw_string's early return.
PanicHasScreen == mode = "panic" => tables.g_boot /\ Row \subseteq tables.char_bitmap_table

\* Whatever brings the processor into a panic came from outside or from the one
\* deliberate write: a non-maskable interrupt, the local APIC (the only source
\* of interrupts left after mask_pic), or 0x100000000 not being mapped.
PanicHasCause ==
  mode = "panic" =>
    \E e \in seen : \/ e.vector = "NMI"
                    \/ e.vector = "IRQ" /\ machine.lapic
                    \/ e.vector = "PF" /\ "4GiB" \notin machine.kernel

\* The machine is reset only out of the gap cpu::init_bsp leaves between its
\* first and its last table: by a non-maskable interrupt with the kernel's GDT
\* under the firmware's IDT, or by one before ltr whose panic, for want of page
\* 0, faults on a stack no TSS provides.  Or by page tables without the kernel.
ResetHasCause ==
  mode = "reset" =>
    \/ "image" \notin mapped
    \/ \E e \in seen : /\ e.vector = "NMI"
                       /\ \/ e.pc \in {"idt", "lidt"}
                          \/ e.pc = "ltr" /\ "null" \notin mapped

\* A panic comes to rest, its message written, if the frame buffer is mapped and
\* page 0 is: the title's asterisks have no glyph and are read from there.
PanicEnds ==
  (mode = "panic" /\ {"null", "frameBuffer"} \subseteq mapped) ~> (mode = "halted")
============================================================================
