------------------------------ MODULE AhciDriver ------------------------------
(***************************************************************************)
(* Kernel/src/kernel/driver/Ahci.cpp, namespace ahci, next to the port of  *)
(* the host bus adapter it drives: one driver thread that polls registers, *)
(* and a device that starts, fetches commands from memory, transfers,      *)
(* completes or fails when it likes.  The device is external, modelled as  *)
(* the AHCI specification describes it; whether a completion clears PxCI   *)
(* or raises the D2H interrupt first differs between devices.              *)
(*                                                                         *)
(* The answer of pci::find_ahci_hba_base is an input: it is what the rest  *)
(* of the driver is written for.  Reading and writing a disk differ in two *)
(* bits of the command and are not told apart.  A polling loop with a      *)
(* limit may give up at any iteration; one without never does.             *)
(*                                                                         *)
(* outcome and executed are history variables.                             *)
(***************************************************************************)
EXTENDS Integers, FiniteSets

CONSTANTS
  FreePages,    \* the sets of pages ppa::alloc may have to give
  Counts,       \* the sector counts callers ask for
  SECTOR,       \* bytes per sector: 512
  DBC_RANGE,    \* bytes a PRDT entry can cover: 2^22
  COUNT_RANGE,  \* sectors a FIS can ask for: 2^16
  MaxCalls,     \* bound on the disk requests
  MaxInits      \* bound on the calls of ahci::init

\* ppa::alloc gives no page 0: the loader has marked it used.
ASSUME PagesAssumption ==
  \A pages \in FreePages : pages \subseteq Nat \ {0} /\ IsFiniteSet(pages)

ASSUME WidthAssumption ==
  /\ SECTOR \in Nat \ {0} /\ DBC_RANGE \in Nat \ {0} /\ COUNT_RANGE \in Nat \ {0}
  /\ DBC_RANGE % SECTOR = 0 /\ DBC_RANGE <= SECTOR * COUNT_RANGE
  /\ Counts \subseteq Nat /\ MaxCalls \in Nat

VARIABLES
  free, inits,
  g_hba, g_port, g_clb_phys, g_fb_phys, g_ctba_phys,
  usable,       \* what the last call of init returned
  pc,           \* the step the driver is at; "idle" between calls
  id, cnt,      \* the number of the disk request and its sector count
  is,           \* the interrupt status wait_complete has read
  memory,       \* command headers and command tables, by page
  linked,       \* a device answers at the port (PxSSTS)
  cmd,          \* PxCMD: ST and FRE as written, CR and FR as running
  isr,          \* PxIS
  ci,           \* PxCI, bit 0
  busy,         \* PxTFD.BSY or DRQ, as a device that answers reports it
  clb,          \* PxCLB
  exec,         \* the command the device works on
  ending,       \* what is left of its completion: "CI", "DHRS"
  halted,       \* the device stopped at an error
  outcome,      \* history: how each disk request ended
  executed      \* history: the requests whose command the device completed

statics == <<free, inits, g_hba, g_port, g_clb_phys, g_fb_phys, g_ctba_phys, usable>>
call    == <<id, cnt, is>>
engine  == <<clb, exec, ending, halted>>
regs    == <<cmd, isr, ci, busy>>
history == <<outcome, executed>>
vars == <<statics, call, pc, memory, linked, engine, regs, history>>

Requests == 1..MaxCalls
Lowest(S) == CHOOSE p \in S : \A q \in S : p <= q

\* What lies in a page: the memory of a page just allocated is anything, a page
\* being rewritten is zero.  A header names its table, a table the bytes its
\* PRDT entry covers and the sectors its FIS asks for.
Content(n, ctba, bytes, sectors) ==
  [id |-> n, ctba |-> ctba, bytes |-> bytes, sectors |-> sectors]
Zero    == Content(0, 0, 0, 0)
Garbage == Content(-1, 0, 0, 0)
NoCommand == [header |-> Zero, table |-> Zero, stage |-> "none"]

\* bits 0..7 and 30 of PxIS, of which the device raises DHRS and TFES.
IS_ERR_MASK == {"DHRS", "TFES"}

Init ==
  /\ free \in FreePages /\ inits = 0
  /\ g_hba = FALSE /\ g_port = -1
  /\ g_clb_phys = 0 /\ g_fb_phys = 0 /\ g_ctba_phys = 0
  /\ usable = FALSE
  /\ pc = "idle" /\ id = 0 /\ cnt = 0 /\ is = {}
  /\ memory = [p \in free \cup {0} |-> Garbage]
  /\ linked \in BOOLEAN
  /\ cmd = {} /\ isr = {} /\ ci = FALSE /\ busy \in BOOLEAN /\ clb = 0
  /\ exec = NoCommand /\ ending = {} /\ halted = FALSE
  /\ outcome = [r \in Requests |-> "none"] /\ executed = {}

Step(from, to) == pc = from /\ pc' = to
Pass(from, to) ==
  Step(from, to) /\ UNCHANGED <<statics, call, memory, linked, engine, regs, history>>

------------------------------------------------------------------------------
(* ahci::init                                                              *)

\* init fails, wherever it has got to.
InitFails == pc' = "idle" /\ usable' = FALSE

init_call ==
  /\ Step("idle", "init_find") /\ inits < MaxInits
  /\ inits' = inits + 1
  /\ linked' \in BOOLEAN
  /\ UNCHANGED <<free, g_hba, g_port, g_clb_phys, g_fb_phys, g_ctba_phys, usable,
                 call, memory, engine, regs, history>>

\* The adapter and the first port with a device.  A port found by an earlier
\* call stays in g_port when no port has a device now.
init_find ==
  /\ pc = "init_find"
  /\ g_hba' \in BOOLEAN
  /\ g_port' = IF g_hba' /\ linked THEN 0 ELSE g_port
  /\ IF g_hba' /\ g_port' >= 0
     THEN pc' = "init_alloc" /\ UNCHANGED usable ELSE InitFails
  /\ UNCHANGED <<free, inits, g_clb_phys, g_fb_phys, g_ctba_phys, call, memory, linked,
                 engine, regs, history>>

init_alloc ==
  /\ Step("init_alloc", "init_stop") /\ Cardinality(free) >= 3
  /\ g_clb_phys' = Lowest(free)
  /\ g_fb_phys' = Lowest(free \ {g_clb_phys'})
  /\ g_ctba_phys' = Lowest(free \ {g_clb_phys', g_fb_phys'})
  /\ free' = free \ {g_clb_phys', g_fb_phys', g_ctba_phys'}
  /\ UNCHANGED <<inits, g_hba, g_port, usable, call, memory, linked, engine, regs, history>>

\* Fewer pages than three: those it got are neither used nor given back.
init_alloc_fails ==
  /\ pc = "init_alloc" /\ Cardinality(free) < 3
  /\ g_clb_phys' = IF free = {} THEN 0 ELSE Lowest(free)
  /\ g_fb_phys' = IF Cardinality(free) < 2 THEN 0 ELSE Lowest(free \ {g_clb_phys'})
  /\ g_ctba_phys' = 0
  /\ free' = {}
  /\ InitFails
  /\ UNCHANGED <<inits, g_hba, g_port, call, memory, linked, engine, regs, history>>

stops(bits) ==
  /\ Step("init_stop", "init_wait")
  /\ cmd' = cmd \ bits
  /\ ci' = FALSE
  /\ UNCHANGED <<statics, call, memory, linked, engine, isr, busy, history>>

\* Faulty variant: FRE is left set.
init_stop_leaves_fre == stops({"ST"})

\* Clearing ST clears PxCI at once; the engine stops when it does.
init_stop == stops({"ST", "FRE"})

\* Faulty variant: the engine is not waited for.
init_wait_not == Pass("init_wait", "init_program")

init_wait == Pass("init_wait", "init_program") /\ cmd \cap {"CR", "FR"} = {}

init_program ==
  /\ Step("init_program", "init_clear")
  /\ clb' = g_clb_phys
  /\ UNCHANGED <<statics, call, memory, linked, exec, ending, halted, regs, history>>

init_clear ==
  /\ Step("init_clear", "init_fre")
  /\ isr' = {}
  /\ UNCHANGED <<statics, call, memory, linked, engine, cmd, ci, busy, history>>

init_fre ==
  /\ Step("init_fre", "init_st")
  /\ cmd' = cmd \cup {"FRE"}
  /\ UNCHANGED <<statics, call, memory, linked, engine, isr, ci, busy, history>>

init_st ==
  /\ Step("init_st", "init_ready")
  /\ cmd' = cmd \cup {"ST"}
  /\ UNCHANGED <<statics, call, memory, linked, engine, isr, ci, busy, history>>

\* PxTFD as the driver reads it; without a device DRQ reads as one.
Busy == busy \/ ~linked

init_ready ==
  /\ Step("init_ready", "idle")
  /\ usable' = ~Busy
  /\ UNCHANGED <<free, inits, g_hba, g_port, g_clb_phys, g_fb_phys, g_ctba_phys,
                 call, memory, linked, engine, regs, history>>

------------------------------------------------------------------------------
(* issue, called by read_disk_sectors and write_disk_sectors.              *)

Return(result) == pc' = "idle" /\ outcome' = [outcome EXCEPT ![id] = result]

issue ==
  /\ Step("idle", "ready") /\ usable /\ id < MaxCalls
  /\ id' = id + 1
  /\ cnt' \in Counts
  /\ is' = {}
  /\ UNCHANGED <<statics, memory, linked, engine, regs, history>>

issue_ready == Pass("ready", "zero_header") /\ ~Busy

issue_not_ready ==
  /\ pc = "ready" /\ Busy
  /\ Return("failure")
  /\ UNCHANGED <<statics, call, memory, linked, engine, regs, executed>>

\* The two pages are zeroed and filled in, whatever the device does meanwhile.
Write(page, content) ==
  /\ memory' = [memory EXCEPT ![page] = content]
  /\ UNCHANGED <<statics, call, linked, engine, regs, history>>

\* Faulty variant: the byte count is not decremented.
prd_bytes_not_decremented(n) == ((n * SECTOR) % DBC_RANGE) + 1

\* dbc_ioc holds the count less one, of which the device uses 22 bits; a FIS
\* with a count of 0 asks for 65536 sectors.
prd_bytes(n) == ((n * SECTOR - 1) % DBC_RANGE) + 1
fis_sectors(n) == IF n % COUNT_RANGE = 0 THEN COUNT_RANGE ELSE n % COUNT_RANGE

zero_header == Step("zero_header", "header") /\ Write(g_clb_phys, Zero)
fill_header == Step("header", "zero_table") /\ Write(g_clb_phys, Content(id, g_ctba_phys, 0, 0))
zero_table  == Step("zero_table", "table") /\ Write(g_ctba_phys, Zero)
fill_table  ==
  /\ Step("table", "wait_ci")
  /\ Write(g_ctba_phys, Content(id, 0, prd_bytes(cnt), fis_sectors(cnt)))

\* Faulty variant: the slot is not waited for.
wait_slot_not == Pass("wait_ci", "clear_is")

\* The slot is waited for after its memory was rewritten, and without a limit.
wait_slot == Pass("wait_ci", "clear_is") /\ ~ci

clear_is ==
  /\ Step("clear_is", "set_ci")
  /\ isr' = {}
  /\ UNCHANGED <<statics, call, memory, linked, engine, cmd, ci, busy, history>>

\* PxCI can be set only while ST is.
set_ci ==
  /\ Step("set_ci", "read_is")
  /\ ci' = ("ST" \in cmd)
  /\ UNCHANGED <<statics, call, memory, linked, engine, cmd, isr, busy, history>>

\* wait_complete reads PxIS first and PxCI after it.
read_is ==
  /\ Step("read_is", "read_ci")
  /\ is' = isr
  /\ UNCHANGED <<statics, id, cnt, memory, linked, engine, regs, history>>

again == Pass("read_ci", "read_is") /\ is \cap IS_ERR_MASK = {} /\ ci

\* A bit of the mask is set, or the loop gives up with the command still there.
wait_fails ==
  /\ pc = "read_ci" /\ (is \cap IS_ERR_MASK # {} \/ ci)
  /\ Return("failure")
  /\ UNCHANGED <<statics, call, memory, linked, engine, regs, executed>>

\* Faulty variant: PxCI is not looked at.
wait_succeeds_early == Pass("read_ci", "finish") /\ is \cap IS_ERR_MASK = {}

wait_succeeds == Pass("read_ci", "finish") /\ is \cap IS_ERR_MASK = {} /\ ~ci

finish ==
  /\ pc = "finish"
  /\ isr' = {}
  /\ Return("success")
  /\ UNCHANGED <<statics, call, memory, linked, engine, cmd, ci, busy, executed>>

------------------------------------------------------------------------------
(* The device.                                                             *)

driverSide == <<statics, call, pc, memory, linked, outcome>>

dev_runs ==
  /\ \/ "FRE" \in cmd /\ "FR" \notin cmd /\ cmd' = cmd \cup {"FR"}
     \/ "ST" \in cmd /\ "CR" \notin cmd /\ cmd' = cmd \cup {"CR"}
  /\ UNCHANGED <<driverSide, engine, isr, ci, busy, executed>>

\* Stopping abandons the command; a device in the middle of it may stay busy.
dev_stops ==
  /\ "ST" \notin cmd /\ "CR" \in cmd
  /\ cmd' = cmd \ {"CR"}
  /\ busy' \in {FALSE, busy}
  /\ exec' = NoCommand /\ ending' = {} /\ halted' = FALSE
  /\ UNCHANGED <<driverSide, clb, isr, ci, executed>>

dev_stops_receiving ==
  /\ cmd \cap {"FRE", "CR"} = {} /\ "FR" \in cmd
  /\ cmd' = cmd \ {"FR"}
  /\ UNCHANGED <<driverSide, engine, isr, ci, busy, executed>>

\* The signature FIS of a device that comes up ends its first busy phase.
dev_comes_up ==
  /\ linked /\ busy /\ exec = NoCommand /\ "FR" \in cmd
  /\ busy' = FALSE
  /\ UNCHANGED <<driverSide, engine, cmd, isr, ci, executed>>

dev_fetches_header ==
  /\ linked /\ ci /\ {"ST", "CR"} \subseteq cmd /\ ~halted /\ ~busy
  /\ exec = NoCommand /\ ending = {}
  /\ exec' = [NoCommand EXCEPT !.header = memory[clb], !.stage = "header"]
  /\ UNCHANGED <<driverSide, clb, ending, halted, regs, executed>>

dev_fetches_table ==
  /\ exec.stage = "header"
  /\ exec' = [exec EXCEPT !.table = memory[exec.header.ctba], !.stage = "transfer"]
  /\ busy' = TRUE
  /\ UNCHANGED <<driverSide, clb, ending, halted, cmd, isr, ci, executed>>

Whole(c) == c.header.id = c.table.id /\ c.table.id \in Requests

dev_completes ==
  /\ exec.stage = "transfer"
  /\ exec' = NoCommand
  /\ busy' = FALSE
  /\ ending' = {"CI", "DHRS"}
  /\ executed' = executed \cup (IF Whole(exec) THEN {exec.table.id} ELSE {})
  /\ UNCHANGED <<driverSide, clb, halted, cmd, isr, ci>>

dev_clears_ci ==
  /\ "CI" \in ending
  /\ ci' = FALSE
  /\ ending' = ending \ {"CI"}
  /\ UNCHANGED <<driverSide, clb, exec, halted, cmd, isr, busy, executed>>

dev_interrupts ==
  /\ "DHRS" \in ending
  /\ isr' = isr \cup {"DHRS"}
  /\ ending' = ending \ {"DHRS"}
  /\ UNCHANGED <<driverSide, clb, exec, halted, cmd, ci, busy, executed>>

\* A task file error: PxCI stays and no command is fetched until ST is cleared.
dev_fails ==
  /\ exec.stage = "transfer"
  /\ exec' = NoCommand
  /\ busy' = FALSE
  /\ isr' = isr \cup {"TFES"}
  /\ halted' = TRUE
  /\ UNCHANGED <<driverSide, clb, ending, cmd, ci, executed>>

------------------------------------------------------------------------------

init ==
  \/ init_find \/ init_alloc \/ init_alloc_fails \/ init_stop \/ init_wait
  \/ init_program \/ init_clear \/ init_fre \/ init_st \/ init_ready

request ==
  \/ issue_ready \/ issue_not_ready
  \/ zero_header \/ fill_header \/ zero_table \/ fill_table
  \/ wait_slot \/ clear_is \/ set_ci
  \/ read_is \/ again \/ wait_fails \/ wait_succeeds \/ finish

driver == init \/ request

device ==
  \/ dev_runs \/ dev_stops \/ dev_stops_receiving \/ dev_comes_up
  \/ dev_fetches_header \/ dev_fetches_table
  \/ dev_completes \/ dev_clears_ci \/ dev_interrupts \/ dev_fails

Next == init_call \/ issue \/ driver \/ device

\* The driver runs on, its limited loops end, and the device gets on with what it
\* has begun.
Spec ==
  /\ Init /\ [][Next]_vars
  /\ WF_vars(init) /\ WF_vars(request) /\ SF_vars(wait_fails) /\ WF_vars(device)

------------------------------------------------------------------------------
(* Properties                                                              *)

\* A success is true: the device has carried out the whole command of the request
\* that is reported done, whatever earlier requests left in the slot.
SuccessMeansExecuted == \A r \in Requests : outcome[r] = "success" => r \in executed

\* A header of one request with the table of another, or a page being rewritten,
\* reaches the device only if an earlier request was reported failed while its
\* command was still in the slot.
TornOnlyAfterFailure ==
  exec.stage = "transfer" /\ ~Whole(exec) => \E r \in 1..(id - 1) : outcome[r] = "failure"

\* The device does not touch the buffer of a request that was reported done; that
\* of a failed request it may.
QuietAfterSuccess ==
  exec.stage = "transfer" /\ exec.table.id \in Requests => outcome[exec.table.id] # "success"

\* The command asks for the sectors of the request, and its PRDT entry covers
\* them, for counts from 1 up to what one entry holds, and for no other count:
\* beyond both ranges the two may agree again, on fewer sectors.
TransferFits ==
  \A p \in DOMAIN memory :
    memory[p].id = id /\ memory[p].bytes # 0 =>
      (memory[p].sectors = cnt /\ memory[p].bytes = cnt * SECTOR
         <=> cnt \in 1..(DBC_RANGE \div SECTOR))

\* The address of the command list changes only while the engine is stopped.
ProgramsStoppedEngine == [][clb' # clb => cmd \cap {"CR", "FR"} = {}]_vars

\* A call returns, unless the device stopped at an error before: its command then
\* never leaves the slot, and the wait for the slot has no limit.
CallsReturn ==
  pc # "idle" ~> pc = "idle" \/ (pc = "wait_ci" /\ halted)
==============================================================================
