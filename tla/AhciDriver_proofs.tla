-------------------------- MODULE AhciDriver_proofs --------------------------
(***************************************************************************)
(* Why a success of the disk driver is true and what a failure leaves      *)
(* behind, whatever the device does and when.                              *)
(*                                                                         *)
(* Everything turns on who owns the one command slot.  A request gets past *)
(* wait_slot only when the slot is empty, and then the device holds no     *)
(* command either: it lets go of a command before it clears PxCI, and a    *)
(* cleared ST is waited for.  From then on whatever the device fetches is  *)
(* what the request wrote.  Before that, what the device may hold is the   *)
(* command of a request that failed.                                       *)
(***************************************************************************)
EXTENDS AhciDriver, FiniteSetTheorems, WellFoundedInduction, TLAPS

InitSteps ==
  {"init_find", "init_alloc", "init_stop", "init_wait", "init_program", "init_clear",
   "init_fre", "init_st", "init_ready"}

\* The steps of a request, cut where its header, its table, the empty slot and
\* the command in it are there.
Waiting    == {"read_is", "read_ci"}
SlotFree   == {"clear_is", "set_ci"}
WithTable  == {"wait_ci", "finish"} \cup SlotFree \cup Waiting
WithHeader == {"zero_table", "table"} \cup WithTable
RequestSteps == {"ready", "zero_header", "header"} \cup WithHeader

Pages == DOMAIN memory

Contents(n) == [id : -1..n, ctba : Pages, bytes : Nat, sectors : Nat]

ControlInv ==
  /\ pc \in {"idle"} \cup InitSteps \cup RequestSteps
  /\ usable \in BOOLEAN /\ ci \in BOOLEAN /\ halted \in BOOLEAN /\ cnt \in Nat
  /\ cmd \subseteq {"ST", "FRE", "CR", "FR"} /\ ending \subseteq {"CI", "DHRS"}

DataInv ==
  /\ id \in 0..MaxCalls
  /\ Pages \subseteq Nat /\ {0, g_clb_phys, g_ctba_phys, clb} \subseteq Pages
  /\ memory \in [Pages -> Contents(id)]
  /\ exec \in [header : Contents(id), table : Contents(id),
               stage : {"none", "header", "transfer"}]
  /\ outcome \in [Requests -> {"none", "failure", "success"}]
  /\ executed \subseteq Requests

TypeInv == ControlInv /\ DataInv

\* Pages not handed out yet, and page 0, hold no request's data.
FreshInv ==
  /\ free \subseteq Pages \ {0} /\ IsFiniteSet(free)
  /\ \A p \in free \cup {0} : memory[p] = Garbage

\* The device holds a command only while PxCI is set or the engine stops, and no
\* command once CR is clear.
EngineInv ==
  /\ exec.stage # "none" => ending = {}
  /\ exec.stage # "none" \/ "CI" \in ending => "CR" \in cmd /\ (ci \/ pc = "init_wait")
  /\ ci => "ST" \in cmd /\ pc # "init_ready"
  /\ pc \in {"init_wait", "init_program", "init_clear", "init_fre", "init_st"} => "ST" \notin cmd
  /\ pc \in {"init_wait", "init_program"} => "FRE" \notin cmd
  /\ pc \in {"init_program", "init_clear", "init_fre", "init_st"} => "CR" \notin cmd
  /\ pc = "init_program" => "FR" \notin cmd

\* Two pages of its own, neither of them page 0.
HasPages ==
  /\ g_clb_phys # g_ctba_phys
  /\ g_clb_phys \notin free \cup {0} /\ g_ctba_phys \notin free \cup {0}

\* A driver that is usable has an engine that runs on its pages.
UsableInv ==
  /\ pc \in RequestSteps => usable
  /\ usable /\ pc \in {"idle"} \cup RequestSteps =>
       HasPages /\ clb = g_clb_phys /\ "ST" \in cmd
  /\ pc \in InitSteps \ {"init_find", "init_alloc"} => HasPages
  /\ pc \in {"init_clear", "init_fre", "init_st", "init_ready"} => clb = g_clb_phys
  /\ pc = "init_ready" => "ST" \in cmd

OutcomeInv ==
  /\ \A r \in Requests : r > id => outcome[r] = "none"
  /\ pc \in RequestSteps => id >= 1 /\ outcome[id] = "none"

\* What the request has written so far.
WrittenInv ==
  /\ pc \in WithHeader => memory[g_clb_phys] = Content(id, g_ctba_phys, 0, 0)
  /\ pc \in WithTable =>
       memory[g_ctba_phys] = Content(id, 0, prd_bytes(cnt), fis_sectors(cnt))
  /\ \A p \in Pages :
       memory[p].id = id /\ memory[p].bytes # 0 =>
         memory[p].bytes = prd_bytes(cnt) /\ memory[p].sectors = fis_sectors(cnt)

\* There is a command in the slot, or in the device.
Working == ci \/ exec.stage # "none"

\* What the device has of that command is the current request's.
Coherent ==
  /\ id >= 1
  /\ memory[clb].id = id /\ memory[memory[clb].ctba].id = id
  /\ exec.stage # "none" => exec.header = memory[clb]
  /\ exec.stage = "transfer" => exec.table.id = id

\* Wherever the device looks for a table while there is a command, it finds none
\* of a request that was reported done.
NotDone(n) == n \in Requests => outcome[n] # "success"

QuietInv ==
  Working =>
    /\ NotDone(memory[g_ctba_phys].id)
    /\ NotDone(memory[memory[clb].ctba].id)
    /\ exec.stage = "header" => NotDone(memory[exec.header.ctba].id)
    /\ exec.stage = "transfer" => NotDone(exec.table.id)

\* A command is the current request's, or an earlier request failed.
OwnerInv ==
  Working =>
    \/ \E r \in 1..(id - 1) : outcome[r] = "failure"
    \/ Coherent /\ (pc \in Waiting \/ (pc \notin RequestSteps /\ outcome[id] = "failure"))

\* A request that waits has the slot to itself; when the slot is empty again, the
\* device has executed its command.
WaitInv ==
  /\ pc \in SlotFree => ~ci
  /\ pc \in Waiting /\ ci => Coherent /\ ("CI" \in ending => id \in executed)
  /\ pc \in Waiting /\ ~ci => id \in executed
  /\ pc = "finish" => ~ci /\ id \in executed

IInv ==
  /\ TypeInv /\ FreshInv /\ EngineInv /\ UsableInv /\ OutcomeInv /\ WrittenInv
  /\ QuietInv /\ OwnerInv /\ WaitInv /\ SuccessMeansExecuted

------------------------------------------------------------------------------
(* Lemmas.                                                                 *)

LEMMA LowestIsIn ==
  ASSUME NEW S, S \subseteq Nat, S # {}
  PROVE  Lowest(S) \in S
<1>1. PICK x \in S : \A y \in S : <<y, x>> \notin OpToRel(<, Nat)
  BY NatLessThanWellFounded, WFMin
<1>2. \A y \in S : x <= y
  <2>1. ASSUME NEW y \in S, y < x PROVE FALSE
    <3>1. <<y, x>> \in OpToRel(<, Nat)
      BY <2>1 DEF OpToRel
    <3> QED BY <1>1, <3>1
  <2> QED BY <2>1
<1> QED
  BY <1>2 DEF Lowest

LEMMA OneLess ==
  ASSUME NEW S, IsFiniteSet(S), NEW n \in Nat, Cardinality(S) >= n + 1, NEW x
  PROVE  S # {} /\ IsFiniteSet(S \ {x}) /\ Cardinality(S \ {x}) >= n
<1>1. Cardinality(S) \in Nat /\ S # {}
  BY FS_CardinalityType, FS_EmptySet
<1>2. IsFiniteSet(S \ {x})
  BY FS_RemoveElement
<1>3. Cardinality(S \ {x}) = IF x \in S THEN Cardinality(S) - 1 ELSE Cardinality(S)
  BY FS_RemoveElement
<1> QED
  BY <1>1, <1>2, <1>3

\* init_alloc gets three pages that are not yet handed out, all different.
LEMMA ThreePages ==
  ASSUME IInv, init_alloc
  PROVE  /\ g_clb_phys' \in free /\ g_ctba_phys' \in free /\ g_clb_phys' # g_ctba_phys'
         /\ free' = free \ {g_clb_phys', g_fb_phys', g_ctba_phys'} /\ IsFiniteSet(free')
<1> DEFINE A == free \ {g_clb_phys'}
           B == A \ {g_fb_phys'}
<1>1. free \subseteq Nat /\ IsFiniteSet(free) /\ Cardinality(free) >= 3
  BY DEF IInv, TypeInv, DataInv, FreshInv, init_alloc
<1>2. IsFiniteSet(A) /\ Cardinality(A) >= 2
  <2>1. 2 \in Nat /\ 2 + 1 = 3
    OBVIOUS
  <2> QED BY <1>1, <2>1, OneLess
<1>3. IsFiniteSet(B) /\ Cardinality(B) >= 1
  <2>1. 1 \in Nat /\ 1 + 1 = 2
    OBVIOUS
  <2> HIDE DEF A
  <2> QED BY <1>2, <2>1, OneLess
<1>4. free # {} /\ B # {} /\ B \subseteq Nat
  <2>1. 2 \in Nat /\ 2 + 1 = 3 /\ 0 \in Nat /\ 0 + 1 = 1
    OBVIOUS
  <2>2. B # {}
    <3> HIDE DEF B
    <3> QED BY <1>3, <2>1, OneLess
  <2> QED BY <1>1, <2>1, <2>2, OneLess
<1>5. Lowest(free) \in free /\ Lowest(B) \in B
  BY <1>1, <1>4, LowestIsIn
<1>6. B = free \ {g_clb_phys', g_fb_phys'}
  OBVIOUS
<1>7. IsFiniteSet(free')
  BY <1>1, FS_Subset DEF init_alloc
<1> QED
  BY <1>5, <1>6, <1>7 DEF init_alloc

\* What the device and the driver leave in memory and in exec is typed.
LEMMA Typed ==
  ASSUME TypeInv
  PROVE  /\ Zero \in Contents(id)
         /\ Content(id, g_ctba_phys, 0, 0) \in Contents(id)
         /\ NoCommand \in [header : Contents(id), table : Contents(id),
                           stage : {"none", "header", "transfer"}]
         /\ \A n \in Nat : Content(id, 0, prd_bytes(n), fis_sectors(n)) \in Contents(id)
<1>1. \A n \in Nat : prd_bytes(n) \in Nat /\ fis_sectors(n) \in Nat
  BY WidthAssumption DEF prd_bytes, fis_sectors
<1> QED
  BY <1>1 DEF TypeInv, DataInv, Contents, Zero, Content, NoCommand

------------------------------------------------------------------------------
(* Types.                                                                  *)

LEMMA InitInv == Init => IInv
<1> SUFFICES ASSUME Init PROVE IInv
  OBVIOUS
<1> USE DEF Init, Pages, Contents, Content, Zero, Garbage, NoCommand, Requests
<1>1. free \subseteq Nat \ {0} /\ IsFiniteSet(free)
  BY PagesAssumption
<1>2. 0 \in 0..MaxCalls /\ -1 \in -1..0 /\ 0 \in -1..0
  BY WidthAssumption
<1>3. TypeInv
  <2>1. Garbage \in Contents(id) /\ Zero \in Contents(id) /\ Pages = free \cup {0}
    BY <1>2
  <2>2. memory \in [Pages -> Contents(id)]
    BY <2>1
  <2>3. exec \in [header : Contents(id), table : Contents(id),
                  stage : {"none", "header", "transfer"}]
    BY <2>1
  <2> QED BY <1>1, <1>2, <2>1, <2>2, <2>3 DEF TypeInv, ControlInv, DataInv
<1>4. FreshInv
  BY <1>1 DEF FreshInv
<1>5. EngineInv /\ UsableInv /\ OutcomeInv
  BY <1>2 DEF EngineInv, UsableInv, OutcomeInv, InitSteps, RequestSteps, WithHeader, WithTable,
         Waiting, SlotFree
<1>6. WrittenInv /\ QuietInv /\ OwnerInv /\ WaitInv /\ SuccessMeansExecuted
  BY DEF WrittenInv, QuietInv, OwnerInv, WaitInv, SuccessMeansExecuted, Working, WithHeader,
         WithTable, Waiting, SlotFree
<1> QED
  BY <1>3, <1>4, <1>5, <1>6 DEF IInv

LEMMA ControlStep ==
  ASSUME IInv, [Next]_vars
  PROVE  ControlInv'
<1> USE DEF Step, Pass, InitFails, Return, Write, stops, statics, call, engine, regs, history,
            driverSide, InitSteps, RequestSteps, WithHeader, WithTable, Waiting, SlotFree,
            IInv, TypeInv, ControlInv
<1>1. ASSUME init PROVE ControlInv'
  BY <1>1 DEF init, init_find, init_alloc, init_alloc_fails, init_stop, init_wait,
       init_program, init_clear, init_fre, init_st, init_ready
<1>2. ASSUME request PROVE ControlInv'
  <2>1. CASE issue_ready \/ issue_not_ready
    BY <2>1 DEF issue_ready, issue_not_ready
  <2>2. CASE zero_header \/ fill_header \/ zero_table \/ fill_table
    BY <2>2 DEF zero_header, fill_header, zero_table, fill_table
  <2>3. CASE wait_slot \/ clear_is \/ set_ci
    <3>1. ASSUME set_ci PROVE ci' \in BOOLEAN
      <4>1. ci' = ("ST" \in cmd)
        BY <3>1 DEF set_ci
      <4> QED BY <4>1
    <3> QED BY <2>3, <3>1 DEF wait_slot, clear_is, set_ci
  <2>4. CASE read_is \/ again \/ wait_fails \/ wait_succeeds \/ finish
    BY <2>4 DEF read_is, again, wait_fails, wait_succeeds, finish
  <2> QED BY <1>2, <2>1, <2>2, <2>3, <2>4 DEF request
<1>3. ASSUME device PROVE ControlInv'
  <2>1. CASE dev_runs \/ dev_stops \/ dev_stops_receiving
    BY <2>1, ZenonT(60) DEF dev_runs, dev_stops, dev_stops_receiving
  <2>2. CASE dev_comes_up \/ dev_fetches_header \/ dev_fetches_table
    BY <2>2 DEF dev_comes_up, dev_fetches_header, dev_fetches_table
  <2>3. CASE dev_completes \/ dev_clears_ci \/ dev_interrupts \/ dev_fails
    BY <2>3, ZenonT(60) DEF dev_completes, dev_clears_ci, dev_interrupts, dev_fails
  <2> QED BY <1>3, <2>1, <2>2, <2>3 DEF device
<1>4. ASSUME init_call \/ issue \/ UNCHANGED vars PROVE ControlInv'
  BY <1>4, WidthAssumption DEF init_call, issue, vars
<1> QED
  BY <1>1, <1>2, <1>3, <1>4 DEF Next, driver

\* Steps that leave memory, what the device holds of it, and the pages alone.
LEMMA DataStays ==
  ASSUME DataInv, UNCHANGED <<memory, exec, g_clb_phys, g_ctba_phys, id>>,
         clb' \in {clb, g_clb_phys}, executed' = executed,
         outcome' \in [Requests -> {"none", "failure", "success"}]
  PROVE  DataInv'
<1>1. Pages' = Pages /\ Contents(id)' = Contents(id)
  BY DEF Pages, Contents
<1> QED
  BY <1>1 DEF DataInv

LEMMA DataStep ==
  ASSUME IInv, [Next]_vars
  PROVE  DataInv'
<1> USE DEF Step, Pass, InitFails, Return, Write, stops, statics, call, engine, regs, history,
            driverSide
<1>0. DataInv
  BY DEF IInv, TypeInv
<1>1. outcome \in [Requests -> {"none", "failure", "success"}]
  BY <1>0 DEF DataInv
\* Pages are given out.
<1>2. CASE init_alloc \/ init_alloc_fails
  <2>1. g_clb_phys' \in Pages /\ g_ctba_phys' \in Pages
    <3>1. free \subseteq Pages /\ free \subseteq Nat
      BY <1>0 DEF IInv, FreshInv, DataInv
    <3>2. CASE init_alloc
      BY <3>1, <3>2, ThreePages
    <3>3. CASE init_alloc_fails
      BY <1>0, <3>1, <3>3, LowestIsIn DEF init_alloc_fails, DataInv
    <3> QED BY <1>2, <3>2, <3>3
  <2>2. UNCHANGED <<memory, exec, id, clb, outcome, executed>>
    BY <1>2 DEF init_alloc, init_alloc_fails
  <2>3. Pages' = Pages /\ Contents(id)' = Contents(id)
    BY <2>2 DEF Pages, Contents
  <2> QED BY <1>0, <2>1, <2>2, <2>3 DEF DataInv
<1>3. ASSUME init PROVE DataInv'
  BY <1>0, <1>1, <1>2, <1>3, DataStays DEF init, init_find, init_alloc, init_alloc_fails, init_stop, init_wait,
       init_program, init_clear, init_fre, init_st, init_ready
\* The driver writes a header or a table.
<1>4. CASE zero_header \/ fill_header \/ zero_table \/ fill_table
  <2>1. PICK p \in Pages, c \in Contents(id) : memory' = [memory EXCEPT ![p] = c]
    BY <1>0, <1>4, Typed DEF IInv, TypeInv, DataInv, ControlInv, zero_header, fill_header,
       zero_table, fill_table
  <2>2. UNCHANGED <<exec, id, g_clb_phys, g_ctba_phys, clb, outcome, executed>>
    BY <1>4 DEF zero_header, fill_header, zero_table, fill_table
  <2>3. Pages' = Pages
    BY <2>1 DEF Pages
  <2>4. Contents(id)' = Contents(id)
    BY <2>2, <2>3 DEF Contents
  <2>5. memory' \in [Pages -> Contents(id)]
    BY <1>0, <2>1 DEF DataInv
  <2> QED BY <1>0, <2>2, <2>3, <2>4, <2>5 DEF DataInv
<1>5. ASSUME request PROVE DataInv'
  BY <1>0, <1>1, <1>4, <1>5, DataStays DEF request, issue_ready, issue_not_ready, zero_header, fill_header, zero_table,
       fill_table, wait_slot, clear_is, set_ci, read_is, again, wait_fails, wait_succeeds,
       finish
\* The device fetches a header or a table, or lets go of its command.
<1>6. CASE dev_fetches_header \/ dev_fetches_table \/ dev_stops \/ dev_completes \/ dev_fails
  <2>1. UNCHANGED <<memory, id, g_clb_phys, g_ctba_phys, clb, outcome>>
    BY <1>6 DEF dev_fetches_header, dev_fetches_table, dev_stops, dev_completes, dev_fails
  <2>2. Pages' = Pages /\ Contents(id)' = Contents(id)
    BY <2>1 DEF Pages, Contents
  <2>3. exec' \in [header : Contents(id), table : Contents(id),
                   stage : {"none", "header", "transfer"}]
    <3>1. CASE dev_fetches_header
      <4>1. memory[clb] \in Contents(id)
        BY <1>0 DEF DataInv
      <4> QED BY <3>1, <4>1, <1>0, Typed DEF dev_fetches_header, IInv
    <3>2. CASE dev_fetches_table
      <4>1. exec.header.ctba \in Pages
        BY <1>0 DEF DataInv, Contents
      <4>2. memory[exec.header.ctba] \in Contents(id)
        BY <1>0, <4>1 DEF DataInv
      <4> QED BY <1>0, <3>2, <4>2 DEF dev_fetches_table, DataInv
    <3>3. CASE dev_stops \/ dev_completes \/ dev_fails
      BY <3>3, Typed DEF dev_stops, dev_completes, dev_fails, IInv
    <3> QED BY <1>6, <3>1, <3>2, <3>3
  <2>4. executed' \subseteq Requests
    <3>1. \/ executed' = executed
          \/ Whole(exec) /\ executed' = executed \cup {exec.table.id}
      BY <1>6 DEF dev_fetches_header, dev_fetches_table, dev_stops, dev_completes, dev_fails
    <3> QED BY <1>0, <3>1 DEF DataInv, Whole
  <2> QED BY <1>0, <2>1, <2>2, <2>3, <2>4 DEF DataInv
<1>7. ASSUME device PROVE DataInv'
  BY <1>0, <1>1, <1>6, <1>7, DataStays DEF device, dev_runs, dev_stops_receiving,
     dev_comes_up, dev_clears_ci, dev_interrupts
\* The next request.
<1>8. CASE issue
  <2>1. UNCHANGED <<memory, exec, g_clb_phys, g_ctba_phys, clb, outcome, executed>>
    BY <1>8 DEF issue
  <2>2. Pages' = Pages /\ id' \in 0..MaxCalls
    BY <1>0, <1>8, <2>1, WidthAssumption DEF issue, Pages, DataInv
  <2>3. Contents(id) \subseteq Contents(id)'
    <3>1. -1..id \subseteq -1..id'
      BY <1>0, <1>8 DEF issue, DataInv
    <3> QED BY <2>2, <3>1 DEF Contents
  <2> QED BY <1>0, <2>1, <2>2, <2>3 DEF DataInv
<1> QED
  BY <1>0, <1>1, <1>3, <1>5, <1>7, <1>8, DataStays DEF Next, driver, init_call, vars


\* Each step of ahci::init keeps the invariant.
LEMMA InitStep ==
  ASSUME IInv, TypeInv', init
  PROVE  IInv'
<1> USE DEF Step, Pass, InitFails, Return, Write, stops, statics, call, engine, regs, history,
            driverSide, Requests, Working, NotDone, InitSteps, RequestSteps, WithHeader,
            WithTable, Waiting, SlotFree, Content, Zero, Garbage, NoCommand, IInv, TypeInv,
            ControlInv, DataInv, EngineInv, UsableInv, OutcomeInv
<1>1. CASE init_find
  <2> USE <1>1 DEF init_find
  <2>1. (FreshInv /\ EngineInv /\ UsableInv /\ OutcomeInv)'
    BY DEF FreshInv, HasPages, Pages, Contents
  <2>2. (WrittenInv /\ WaitInv /\ SuccessMeansExecuted)'
    BY DEF WrittenInv, WaitInv, SuccessMeansExecuted, HasPages, Coherent, Pages, Contents, Whole
  <2>3. (QuietInv /\ OwnerInv)'
    BY DEF FreshInv, HasPages, WrittenInv, WaitInv, QuietInv, OwnerInv, Coherent, Pages, Contents,
       Whole
  <2> QED BY <2>1, <2>2, <2>3
<1>2. CASE init_alloc
  <2> USE <1>2 DEF init_alloc
  <2>1. /\ g_clb_phys' \in free /\ g_ctba_phys' \in free /\ g_clb_phys' # g_ctba_phys'
        /\ free' = free \ {g_clb_phys', g_fb_phys', g_ctba_phys'} /\ IsFiniteSet(free')
    BY ThreePages
  <2>2. (FreshInv /\ HasPages)'
    <3>1. FreshInv'
      BY <2>1 DEF FreshInv, Pages
    <3>2. g_clb_phys' # 0 /\ g_ctba_phys' # 0
      BY <2>1 DEF FreshInv
    <3> QED BY <2>1, <3>1, <3>2 DEF HasPages
  <2>3. (EngineInv /\ UsableInv /\ OutcomeInv)'
    BY <2>2
  <2>4. (WrittenInv /\ WaitInv /\ SuccessMeansExecuted)'
    BY DEF WrittenInv, WaitInv, SuccessMeansExecuted, Coherent, Pages
  <2>5. memory[g_ctba_phys'] = Garbage
    BY <2>1 DEF FreshInv
  <2>6. (QuietInv /\ OwnerInv)'
    BY <2>5 DEF QuietInv, OwnerInv, Coherent, Pages
  <2> QED BY <2>2, <2>3, <2>4, <2>6
<1>3. CASE init_alloc_fails
  <2> USE <1>3 DEF init_alloc_fails
  <2>1. FreshInv'
    BY FS_EmptySet DEF FreshInv, Pages
  <2>2. (EngineInv /\ UsableInv /\ OutcomeInv)'
    OBVIOUS
  <2>3. (WrittenInv /\ WaitInv /\ SuccessMeansExecuted)'
    BY DEF WrittenInv, WaitInv, SuccessMeansExecuted, Coherent, Pages
  <2>4. (QuietInv /\ OwnerInv)'
    BY DEF FreshInv, QuietInv, OwnerInv, Coherent, Pages
  <2> QED BY <2>1, <2>2, <2>3, <2>4
<1>4. CASE init_stop
  BY <1>4 DEF init_stop, FreshInv, HasPages, WrittenInv, WaitInv, QuietInv, OwnerInv,
     SuccessMeansExecuted, Coherent, Pages, Contents, Whole
<1>5. CASE init_wait
  BY <1>5 DEF init_wait, FreshInv, HasPages, WrittenInv, WaitInv, QuietInv, OwnerInv,
     SuccessMeansExecuted, Coherent, Pages, Contents, Whole
<1>6. CASE init_program
  BY <1>6 DEF init_program, FreshInv, HasPages, WrittenInv, WaitInv, QuietInv, OwnerInv,
     SuccessMeansExecuted, Coherent, Pages, Contents, Whole
<1>7. CASE init_clear
  BY <1>7 DEF init_clear, FreshInv, HasPages, WrittenInv, WaitInv, QuietInv, OwnerInv,
     SuccessMeansExecuted, Coherent, Pages, Contents, Whole
<1>8. CASE init_fre
  BY <1>8 DEF init_fre, FreshInv, HasPages, WrittenInv, WaitInv, QuietInv, OwnerInv,
     SuccessMeansExecuted, Coherent, Pages, Contents, Whole
<1>9. CASE init_st
  BY <1>9 DEF init_st, FreshInv, HasPages, WrittenInv, WaitInv, QuietInv, OwnerInv,
     SuccessMeansExecuted, Coherent, Pages, Contents, Whole
<1>10. CASE init_ready
  BY <1>10 DEF init_ready, FreshInv, HasPages, WrittenInv, WaitInv, QuietInv, OwnerInv,
     SuccessMeansExecuted, Coherent, Pages, Contents, Whole
<1> QED
  BY <1>1, <1>2, <1>3, <1>4, <1>5, <1>6, <1>7, <1>8, <1>9, <1>10 DEF init

\* Each step of a disk request keeps the invariant.
LEMMA RequestStep ==
  ASSUME IInv, TypeInv', request
  PROVE  IInv'
<1> USE DEF Step, Pass, InitFails, Return, Write, stops, statics, call, engine, regs, history,
            driverSide, Requests, Working, NotDone, InitSteps, RequestSteps, WithHeader,
            WithTable, Waiting, SlotFree, Content, Zero, Garbage, NoCommand, IInv, TypeInv,
            ControlInv, DataInv, EngineInv, UsableInv, OutcomeInv
<1>1. CASE issue_ready
  BY <1>1 DEF issue_ready, FreshInv, HasPages, WrittenInv, WaitInv, QuietInv, OwnerInv,
     SuccessMeansExecuted, Coherent, Pages, Contents, Whole
<1>2. CASE issue_not_ready
  <2> USE <1>2 DEF issue_not_ready
  <2>1. (FreshInv /\ EngineInv /\ UsableInv /\ OutcomeInv)'
    BY DEF FreshInv, HasPages, Pages, Contents
  <2>2. (WrittenInv /\ WaitInv /\ SuccessMeansExecuted)'
    BY DEF WrittenInv, WaitInv, SuccessMeansExecuted, HasPages, Coherent, Pages, Contents,
       Whole
  <2>3. QuietInv'
    BY DEF QuietInv
  <2>4. OwnerInv'
    <3> SUFFICES ASSUME Working
                 PROVE  \E r \in 1..(id - 1) : outcome'[r] = "failure"
      BY DEF OwnerInv
    <3>1. PICK r \in 1..(id - 1) : outcome[r] = "failure"
      BY DEF OwnerInv
    <3> QED BY <3>1
  <2> QED BY <2>1, <2>2, <2>3, <2>4
<1>3. CASE zero_header
  <2> USE <1>3 DEF zero_header
  <2>1. (FreshInv /\ EngineInv /\ UsableInv /\ OutcomeInv)'
    <3>1. FreshInv'
      BY DEF FreshInv, HasPages, Pages
    <3> QED BY <3>1 DEF HasPages
  <2>2. (WrittenInv /\ WaitInv /\ SuccessMeansExecuted)'
    BY DEF WrittenInv, WaitInv, SuccessMeansExecuted, HasPages, Coherent, Pages, Contents,
       Whole
  <2>3. QuietInv'
    <3>1. memory'[clb] = Zero /\ memory'[0] = Garbage /\ HasPages /\ clb = g_clb_phys
      BY DEF FreshInv, HasPages
    <3>2. \A q \in Pages : memory'[q] = memory[q] \/ memory'[q] = Zero
      OBVIOUS
    <3>3. exec.header.ctba \in Pages
      BY DEF Contents
    <3> QED BY <3>1, <3>2, <3>3 DEF QuietInv
  <2>4. OwnerInv'
    BY DEF OwnerInv
  <2> QED BY <2>1, <2>2, <2>3, <2>4
<1>4. CASE fill_header
  <2> USE <1>4 DEF fill_header
  <2>1. (FreshInv /\ EngineInv /\ UsableInv /\ OutcomeInv)'
    <3>1. FreshInv'
      BY DEF FreshInv, HasPages, Pages
    <3> QED BY <3>1 DEF HasPages
  <2>2. (WrittenInv /\ WaitInv /\ SuccessMeansExecuted)'
    BY DEF WrittenInv, WaitInv, SuccessMeansExecuted, HasPages, Coherent, Pages, Contents, Whole
  <2>3. (QuietInv /\ OwnerInv)'
    BY DEF FreshInv, HasPages, WrittenInv, WaitInv, QuietInv, OwnerInv, Coherent, Pages, Contents,
       Whole
  <2> QED BY <2>1, <2>2, <2>3
<1>5. CASE zero_table
  <2> USE <1>5 DEF zero_table
  <2>1. (FreshInv /\ EngineInv /\ UsableInv /\ OutcomeInv)'
    <3>1. FreshInv'
      BY DEF FreshInv, HasPages, Pages
    <3> QED BY <3>1 DEF HasPages
  <2>2. (WrittenInv /\ WaitInv /\ SuccessMeansExecuted)'
    BY DEF WrittenInv, WaitInv, SuccessMeansExecuted, HasPages, Coherent, Pages, Contents, Whole
  <2>3. (QuietInv /\ OwnerInv)'
    BY SMTT(30) DEF FreshInv, HasPages, WrittenInv, WaitInv, QuietInv, OwnerInv, Coherent, Pages, Contents,
       Whole
  <2> QED BY <2>1, <2>2, <2>3
<1>6. CASE fill_table
  <2> USE <1>6 DEF fill_table
  <2>1. FreshInv'
    BY DEF FreshInv, HasPages, Pages
  <2>2. (EngineInv /\ UsableInv /\ OutcomeInv)'
    BY DEF HasPages
  <2>3. (WrittenInv /\ WaitInv /\ SuccessMeansExecuted)'
    BY DEF WrittenInv, WaitInv, SuccessMeansExecuted, HasPages, Coherent, Pages
  <2>4. (QuietInv /\ OwnerInv)'
    BY DEF FreshInv, HasPages, WrittenInv, WaitInv, QuietInv, OwnerInv, Coherent, Pages,
       Contents, Whole
  <2> QED BY <2>1, <2>2, <2>3, <2>4
<1>7. CASE wait_slot
  BY <1>7 DEF wait_slot, FreshInv, HasPages, WrittenInv, WaitInv, QuietInv, OwnerInv,
     SuccessMeansExecuted, Coherent, Pages, Contents, Whole
<1>8. CASE clear_is
  BY <1>8 DEF clear_is, FreshInv, HasPages, WrittenInv, WaitInv, QuietInv, OwnerInv,
     SuccessMeansExecuted, Coherent, Pages, Contents, Whole
<1>9. CASE set_ci
  <2> USE <1>9 DEF set_ci
  <2>1. (FreshInv /\ EngineInv /\ UsableInv /\ OutcomeInv)'
    BY DEF FreshInv, HasPages, Pages, Contents
  <2>2. exec.stage = "none" /\ "CI" \notin ending
    BY DEF WaitInv
  <2>3. ci' /\ Coherent'
    <3>1. memory[clb] = Content(id, g_ctba_phys, 0, 0)
      BY DEF WrittenInv
    <3>2. memory[g_ctba_phys].id = id
      BY DEF WrittenInv
    <3>3. ci'
      OBVIOUS
    <3> QED BY <2>2, <3>1, <3>2, <3>3 DEF Coherent
  <2>4. (WrittenInv /\ WaitInv /\ SuccessMeansExecuted)'
    BY <2>2, <2>3 DEF WrittenInv, WaitInv, SuccessMeansExecuted, Pages
  <2>5. (QuietInv /\ OwnerInv)'
    BY <2>2, <2>3 DEF QuietInv, OwnerInv, WrittenInv, HasPages
  <2> QED BY <2>1, <2>4, <2>5
<1>10. CASE read_is
  BY <1>10 DEF read_is, FreshInv, HasPages, WrittenInv, WaitInv, QuietInv, OwnerInv,
     SuccessMeansExecuted, Coherent, Pages, Contents, Whole
<1>11. CASE again
  BY <1>11 DEF again, FreshInv, HasPages, WrittenInv, WaitInv, QuietInv, OwnerInv,
     SuccessMeansExecuted, Coherent, Pages, Contents, Whole
<1>12. CASE wait_fails
  <2> USE <1>12 DEF wait_fails
  <2>1. (FreshInv /\ EngineInv /\ UsableInv /\ OutcomeInv)'
    BY DEF FreshInv, HasPages, Pages, Contents
  <2>2. (WrittenInv /\ WaitInv /\ SuccessMeansExecuted)'
    BY DEF WrittenInv, WaitInv, SuccessMeansExecuted, HasPages, Coherent, Pages, Contents,
       Whole
  <2>3. QuietInv'
    BY DEF QuietInv
  <2>4. OwnerInv'
    <3> SUFFICES ASSUME Working
                 PROVE  (\E r \in 1..(id - 1) : outcome'[r] = "failure")
                          \/ (Coherent' /\ outcome'[id] = "failure")
      BY DEF OwnerInv
    <3>1. CASE \E r \in 1..(id - 1) : outcome[r] = "failure"
      <4>1. PICK r \in 1..(id - 1) : outcome[r] = "failure"
        BY <3>1
      <4> QED BY <4>1
    <3>2. CASE Coherent
      BY <3>2 DEF Coherent
    <3> QED BY <3>1, <3>2 DEF OwnerInv
  <2> QED BY <2>1, <2>2, <2>3, <2>4
<1>13. CASE wait_succeeds
  BY <1>13 DEF wait_succeeds, FreshInv, HasPages, WrittenInv, WaitInv, QuietInv, OwnerInv,
     SuccessMeansExecuted, Coherent, Pages, Contents, Whole
<1>14. CASE finish
  <2> USE <1>14 DEF finish
  <2>1. (FreshInv /\ EngineInv /\ UsableInv /\ OutcomeInv)'
    BY DEF FreshInv, HasPages, Pages, Contents
  <2>2. (WrittenInv /\ WaitInv /\ SuccessMeansExecuted)'
    BY DEF WrittenInv, WaitInv, SuccessMeansExecuted, HasPages, Coherent, Pages, Contents, Whole
  <2>3. (QuietInv /\ OwnerInv)'
    BY DEF FreshInv, HasPages, WrittenInv, WaitInv, QuietInv, OwnerInv, Coherent, Pages, Contents,
       Whole
  <2> QED BY <2>1, <2>2, <2>3
<1> QED
  BY <1>1, <1>2, <1>3, <1>4, <1>5, <1>6, <1>7, <1>8, <1>9, <1>10, <1>11, <1>12, <1>13, <1>14 DEF request

\* Each step of the device keeps the invariant.
LEMMA DeviceStep ==
  ASSUME IInv, TypeInv', device
  PROVE  IInv'
<1> USE DEF Step, Pass, InitFails, Return, Write, stops, statics, call, engine, regs, history,
            driverSide, Requests, Working, NotDone, InitSteps, RequestSteps, WithHeader,
            WithTable, Waiting, SlotFree, Content, Zero, Garbage, NoCommand, IInv, TypeInv,
            ControlInv, DataInv, EngineInv, UsableInv, OutcomeInv
<1>1. CASE dev_runs
  <2> USE <1>1 DEF dev_runs
  <2>1. (FreshInv /\ EngineInv /\ UsableInv /\ OutcomeInv)'
    BY DEF FreshInv, HasPages, Pages, Contents
  <2>2. (WrittenInv /\ WaitInv /\ SuccessMeansExecuted)'
    BY DEF WrittenInv, WaitInv, SuccessMeansExecuted, HasPages, Coherent, Pages, Contents, Whole
  <2>3. (QuietInv /\ OwnerInv)'
    BY DEF FreshInv, HasPages, WrittenInv, WaitInv, QuietInv, OwnerInv, Coherent, Pages, Contents,
       Whole
  <2> QED BY <2>1, <2>2, <2>3
<1>2. CASE dev_stops
  BY <1>2 DEF dev_stops, FreshInv, HasPages, WrittenInv, WaitInv, QuietInv, OwnerInv,
     SuccessMeansExecuted, Coherent, Pages, Contents, Whole
<1>3. CASE dev_stops_receiving
  <2> USE <1>3 DEF dev_stops_receiving
  <2>1. (FreshInv /\ EngineInv /\ UsableInv /\ OutcomeInv)'
    BY DEF FreshInv, HasPages, Pages, Contents
  <2>2. (WrittenInv /\ WaitInv /\ SuccessMeansExecuted)'
    BY DEF WrittenInv, WaitInv, SuccessMeansExecuted, HasPages, Coherent, Pages, Contents, Whole
  <2>3. (QuietInv /\ OwnerInv)'
    BY DEF FreshInv, HasPages, WrittenInv, WaitInv, QuietInv, OwnerInv, Coherent, Pages, Contents,
       Whole
  <2> QED BY <2>1, <2>2, <2>3
<1>4. CASE dev_comes_up
  <2> USE <1>4 DEF dev_comes_up
  <2>1. (FreshInv /\ EngineInv /\ UsableInv /\ OutcomeInv)'
    BY DEF FreshInv, HasPages, Pages, Contents
  <2>2. (WrittenInv /\ WaitInv /\ SuccessMeansExecuted)'
    BY DEF WrittenInv, WaitInv, SuccessMeansExecuted, HasPages, Coherent, Pages, Contents, Whole
  <2>3. (QuietInv /\ OwnerInv)'
    BY DEF FreshInv, HasPages, WrittenInv, WaitInv, QuietInv, OwnerInv, Coherent, Pages, Contents,
       Whole
  <2> QED BY <2>1, <2>2, <2>3
<1>5. CASE dev_fetches_header
  <2> USE <1>5 DEF dev_fetches_header
  <2>1. (FreshInv /\ EngineInv /\ UsableInv /\ OutcomeInv)'
    BY DEF FreshInv, HasPages, Pages, Contents
  <2>2. (WrittenInv /\ WaitInv /\ SuccessMeansExecuted)'
    BY DEF WrittenInv, WaitInv, SuccessMeansExecuted, HasPages, Coherent, Pages, Contents, Whole
  <2>3. (QuietInv /\ OwnerInv)'
    BY DEF FreshInv, HasPages, WrittenInv, WaitInv, QuietInv, OwnerInv, Coherent, Pages, Contents,
       Whole
  <2> QED BY <2>1, <2>2, <2>3
<1>6. CASE dev_fetches_table
  <2> USE <1>6 DEF dev_fetches_table
  <2>1. (FreshInv /\ EngineInv /\ UsableInv /\ OutcomeInv)'
    BY DEF FreshInv, HasPages, Pages, Contents
  <2>2. (WrittenInv /\ WaitInv /\ SuccessMeansExecuted)'
    BY DEF WrittenInv, WaitInv, SuccessMeansExecuted, HasPages, Coherent, Pages, Contents, Whole
  <2>3. (QuietInv /\ OwnerInv)'
    BY DEF FreshInv, HasPages, WrittenInv, WaitInv, QuietInv, OwnerInv, Coherent, Pages, Contents,
       Whole
  <2> QED BY <2>1, <2>2, <2>3
<1>7. CASE dev_completes
  <2> USE <1>7 DEF dev_completes
  <2>1. (FreshInv /\ EngineInv /\ UsableInv /\ OutcomeInv)'
    BY DEF FreshInv, HasPages, Pages, Contents
  <2>2. (WrittenInv /\ WaitInv /\ SuccessMeansExecuted)'
    BY SMTT(30) DEF WrittenInv, WaitInv, SuccessMeansExecuted, HasPages, Coherent, Pages, Contents, Whole
  <2>3. (QuietInv /\ OwnerInv)'
    BY DEF FreshInv, HasPages, WrittenInv, WaitInv, QuietInv, OwnerInv, Coherent, Pages, Contents,
       Whole
  <2> QED BY <2>1, <2>2, <2>3
<1>8. CASE dev_clears_ci
  BY <1>8 DEF dev_clears_ci, FreshInv, HasPages, WrittenInv, WaitInv, QuietInv, OwnerInv,
     SuccessMeansExecuted, Coherent, Pages, Contents, Whole
<1>9. CASE dev_interrupts
  <2> USE <1>9 DEF dev_interrupts
  <2>1. (FreshInv /\ EngineInv /\ UsableInv /\ OutcomeInv)'
    BY DEF FreshInv, HasPages, Pages, Contents
  <2>2. (WrittenInv /\ WaitInv /\ SuccessMeansExecuted)'
    BY DEF WrittenInv, WaitInv, SuccessMeansExecuted, HasPages, Coherent, Pages, Contents, Whole
  <2>3. (QuietInv /\ OwnerInv)'
    BY DEF FreshInv, HasPages, WrittenInv, WaitInv, QuietInv, OwnerInv, Coherent, Pages, Contents,
       Whole
  <2> QED BY <2>1, <2>2, <2>3
<1>10. CASE dev_fails
  <2> USE <1>10 DEF dev_fails
  <2>1. (FreshInv /\ EngineInv /\ UsableInv /\ OutcomeInv)'
    BY DEF FreshInv, HasPages, Pages, Contents
  <2>2. (WrittenInv /\ WaitInv /\ SuccessMeansExecuted)'
    BY DEF WrittenInv, WaitInv, SuccessMeansExecuted, HasPages, Coherent, Pages
  <2>3. (QuietInv /\ OwnerInv)'
    BY DEF QuietInv, OwnerInv, Coherent, Pages
  <2> QED BY <2>1, <2>2, <2>3
<1> QED
  BY <1>1, <1>2, <1>3, <1>4, <1>5, <1>6, <1>7, <1>8, <1>9, <1>10 DEF device

\* Each call keeps the invariant.
LEMMA CallStep ==
  ASSUME IInv, TypeInv', init_call \/ issue
  PROVE  IInv'
<1> USE DEF Step, Pass, InitFails, Return, Write, stops, statics, call, engine, regs, history,
            driverSide, Requests, Working, NotDone, InitSteps, RequestSteps, WithHeader,
            WithTable, Waiting, SlotFree, Content, Zero, Garbage, NoCommand, IInv, TypeInv,
            ControlInv, DataInv, EngineInv, UsableInv, OutcomeInv
<1>1. CASE init_call
  BY <1>1, ZenonT(60) DEF init_call, FreshInv, HasPages, WrittenInv, WaitInv, QuietInv, OwnerInv,
     SuccessMeansExecuted, Coherent, Pages, Contents, Whole
<1>2. CASE issue
  <2> USE <1>2 DEF issue
  <2>1. (FreshInv /\ EngineInv /\ UsableInv)'
    BY DEF FreshInv, HasPages, Pages
  <2>2. OutcomeInv'
    <3>1. id' \in Requests /\ id' = id + 1
      OBVIOUS
    <3> QED BY <3>1
  <2>3. \A q \in Pages : memory[q].id < id'
    BY SMTT(30) DEF Contents
  <2>4. (WrittenInv /\ WaitInv /\ SuccessMeansExecuted)'
    BY <2>3 DEF WrittenInv, WaitInv, SuccessMeansExecuted, Pages
  <2>5. QuietInv'
    BY DEF QuietInv
  <2>6. OwnerInv'
    <3> SUFFICES ASSUME Working
                 PROVE  \E r \in 1..(id' - 1) : outcome'[r] = "failure"
      BY DEF OwnerInv
    <3>1. CASE \E r \in 1..(id - 1) : outcome[r] = "failure"
      <4>1. PICK r \in 1..(id - 1) : outcome[r] = "failure"
        BY <3>1
      <4>2. r \in 1..(id' - 1)
        OBVIOUS
      <4> QED BY <4>1, <4>2
    <3>2. CASE Coherent /\ outcome[id] = "failure"
      <4>1. id \in 1..(id' - 1)
        BY <3>2 DEF Coherent
      <4> QED BY <3>2, <4>1
    <3> QED BY <3>1, <3>2 DEF OwnerInv
  <2> QED BY <2>1, <2>2, <2>4, <2>5, <2>6
<1> QED
  BY <1>1, <1>2

LEMMA StepInv == IInv /\ [Next]_vars => IInv'
<1> SUFFICES ASSUME IInv, [Next]_vars PROVE IInv'
  OBVIOUS
<1>1. TypeInv'
  BY ControlStep, DataStep DEF TypeInv
<1>2. CASE UNCHANGED vars
  BY <1>2 DEF vars, statics, call, engine, regs, history, IInv, TypeInv, ControlInv, DataInv,
     FreshInv, EngineInv, UsableInv, HasPages, OutcomeInv, WrittenInv, QuietInv, OwnerInv,
     WaitInv, SuccessMeansExecuted, Coherent, Working, NotDone, Pages, Contents
<1> QED
  BY <1>1, <1>2, InitStep, RequestStep, DeviceStep, CallStep DEF Next, driver

LEMMA Invariance == Spec => []IInv
BY InitInv, StepInv, PTL DEF Spec

------------------------------------------------------------------------------
(* What follows for any number of requests, pages and sectors.             *)

\* Every success is true: the request found the slot empty, so the one command
\* the device can have finished since is its own.
THEOREM SuccessTrue == Spec => []SuccessMeansExecuted
<1>1. IInv => SuccessMeansExecuted
  BY DEF IInv
<1> QED
  BY <1>1, Invariance, PTL

\* A torn command is the price of an earlier failure: without one nothing is
\* rewritten while the device can fetch it.
THEOREM TornCaused == Spec => []TornOnlyAfterFailure
<1>1. IInv => TornOnlyAfterFailure
  BY DEF IInv, TypeInv, DataInv, OwnerInv, Working, Coherent, TornOnlyAfterFailure, Whole,
         Requests
<1> QED
  BY <1>1, Invariance, PTL

\* The buffer of a request that was reported done is left alone for good.
THEOREM QuietAfter == Spec => []QuietAfterSuccess
<1>1. IInv => QuietAfterSuccess
  BY DEF IInv, QuietInv, Working, NotDone, QuietAfterSuccess
<1> QED
  BY <1>1, Invariance, PTL

\* Counts up to what a PRDT entry holds are asked for as they are.
LEMMA CountFits ==
  ASSUME NEW n \in Nat
  PROVE  fis_sectors(n) = n /\ prd_bytes(n) = n * SECTOR
           <=> n \in 1..(DBC_RANGE \div SECTOR)
<1> DEFINE k == DBC_RANGE \div SECTOR
<1>1. k \in Nat /\ DBC_RANGE = SECTOR * k
  BY WidthAssumption
<1>2. n * SECTOR \in Nat /\ prd_bytes(n) \in 1..DBC_RANGE
  BY WidthAssumption DEF prd_bytes
<1> HIDE DEF k
<1>3. ASSUME n \in 1..k PROVE fis_sectors(n) = n /\ prd_bytes(n) = n * SECTOR
  <2>1. n * SECTOR <= DBC_RANGE /\ n * SECTOR >= 1
    BY <1>1, <1>3, WidthAssumption
  <2>2. n <= COUNT_RANGE
    BY <1>1, <1>3, WidthAssumption
  <2>3. prd_bytes(n) = n * SECTOR
    BY <1>2, <2>1, WidthAssumption DEF prd_bytes
  <2>4. fis_sectors(n) = n
    BY <1>3, <2>2, WidthAssumption DEF fis_sectors
  <2> QED BY <2>3, <2>4
<1>4. ASSUME fis_sectors(n) = n, prd_bytes(n) = n * SECTOR PROVE n \in 1..k
  <2>1. n * SECTOR <= SECTOR * k
    BY <1>1, <1>2, <1>4
  <2>2. n <= k
    BY <1>1, <2>1, WidthAssumption
  <2>3. n # 0
    BY <1>2, <1>4, WidthAssumption
  <2> QED BY <1>1, <2>2, <2>3
<1> QED
  BY <1>3, <1>4 DEF k

\* No other count is: the ranges of the two fields are not checked by issue.
THEOREM FitsUpToOneEntry == Spec => []TransferFits
<1>1. IInv => TransferFits
  <2> SUFFICES ASSUME IInv, NEW p \in DOMAIN memory, memory[p].id = id, memory[p].bytes # 0
               PROVE  memory[p].sectors = cnt /\ memory[p].bytes = cnt * SECTOR
                        <=> cnt \in 1..(DBC_RANGE \div SECTOR)
    BY DEF TransferFits
  <2>1. cnt \in Nat /\ memory[p].bytes = prd_bytes(cnt) /\ memory[p].sectors = fis_sectors(cnt)
    BY DEF IInv, TypeInv, ControlInv, WrittenInv, Pages
  <2> QED BY <2>1, CountFits
<1> QED
  BY <1>1, Invariance, PTL

\* A step that moves the command list finds the engine stopped, and it has not
\* been started again since init_wait saw it so.
THEOREM StoppedWhenProgrammed == Spec => ProgramsStoppedEngine
<1>1. IInv /\ [Next]_vars => (clb' # clb => cmd \cap {"CR", "FR"} = {})
  <2> SUFFICES ASSUME IInv, [Next]_vars, clb' # clb PROVE cmd \cap {"CR", "FR"} = {}
    OBVIOUS
  <2> USE DEF Step, Pass, InitFails, Return, Write, stops, statics, call, engine, regs,
              history, driverSide
  <2>1. CASE init_program
    BY <2>1 DEF init_program, IInv, EngineInv
  <2> QED
    BY <2>1 DEF Next, driver, init, request, device, vars, init_call, issue, init_find,
       init_alloc, init_alloc_fails, init_stop, init_wait, init_clear, init_fre, init_st,
       init_ready, issue_ready, issue_not_ready, zero_header, fill_header, zero_table,
       fill_table, wait_slot, clear_is, set_ci, read_is, again, wait_fails, wait_succeeds,
       finish, dev_runs, dev_stops, dev_stops_receiving, dev_comes_up, dev_fetches_header,
       dev_fetches_table, dev_completes, dev_clears_ci, dev_interrupts, dev_fails
<1> QED
  BY <1>1, Invariance, PTL DEF Spec, ProgramsStoppedEngine
==============================================================================
