------------------------------- MODULE Loader -------------------------------
(***************************************************************************)
(* The program loader (src/kernel/src/loader.rs) as every core drives it   *)
(* in common_main::app_test: prepare A, prepare B, run A (== 0), run B     *)
(* (== 0), run A (== 42), then drop B and A.                                *)
(*                                                                         *)
(* The memory calls are the actions of VirtualMemory (same variables):     *)
(* each MEMORY.lock() block is one step.  Between them a core writes the   *)
(* memory of its active address space without the lock: map_segment's      *)
(* fill/copy, and the program itself.  The test program (user_app          *)
(* test.rs) keeps COUNTER in its data segment; a run prints first (the     *)
(* String of _print_fmt_contiguous grows the user heap on its first use),  *)
(* then COUNTER.fetch_add(1): 0 returns 0, anything else panics and the    *)
(* panic handler calls abort(42).  Frame contents are abstracted to the    *)
(* value a word of the frame holds; a frame taken from the free list holds *)
(* its FreeNode, i.e. not 0.                                               *)
(***************************************************************************)
EXTENDS Naturals, Sequences, FiniteSets, TLC

CONSTANTS
  PAGE, Regions, RamdiskFrames, NoFrame, Cores, KernelAS, KernelIdx, UserIdx,
  BootTable, KernelPages, UserPages, PageIdx, TrampolinePage,
  TrampolineFrame, UserFlagChoices, NoTable, NoMapping,
  Apps,        \* the two ApplicationResources of app_test, A and B
  NoApp        \* running_application_data = None

VARIABLES frameAllocator, heldFrames, l4, tables, cr3, halted,
  step,        \* [Cores -> index into AppTest]
  sub,         \* [Cores -> point reached inside the current call]
  res,         \* [Cores -> [Apps -> address space of the resources]]
  contents,    \* [frames -> value of the word of the frame]
  cld,         \* [Cores -> running_application_data: app or NoApp]
  ret,         \* [Cores -> exit code of the current run]
  failed       \* cores whose ass! in app_test failed

VM == INSTANCE VirtualMemory
FA == INSTANCE FrameAllocator WITH held <- heldFrames

vmVars == <<frameAllocator, heldFrames, l4, tables, cr3, halted>>
ldVars == <<step, sub, res, contents, cld, ret, failed>>
vars == <<vmVars, ldVars>>

\* common_main::app_test.  Drop order: locals in reverse order.
AppTest(A, B) ==
  << [op |-> "prepare", app |-> A], [op |-> "prepare", app |-> B],
     [op |-> "run", app |-> A, expect |-> 0],
     [op |-> "run", app |-> B, expect |-> 0],
     [op |-> "run", app |-> A, expect |-> 42],
     [op |-> "drop", app |-> B], [op |-> "drop", app |-> A] >>

CONSTANTS AppA, AppB
Test == AppTest(AppA, AppB)
ASSUME Apps = {AppA, AppB}

\* The two segments of the test program: code (R X) and data (R W).
Segments == <<[page |-> "code", flags |-> {}], [page |-> "data", flags |-> {"NX", "W"}]>>

\* Value a frame holds when it leaves the free list: its FreeNode.
FreeNodeWord == 7

Op(c) == Test[step[c]]
Busy(c) == step[c] <= Len(Test) /\ c \notin failed /\ ~halted

Init ==
  /\ VM!Init
  /\ step = [c \in Cores |-> 1]
  /\ sub = [c \in Cores |-> "begin"]
  /\ res = [c \in Cores |-> [a \in Apps |-> NoTable]]
  /\ contents = [f \in FA!UsableFrames |-> FreeNodeWord]
  /\ cld = [c \in Cores |-> NoApp]
  /\ ret = [c \in Cores |-> 0]
  /\ failed = {}

Next_(c, s) == /\ sub' = [sub EXCEPT ![c] = s] /\ UNCHANGED step
Done(c) == /\ step' = [step EXCEPT ![c] = @ + 1] /\ sub' = [sub EXCEPT ![c] = "begin"]
FrameOf(c, p) == VM!EntryOf(c, p).frame

\* A kernel panic on core c (page fault, failed ass!): it stops, holding
\* nothing; the others go on.
Fail(c) ==
  /\ failed' = failed \cup {c}
  /\ UNCHANGED <<vmVars, step, sub, res, contents, cld, ret>>

-----------------------------------------------------------------------------
(* prepare_application                                                     *)

\* One lock: create_user_page_table, then switch_to_user_page_table.
CreateAndSwitch(c) ==
  /\ Busy(c) /\ Op(c).op = "prepare" /\ sub[c] = "begin"
  /\ LET f == FA!AllocatedFrame(frameAllocator) IN
     IF f = NoFrame THEN VM!Panic /\ UNCHANGED ldVars
     ELSE /\ frameAllocator' = FA!allocate_frame(frameAllocator)
          /\ l4' = l4 @@ (f :> VM!NewL4(c))
          /\ cr3' = [cr3 EXCEPT ![c] = f]
          /\ res' = [res EXCEPT ![c][Op(c).app] = f]
          /\ Next_(c, "map1")
          /\ UNCHANGED <<heldFrames, tables, halted, contents, cld, ret, failed>>

\* map_segment, first lock: map_ram_user(page, flags | WRITABLE).
MapSegment(c, i) ==
  /\ Busy(c) /\ Op(c).op = "prepare" /\ sub[c] = "map" \o ToString(i)
  /\ VM!MapRamUser(c, Segments[i].page, Segments[i].flags \cup {"W"})
  /\ Next_(c, "fill" \o ToString(i))
  /\ UNCHANGED <<res, contents, cld, ret, failed>>

\* Mutant: the fill(0) left out; the segment keeps what the frame held.
FillSegment_no_zero(c, i) ==
  /\ Busy(c) /\ Op(c).op = "prepare" /\ sub[c] = "fill" \o ToString(i)
  /\ Next_(c, "protect" \o ToString(i))
  /\ UNCHANGED <<vmVars, res, contents, cld, ret, failed>>

\* mapped_segment.fill(0), then the copy of the file bytes (COUNTER is 0
\* in the file), through the active table, without the lock.
FillSegment(c, i) ==
  /\ Busy(c) /\ Op(c).op = "prepare" /\ sub[c] = "fill" \o ToString(i)
  /\ contents' = [contents EXCEPT ![FrameOf(c, Segments[i].page)] = 0]
  /\ Next_(c, "protect" \o ToString(i))
  /\ UNCHANGED <<vmVars, res, cld, ret, failed>>

\* Mutant: the flags are never downgraded.
ProtectSegment_skipped(c, i) ==
  /\ Busy(c) /\ Op(c).op = "prepare" /\ sub[c] = "protect" \o ToString(i)
  /\ Next_(c, IF i < Len(Segments) THEN "map" \o ToString(i + 1) ELSE "stack")
  /\ UNCHANGED <<vmVars, res, contents, cld, ret, failed>>

\* map_segment, second lock: change_flags(page, flags | USER | PRESENT).
ProtectSegment(c, i) ==
  /\ Busy(c) /\ Op(c).op = "prepare" /\ sub[c] = "protect" \o ToString(i)
  /\ VM!ChangeFlags(c, Segments[i].page, Segments[i].flags \cup {"U", "P"})
  /\ Next_(c, IF i < Len(Segments) THEN "map" \o ToString(i + 1) ELSE "stack")
  /\ UNCHANGED <<res, contents, cld, ret, failed>>

\* create_user_heap maps nothing; allocate_stack maps the stack pages.
AllocateStack(c) ==
  /\ Busy(c) /\ Op(c).op = "prepare" /\ sub[c] = "stack"
  /\ VM!MapRamUser(c, "stack", {"W", "NX"})
  /\ Next_(c, "switch_back")
  /\ UNCHANGED <<res, contents, cld, ret, failed>>

\* MEMORY.lock().switch_to_kernel_page_table()
PrepareDone(c) ==
  /\ Busy(c) /\ Op(c).op = "prepare" /\ sub[c] = "switch_back"
  /\ VM!SwitchToKernel(c)
  /\ Done(c)
  /\ UNCHANGED <<res, contents, cld, ret, failed>>

-----------------------------------------------------------------------------
(* run                                                                     *)

\* MEMORY.lock().switch_to_user_page_table(resources.l4_page_table)
RunSwitch(c) ==
  /\ Busy(c) /\ Op(c).op = "run" /\ sub[c] = "begin"
  /\ VM!switch_l4_page_table(c, res[c][Op(c).app])
  /\ ~halted
  /\ Next_(c, "enter")
  /\ UNCHANGED <<res, contents, cld, ret, failed>>

\* switch_stack_and_execute installs RunningApplicationCLD, pivots to the
\* user stack and calls the entry; the program starts with println!, whose
\* String is the first allocation.  An empty user heap grows in the
\* rescue: map_ram_user of its first page in the ACTIVE table.  The stack
\* page must be mapped for the pivot (else a page fault panics).
Enter(c) ==
  /\ Busy(c) /\ Op(c).op = "run" /\ sub[c] = "enter"
  /\ cld' = [cld EXCEPT ![c] = Op(c).app]
  /\ IF ~VM!Mapped(c, "stack") THEN Fail(c) /\ UNCHANGED cld
     ELSE IF VM!Mapped(c, "heap")
       THEN /\ Next_(c, "counter") /\ UNCHANGED <<vmVars, res, contents, ret, failed>>
       ELSE /\ VM!MapRamUser(c, "heap", {"W", "NX"})
            /\ Next_(c, "counter") /\ UNCHANGED <<res, contents, ret, failed>>

\* Mutant: the run returns the counter it read instead of the abort code.
Counter_returns_counter(c) ==
  /\ Busy(c) /\ Op(c).op = "run" /\ sub[c] = "counter"
  /\ IF ~VM!Mapped(c, "data") \/ "W" \notin VM!EntryOf(c, "data").flags
       THEN Fail(c)
       ELSE LET old == contents[FrameOf(c, "data")] IN
            /\ contents' = [contents EXCEPT ![FrameOf(c, "data")] = old + 1]
            /\ ret' = [ret EXCEPT ![c] = old]
            /\ Next_(c, "leave")
            /\ UNCHANGED <<vmVars, res, cld, failed>>

\* COUNTER.fetch_add(1) through the active table: 0 -> return 0, else the
\* panic handler prints and calls abort(42), which jumps back to the saved
\* re-entry point of switch_stack_and_execute with 42 in rax.
Counter(c) ==
  /\ Busy(c) /\ Op(c).op = "run" /\ sub[c] = "counter"
  /\ IF ~VM!Mapped(c, "data") \/ "W" \notin VM!EntryOf(c, "data").flags
       THEN Fail(c)
       ELSE LET old == contents[FrameOf(c, "data")] IN
            /\ contents' = [contents EXCEPT ![FrameOf(c, "data")] = old + 1]
            /\ ret' = [ret EXCEPT ![c] = IF old = 0 THEN 0 ELSE 42]
            /\ Next_(c, "leave")
            /\ UNCHANGED <<vmVars, res, cld, failed>>

\* run: running_application_data = None, switch_to_kernel_page_table;
\* then app_test's ass!(run(..) == expected).
Leave(c) ==
  /\ Busy(c) /\ Op(c).op = "run" /\ sub[c] = "leave"
  /\ cld' = [cld EXCEPT ![c] = NoApp]
  /\ VM!SwitchToKernel(c)
  /\ IF ret[c] = Op(c).expect
       THEN Done(c) /\ UNCHANGED failed
       ELSE failed' = failed \cup {c} /\ UNCHANGED <<step, sub>>
  /\ UNCHANGED <<res, contents, ret>>

-----------------------------------------------------------------------------
(* Drop for ApplicationResources: switch in, free nothing (TODO), switch   *)
(* back, each under its own lock.                                          *)

DropSwitchIn(c) ==
  /\ Busy(c) /\ Op(c).op = "drop" /\ sub[c] = "begin"
  /\ VM!switch_l4_page_table(c, res[c][Op(c).app])
  /\ ~halted
  /\ Next_(c, "out")
  /\ UNCHANGED <<res, contents, cld, ret, failed>>

DropSwitchOut(c) ==
  /\ Busy(c) /\ Op(c).op = "drop" /\ sub[c] = "out"
  /\ VM!SwitchToKernel(c)
  /\ Done(c)
  /\ UNCHANGED <<res, contents, cld, ret, failed>>

-----------------------------------------------------------------------------
Prepare(c) ==
  \/ CreateAndSwitch(c)
  \/ \E i \in DOMAIN Segments : MapSegment(c, i) \/ FillSegment(c, i) \/ ProtectSegment(c, i)
  \/ AllocateStack(c)
  \/ PrepareDone(c)

Run(c) == RunSwitch(c) \/ Enter(c) \/ Counter(c) \/ Leave(c)

Core(c) == Prepare(c) \/ Run(c) \/ DropSwitchIn(c) \/ DropSwitchOut(c)

Next == \E c \in Cores : Core(c)

\* Every core executes app_test on its own CPU.
Spec == Init /\ [][Next]_vars /\ \A c \in Cores : WF_vars(Core(c))

-----------------------------------------------------------------------------
TypeOK ==
  /\ VM!TypeOK
  /\ step \in [Cores -> 1 .. Len(Test) + 1]
  /\ res \in [Cores -> [Apps -> DOMAIN l4 \cup {NoTable}]]
  /\ contents \in [FA!UsableFrames -> Nat]
  /\ cld \in [Cores -> Apps \cup {NoApp}]
  /\ ret \in [Cores -> {0, 42}]
  /\ failed \subseteq Cores

\* app_test's assertions hold on every core, whatever the other cores do
\* meanwhile: each program instance sees its own COUNTER, zeroed when it
\* was loaded, through the address space its core switched to; and no
\* core's frame allocation runs the shared pool dry (which panics the
\* kernel before the test can finish).
AppTestPasses == failed = {} /\ ~halted

\* W^X while a program runs: no page of the running address space that
\* the user can reach is both writable and executable (map_segment maps
\* writable first and must downgrade before the program is entered).
WXorX ==
  \A c \in Cores : cld[c] # NoApp =>
    \A p \in UserPages :
      VM!Mapped(c, p) => ~("W" \in VM!EntryOf(c, p).flags /\ "NX" \notin VM!EntryOf(c, p).flags)
=============================================================================
