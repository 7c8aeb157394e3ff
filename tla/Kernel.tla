------------------------------- MODULE Kernel --------------------------------
(***************************************************************************)
(* The kernel's one thread and what can break into it: kernel_main() of    *)
(* kernel/main.c, the tables of kernel/gdt.c and kernel/idt.c, the entry   *)
(* code of kernel/isr.S, the handlers of kernel/isr.c, panic(), and        *)
(* printk() down to the stores of kernel/io/console.c and gop.c.           *)
(*                                                                         *)
(* Interrupts are never enabled, so what breaks in is an exception of the  *)
(* running code or a non-maskable interrupt.  Every handler panics and no  *)
(* panic returns: what was interrupted stays as it is for good, and the    *)
(* panic prints on a console that may be in the middle of a character.     *)
(*                                                                         *)
(* A text is a sequence of glyphs and line feeds.  A step of printk() is   *)
(* one store that the rest can see: a row of a glyph or of the screen, cx  *)
(* or cy.  What a whole character does is Written() of Console.            *)
(***************************************************************************)
EXTENDS Integers, Sequences, SequencesExt

CONSTANTS
  Framebuffers, cell_h, x_advance, KCONSOLE_TABSTOP, BytesPerPixel, U32_MAX, Glyphs,  \* of Console
  IDT_ENTRIES,   \* 256; the exceptions are below 32
  Selectors,     \* what the low 16 bits of &CODE_SEGMENT64 may be
  Faults,        \* exceptions the code may raise
  Greeting,      \* what kcon_init() prints
  Booted,        \* what kernel_main() prints at last
  StackFrames    \* bound: handlers the stack has room for

ASSUME KernelAssumption ==
  /\ IDT_ENTRIES \in Nat /\ IDT_ENTRIES >= 32 /\ StackFrames \in Nat
  /\ Faults \subseteq 0 .. IDT_ENTRIES - 1
  /\ Greeting \in Seq(Glyphs \cup {"LF"}) /\ Greeting # <<>>
  /\ Booted \in Seq(Glyphs \cup {"LF"})
  /\ Glyphs \cap {"CR", "LF", "TAB", "BS", "BEL"} = {}
  /\ cell_h \in Nat \ {0} /\ x_advance \in Nat /\ U32_MAX \in Nat
  /\ \A f \in Framebuffers : f.width \in Nat /\ f.height \in Nat /\ cell_h < f.height

VARIABLES
  pc,        \* the call of kernel_main() that comes next
  cpu,       \* mode, tables loaded, whether an NMI can come, handlers entered, last vector
  preinit,   \* whether the pages only boot used have been given away
  selector,  \* the selector isr_init() puts into the gates
  idt,       \* IDT_arr
  console,   \* "unset", "nodriver" or "ready": kconsole.fb and its operations
  fb,
  kconsole,  \* as in Console
  task,      \* what the thread runs: "main", "panic" of it, or a "handler"
  regs,      \* what x64_isr_handler() was given
  io,        \* printk() under way: text left, next store, its row, where newl goes on
  before     \* history: kconsole before the character under way

vars == <<pc, cpu, preinit, selector, idt, console, fb, kconsole, task, regs, io, before>>

Screen == INSTANCE Console WITH roll <- <<{}>>, line <- 1, RollLines <- 1

Vectors == 0 .. IDT_ENTRIES - 1
NMI == 2
PAGE_FAULT == 14

\* The one selector that names a descriptor of KERN_GDT: offsetof(struct GDT64, cs).
CODE_SEGMENT64 == 8

NoGate == [stub |-> 0, selector |-> 0, present |-> FALSE]

Output(text) == [text |-> text, at |-> "char", row |-> 0, ret |-> "next"]

Init ==
  /\ pc = "gdt_init"
  /\ cpu = [mode |-> "runs", gdtr |-> "boot", idtr |-> FALSE, nmi |-> TRUE, depth |-> 0,
            vector |-> 0]
  /\ preinit = "held"
  /\ selector \in Selectors
  /\ idt = [v \in Vectors |-> NoGate]
  /\ console = "unset"
  /\ fb \in Framebuffers
  /\ kconsole = [cx |-> 0, cy |-> 0, px |-> [r \in Screen!Rows |-> {}]]
  /\ task = "main"
  /\ regs = <<>>
  /\ io = Output(<<>>)
  /\ before = kconsole

Runs == cpu.mode = "runs"

-----------------------------------------------------------------------------
(***************************************************************************)
(* panic() and the handlers.                                               *)
(***************************************************************************)
Banner == <<"LF", "P", "K", "LF">>

panic(as, msg) ==
  /\ task' = as
  /\ io' = Output(msg \o <<"LF">> \o Banner)

\* The handlers by their place in the table of isr.c.
table == <<"DIV", "DEBUG", "NMI", "BRKP", "OVRFLW", "BOUND", "INV_OP", "DEV_NA", "DFAULT", "OVERRUN",
           "INV_TSS", "NO_SEG", "STACK", "GP", "PAGE_FAULT", "INTEL", "FPUERR", "ALIGNCHK",
           "MACHINECHK", "AVX_FPE", "VIRT", "CPE", "HYPER_INJECT", "VM_COMM", "SECURITY">>

\* A message is two glyphs: which it is, and the rest.
Message(v) == IF v + 1 \in DOMAIN table THEN <<table[v + 1], "!", "LF">> ELSE <<"temporary", "!">>

ASSUME MessageAssumption ==
  ToSet(table) \cup {"temporary", "mm_init", "ioremap", "!", "P", "K"} \subseteq Glyphs

\* External: the exceptions for which the processor pushes an error code.
PushesError == {8, 10, 11, 12, 13, 14, 17, 21, 29, 30}

\* What a word of the stack holds.
Saved(what) == [of |-> what, val |-> 0]
Vector(v) == [of |-> "interrupt", val |-> v]

\* The entries of isr.S made with ISR_ERROR.
ISR_ERROR == {8, 10, 11, 12, 13, 14, 17, 21, 29, 30}

\* Variant: vector 21 is taken for one without an error code.
StubPushes_ExtraZero(v) ==
  IF v \in ISR_ERROR \ {21} THEN <<Vector(v)>> ELSE <<Saved("err"), Vector(v)>>

StubPushes(v) == IF v \in ISR_ERROR THEN <<Vector(v)>> ELSE <<Saved("err"), Vector(v)>>

\* isr_common: general registers, then ds.
CommonPushes ==
  LET order == <<"rax", "rbx", "rcx", "rdx", "rsi", "rdi", "rbp", "r8", "r9", "r10", "r11", "r12",
                 "r13", "r14", "r15", "ds">>
  IN  [i \in DOMAIN order |-> Saved(order[i])]

\* External: what the processor saves, the error code last.
CpuPushes(v) ==
  LET order == <<"ss", "rsp", "rflags", "cs", "rip">>
  IN  [i \in DOMAIN order |-> Saved(order[i])]
      \o (IF v \in PushesError THEN <<Saved("err")>> ELSE <<>>)

\* isr_regs, from low addresses to high.
isr_regs ==
  <<"ds", "r15", "r14", "r13", "r12", "r11", "r10", "r9", "r8", "rbp", "rdi", "rsi", "rdx", "rcx",
    "rbx", "rax", "interrupt", "err", "rip", "cs", "rflags", "rsp", "ss">>

\* What a handler reads through its pointer when v is raised and its gate leads to `stub'.
FrameOf(v, stub) ==
  LET stack == Reverse(<<Saved("the code's"), Saved("the code's")>> \o CpuPushes(v)
                       \o StubPushes(stub) \o CommonPushes)
  IN  [f \in ToSet(isr_regs) |-> stack[CHOOSE i \in DOMAIN isr_regs : isr_regs[i] = f]]

\* External: an exception or an NMI is delivered through a present gate whose
\* selector names a code segment, if the stack has room.  Otherwise the next
\* exception fails in the same way, and the third shuts the processor down.
Deliverable(v) ==
  /\ cpu.idtr
  /\ idt[v].present
  /\ idt[v].selector = CODE_SEGMENT64
  /\ cpu.depth < StackFrames

Interrupt(v) ==
  /\ IF Deliverable(v)
     THEN /\ regs' = FrameOf(v, idt[v].stub)
          /\ panic("handler", Message(regs'["interrupt"].val))
          /\ cpu' = [cpu EXCEPT !.mode = "runs", !.depth = @ + 1, !.nmi = @ /\ v # NMI,
                                !.vector = v]
     ELSE /\ cpu' = [cpu EXCEPT !.mode = "shutdown"]
          /\ UNCHANGED <<task, regs, io>>
  /\ UNCHANGED <<pc, preinit, selector, idt, console, fb, kconsole, before>>

\* An exception of whatever the thread runs.
Fault == Runs /\ \E v \in Faults : Interrupt(v)

\* An NMI wakes a halted processor; it masks further ones until an iretq.
NonMaskable == cpu.mode \in {"runs", "halted"} /\ cpu.nmi /\ Interrupt(NMI)

-----------------------------------------------------------------------------
(***************************************************************************)
(* kernel_main().                                                          *)
(***************************************************************************)

\* The thread is in kernel_main() and not in a printk() of it.
Main(call, next) == Runs /\ task = "main" /\ io.text = <<>> /\ pc = call /\ pc' = next

gdt_init ==
  /\ Main("gdt_init", "mm_init")
  /\ cpu' = [cpu EXCEPT !.gdtr = "kernel"]
  /\ UNCHANGED <<preinit, selector, idt, console, fb, kconsole, task, regs, io, before>>

\* kern_uhalf_init() gives the pages away; one of the others may fail.
mm_init ==
  /\ Main("mm_init", "kcon_init")
  /\ preinit' = "reused"
  /\ \/ UNCHANGED <<task, io>>
     \/ panic("panic", <<"mm_init", "!">>)
  /\ UNCHANGED <<cpu, selector, idt, console, fb, kconsole, regs, before>>

\* A framebuffer that cannot be mapped, a boot that is not by UEFI, and success.
kcon_init ==
  /\ Main("kcon_init", "isr_init")
  /\ \/ panic("panic", <<"ioremap", "!">>) /\ UNCHANGED console
     \/ \E c \in {"nodriver", "ready"} : console' = c /\ io' = Output(Greeting) /\ task' = task
  /\ UNCHANGED <<cpu, preinit, selector, idt, fb, kconsole, regs, before>>

\* Entry v is the stub that pushes v.
isr_table == [v \in Vectors |-> v]

idt64_setgate(base, seg_desc) == [stub |-> base, selector |-> seg_desc, present |-> FALSE]

idt64_enablegate(gate) == [gate EXCEPT !.present = TRUE]

\* Variant: the last gate is left out.
isr_init_OneShort ==
  /\ Main("isr_init", "idt_init")
  /\ idt' = [v \in Vectors |-> IF v = IDT_ENTRIES - 1 THEN NoGate
                               ELSE idt64_enablegate(idt64_setgate(isr_table[v], selector))]
  /\ UNCHANGED <<cpu, preinit, selector, console, fb, kconsole, task, regs, io, before>>

isr_init ==
  /\ Main("isr_init", "idt_init")
  /\ idt' = [v \in Vectors |-> idt64_enablegate(idt64_setgate(isr_table[v], selector))]
  /\ UNCHANGED <<cpu, preinit, selector, console, fb, kconsole, task, regs, io, before>>

idt_init ==
  /\ Main("idt_init", "printk")
  /\ cpu' = [cpu EXCEPT !.idtr = TRUE]
  /\ UNCHANGED <<preinit, selector, idt, console, fb, kconsole, task, regs, io, before>>

SaysBooted ==
  /\ Main("printk", "kidle")
  /\ io' = Output(Booted)
  /\ UNCHANGED <<cpu, preinit, selector, idt, console, fb, kconsole, task, regs, before>>

kidle ==
  /\ Main("kidle", "kidle")
  /\ cpu' = [cpu EXCEPT !.mode = "halted"]
  /\ UNCHANGED <<preinit, selector, idt, console, fb, kconsole, task, regs, io, before>>

\* Variant: the loop of panic() begins before its last line is printed.
PanicHalts_Repeats ==
  /\ Runs /\ task # "main" /\ io.text = <<>>
  /\ io' = Output(Banner)
  /\ UNCHANGED <<pc, cpu, preinit, selector, idt, console, fb, kconsole, task, regs, before>>

\* The end of panic(): cli, and hlt for ever.
PanicHalts ==
  /\ Runs /\ task # "main" /\ io.text = <<>>
  /\ cpu' = [cpu EXCEPT !.mode = "halted"]
  /\ UNCHANGED <<pc, preinit, selector, idt, console, fb, kconsole, task, regs, io, before>>

-----------------------------------------------------------------------------
(***************************************************************************)
(* kcon_write(), store by store.                                           *)
(***************************************************************************)
Printing(label) == Runs /\ io.text # <<>> /\ io.at = label

Elsewhere == UNCHANGED <<pc, cpu, preinit, selector, idt, console, fb, task, regs>>

\* Only the place in kcon_write() changes.
Goto(label, row, ret) == io' = [io EXCEPT !.at = label, !.row = row, !.ret = ret]

\* Without a framebuffer, or without its operations, the first use of one is
\* a read through NULL.  It is taken to fault.  If there was no page for the
\* second tables (pagetbl.c:265) the boot tables still map page 0, and what is
\* called then is what lies there; that is left out.
NullConsole == Printing("char") /\ console # "ready" /\ Interrupt(PAGE_FAULT)

\* Room for the line is made before anything else.
CharStart ==
  /\ Printing("char") /\ console = "ready"
  /\ before' = kconsole
  /\ IF kconsole.cy >= Screen!U32(fb.height - cell_h) THEN Goto("newl", 0, "emit")
     ELSE Goto("emit", 0, "next")
  /\ kconsole' = kconsole /\ Elsewhere

Emit ==
  /\ Printing("emit")
  /\ IF Head(io.text) = "LF" THEN Goto("newl", 0, "next") ELSE Goto("blit", 0, "next")
  /\ UNCHANGED <<kconsole, before>> /\ Elsewhere

BlitRow ==
  /\ Printing("blit")
  /\ kconsole' = [kconsole EXCEPT !.px = Screen!gop_blit(@, kconsole.cy + io.row,
                    [x |-> kconsole.cx, ch |-> Head(io.text), row |-> io.row])]
  /\ IF io.row + 1 < cell_h THEN Goto("blit", io.row + 1, "next") ELSE Goto("advance", 0, "next")
  /\ before' = before /\ Elsewhere

Advance ==
  /\ Printing("advance")
  /\ kconsole' = [kconsole EXCEPT !.cx = Screen!U32(@ + x_advance)]
  /\ IF kconsole'.cx >= fb.width THEN Goto("newl", 0, "next") ELSE Goto("next", 0, "next")
  /\ before' = before /\ Elsewhere

\* con_ctrl_newl() up to the choice between scrolling and moving down.
NewLine ==
  /\ Printing("newl")
  /\ kconsole' = [kconsole EXCEPT !.cx = 0]
  /\ IF Screen!U32(kconsole.cy + cell_h) >= fb.height THEN Goto("move", 0, io.ret)
     ELSE Goto("feed", 0, io.ret)
  /\ before' = before /\ Elsewhere

\* A row of memmove() in gop_scroll().
MoveRow ==
  /\ Printing("move")
  /\ kconsole' = [kconsole EXCEPT !.px[io.row] = kconsole.px[io.row + cell_h]]
  /\ IF io.row + 1 < fb.height - cell_h THEN Goto("move", io.row + 1, io.ret)
     ELSE Goto("blank", io.row + 1, io.ret)
  /\ before' = before /\ Elsewhere

\* Variant: the rows that are laid bare keep their ink.
BlankRow_Keeps ==
  /\ Printing("blank")
  /\ IF io.row + 1 < fb.height THEN Goto("blank", io.row + 1, io.ret) ELSE Goto("up", 0, io.ret)
  /\ UNCHANGED <<kconsole, before>> /\ Elsewhere

\* A row of memset() in gop_scroll().
BlankRow ==
  /\ Printing("blank")
  /\ kconsole' = [kconsole EXCEPT !.px[io.row] = {}]
  /\ IF io.row + 1 < fb.height THEN Goto("blank", io.row + 1, io.ret) ELSE Goto("up", 0, io.ret)
  /\ before' = before /\ Elsewhere

\* Variant: the cursor stays where it is.
CursorUp_Stays ==
  /\ Printing("up")
  /\ kconsole' = kconsole
  /\ Goto("home", 0, io.ret)
  /\ before' = before /\ Elsewhere

\* The end of con_scroll_by().
CursorUp ==
  /\ Printing("up")
  /\ kconsole' = [kconsole EXCEPT !.cy = Screen!U32(@ - cell_h)]
  /\ Goto("home", 0, io.ret)
  /\ before' = before /\ Elsewhere

CursorDown ==
  /\ Printing("feed")
  /\ kconsole' = [kconsole EXCEPT !.cy = Screen!U32(@ + cell_h)]
  /\ Goto("home", 0, io.ret)
  /\ before' = before /\ Elsewhere

\* The end of con_ctrl_newl().
CursorHome ==
  /\ Printing("home")
  /\ kconsole' = [kconsole EXCEPT !.cx = 0]
  /\ Goto(io.ret, 0, "next")
  /\ before' = before /\ Elsewhere

NextChar ==
  /\ Printing("next")
  /\ io' = Output(Tail(io.text))
  /\ UNCHANGED <<kconsole, before>> /\ Elsewhere

kcon_write ==
  \/ NullConsole \/ CharStart \/ Emit \/ BlitRow \/ Advance \/ NewLine \/ MoveRow \/ BlankRow
  \/ CursorUp \/ CursorDown \/ CursorHome \/ NextChar

kernel_main == gdt_init \/ mm_init \/ kcon_init \/ isr_init \/ idt_init \/ SaysBooted \/ kidle

Thread == kernel_main \/ kcon_write \/ PanicHalts

\* The machine stops for good: halted without an NMI to come, or shut down.
Stopped ==
  /\ cpu.mode = "shutdown" \/ (cpu.mode = "halted" /\ ~cpu.nmi)
  /\ UNCHANGED vars

Next == Thread \/ Fault \/ NonMaskable \/ Stopped

\* A processor that runs executes the next instruction.
Spec == Init /\ [][Next]_vars /\ WF_vars(Thread)

-----------------------------------------------------------------------------
\* A character that is not interrupted does to the console what Written() of
\* Console says, whatever an earlier interrupt left of it.
CharWhole ==
  io.text # <<>> /\ io.at = "next" => kconsole = Screen!Written(before, Head(io.text))

\* Each saved register is in its field, the vector that was raised in
\* `interrupt', and what iretq needs where iretq takes it.
FitsVector(frame, v) ==
  \A f \in DOMAIN frame : frame[f] = IF f = "interrupt" THEN Vector(v) ELSE Saved(f)

\* That is what a handler finds, and what any handler would find once the
\* kernel is up, whether or not the processor pushes an error code.
FrameRight ==
  /\ task = "handler" => FitsVector(regs, cpu.vector)
  /\ pc = "kidle" /\ task = "main" => \A v \in Vectors : FitsVector(FrameOf(v, idt[v].stub), v)

\* A glyph with all its rows; and one that is alone in its place.
Whole(g, x, y) ==
  \A i \in 0 .. cell_h - 1 : [x |-> x, ch |-> g, row |-> i] \in kconsole.px[y + i]

Legible(g, x, y) ==
  \A i \in 0 .. cell_h - 1 :
    {s \in kconsole.px[y + i] : s.x = x} = {[x |-> x, ch |-> g, row |-> i]}

\* When a panic has halted, its last line stands alone on the screen with
\* nothing below it, whatever store of an earlier printk() it cut off.  So does
\* the message above it, but that may lie over the line that was interrupted,
\* and its first glyph may be off the screen.
PanicShows ==
  cpu.mode = "halted" /\ task # "main" =>
    \E y, z \in Screen!Rows, x \in 0 .. fb.width - 1 :
      /\ z < y /\ y + cell_h \in Screen!Rows
      /\ Legible("P", 0, y) /\ Legible("K", x_advance, y)
      /\ Whole("!", x, z)
      /\ \A r \in Screen!Rows : r >= y + cell_h => kconsole.px[r] = {}

\* Nothing the processor uses lies in the pages that were given away, and once it
\* has an IDT every gate is there, and so is the console the handlers print on.
NothingStale ==
  /\ preinit = "reused" => cpu.gdtr = "kernel"
  /\ cpu.idtr => console = "ready" /\ \A v \in Vectors : idt[v].present /\ idt[v].stub = v

\* Once a handler has been reached, the processor shuts down only when the
\* stack has no room for another: no gate is worse than the first.
StackGivesOut == cpu.mode = "shutdown" /\ task = "handler" => cpu.depth = StackFrames

\* An exception that reaches its handler ends with a halted processor, also if
\* printing raises further ones: in the end the stack gives out, and only then
\* does the processor shut down.
PanicEnds ==
  /\ task = "handler" ~> cpu.mode \in {"halted", "shutdown"}
  /\ []StackGivesOut

=============================================================================
