---------------------------- MODULE KernelProofs ----------------------------
(***************************************************************************)
(* Proofs that the processor never relies on what is gone or not yet there *)
(* (NothingStale of Kernel), and that a handler once reached is followed   *)
(* by a shutdown only when the stack is full (StackGivesOut), for every    *)
(* framebuffer, text, set of faults and size of the tables, whatever is    *)
(* interrupted where; and that x64_isr_handler() finds in every field of   *)
(* its struct isr_regs what that field is named for (FrameRight).          *)
(*                                                                         *)
(* The order of kernel_main() is what makes it true: the strengthening     *)
(* says for each call what the earlier ones have done.  kcon_init() may    *)
(* leave a console that cannot print; its own greeting then never ends,    *)
(* and kernel_main() does not get as far as isr_init().                    *)
(***************************************************************************)
EXTENDS Kernel, CommonLemmas

\* The records have their fields.
Shape ==
  /\ cpu = [mode |-> cpu.mode, gdtr |-> cpu.gdtr, idtr |-> cpu.idtr, nmi |-> cpu.nmi,
            depth |-> cpu.depth, vector |-> cpu.vector]
  /\ io = [text |-> io.text, at |-> io.at, row |-> io.row, ret |-> io.ret]

\* Nothing has been printed on a console that cannot print.
Unprinted == console # "ready" => io.at = "char"

\* The greeting of kcon_init() is under way.
Greets == console # "ready" => task # "main" \/ io.text # <<>>

Gated == \A v \in Vectors : idt[v].present /\ idt[v].stub = v

\* What has been done when a call of kernel_main() is next.
Order ==
  /\ preinit = "reused" => pc \notin {"gdt_init", "mm_init"}
  /\ pc # "gdt_init" => cpu.gdtr = "kernel"
  /\ cpu.idtr => pc \in {"printk", "kidle"}
  /\ pc \notin {"gdt_init", "mm_init", "kcon_init"} => Greets
  /\ pc \in {"idt_init", "printk", "kidle"} => console = "ready" /\ Gated

KInv == Shape /\ Unprinted /\ Order

LEMMA InitKInv == Init => KInv
BY DEF Init, KInv, Shape, Unprinted, Order, Output

\* An exception changes nothing of it, whether or not it reaches its handler.
LEMMA InterruptKInv ==
  ASSUME KInv, NEW v, Interrupt(v)
  PROVE  KInv'
<1>1. CASE Deliverable(v)
  <2>1. /\ cpu' = [cpu EXCEPT !.mode = "runs", !.depth = @ + 1, !.nmi = @ /\ v # NMI, !.vector = v]
        /\ \E m : io' = Output(m) 
        /\ task' = "handler"
        /\ UNCHANGED <<pc, preinit, selector, idt, console, fb, kconsole, before>>
    BY <1>1 DEF Interrupt, panic
  <2>2. cpu.idtr
    BY <1>1 DEF Deliverable
  <2>3. console = "ready" /\ Gated /\ pc \in {"printk", "kidle"}
    BY <2>2 DEF KInv, Order
  <2>4. cpu'.gdtr = cpu.gdtr /\ Shape'
    BY <2>1 DEF KInv, Shape, Output
  <2> QED BY <2>1, <2>3, <2>4 DEF KInv, Order, Unprinted, Greets, Gated
<1>2. CASE ~Deliverable(v)
  <2>1. /\ cpu' = [cpu EXCEPT !.mode = "shutdown"]
        /\ UNCHANGED <<pc, preinit, idt, console, task, io>>
    BY <1>2 DEF Interrupt
  <2>2. cpu'.gdtr = cpu.gdtr /\ cpu'.idtr = cpu.idtr /\ Shape'
    BY <2>1 DEF KInv, Shape
  <2> QED BY <2>1, <2>2 DEF KInv, Order, Unprinted, Greets, Gated
<1> QED BY <1>1, <1>2

\* The calls of kernel_main(), in the order of its text.
LEMMA MainKInv ==
  ASSUME KInv, kernel_main
  PROVE  KInv'
<1> USE DEF KInv, Shape, Unprinted, Greets, Main
<1>1. CASE gdt_init
  BY <1>1 DEF gdt_init, Order, Gated
<1>2. CASE mm_init
  BY <1>2 DEF mm_init, Order, Gated, panic, Output
<1>3. CASE kcon_init
  <2>1. Greeting # <<>>
    BY KernelAssumption
  <2> QED BY <1>3, <2>1 DEF kcon_init, Order, Gated, panic, Output
<1>4. CASE isr_init
  <2>1. console = "ready"
    BY <1>4 DEF isr_init, Order
  <2>2. Gated'
    BY <1>4 DEF isr_init, Gated, isr_table, idt64_setgate, idt64_enablegate, Vectors
  <2> QED BY <1>4, <2>1, <2>2 DEF isr_init, Order
<1>5. CASE idt_init
  BY <1>5 DEF idt_init, Order, Gated
<1>6. CASE SaysBooted
  BY <1>6 DEF SaysBooted, Order, Gated, Output
<1>7. CASE kidle
  BY <1>7 DEF kidle, Order, Gated
<1> QED BY <1>1, <1>2, <1>3, <1>4, <1>5, <1>6, <1>7 DEF kernel_main

\* A store of kcon_write() is one of a console that can print, or faults.
LEMMA WriteKInv ==
  ASSUME KInv, kcon_write
  PROVE  KInv'
<1>1. CASE NullConsole
  BY <1>1, InterruptKInv DEF NullConsole
<1>2. CASE ~NullConsole
  <2>1. console = "ready"
    BY <1>2 DEF kcon_write, KInv, Unprinted, CharStart, Emit, BlitRow, Advance, NewLine, MoveRow,
               BlankRow, CursorUp, CursorDown, CursorHome, NextChar, Printing
  <2>2. UNCHANGED <<pc, cpu, preinit, idt, console, task>>
    BY <1>2 DEF kcon_write, CharStart, Emit, BlitRow, Advance, NewLine, MoveRow, BlankRow, CursorUp,
               CursorDown, CursorHome, NextChar, Elsewhere
  <2>3. \/ \E label, row, ret : Goto(label, row, ret)
        \/ \E text : io' = Output(text)
    BY <1>2 DEF kcon_write, CharStart, Emit, BlitRow, Advance, NewLine, MoveRow, BlankRow, CursorUp,
               CursorDown, CursorHome, NextChar
  <2>4. Shape'
    BY <2>2, <2>3 DEF KInv, Shape, Goto, Output
  <2> QED BY <2>1, <2>2, <2>4 DEF KInv, Unprinted, Order, Greets, Gated
<1> QED BY <1>1, <1>2

LEMMA HaltKInv ==
  ASSUME KInv, PanicHalts
  PROVE  KInv'
BY DEF PanicHalts, KInv, Shape, Unprinted, Order, Greets, Gated

\* Every step keeps it.
LEMMA NextKInv == KInv /\ [Next]_vars => KInv'
<1> SUFFICES ASSUME KInv, [Next]_vars PROVE KInv'
  OBVIOUS
<1>1. CASE Thread
  BY <1>1, MainKInv, WriteKInv, HaltKInv DEF Thread
<1>2. CASE Fault
  BY <1>2, InterruptKInv DEF Fault
<1>3. CASE NonMaskable
  BY <1>3, InterruptKInv DEF NonMaskable
<1>4. CASE UNCHANGED vars
  BY <1>4 DEF vars, KInv, Shape, Unprinted, Order, Greets, Gated
<1> QED BY <1>1, <1>2, <1>3, <1>4 DEF Next, Stopped

\* Whatever fails or is interrupted, GDTR is the kernel's once the pages boot
\* used are given away, and a loaded IDT is complete and has a console to print on.
THEOREM NeverStale == Spec => []NothingStale
<1>1. KInv => NothingStale
  BY DEF KInv, Order, NothingStale, Gated
<1> QED BY <1>1, InitKInv, NextKInv, PTL DEF Spec

-----------------------------------------------------------------------------
(***************************************************************************)
(* The second result: after the first handler only the stack can end it.   *)
(***************************************************************************)

\* All gates have the selector that isr_init() computed.
SameSelector ==
  pc \in {"idt_init", "printk", "kidle"} => \A v \in Vectors : idt[v].selector = selector

\* A handler was reached through one of them.
Reached == task = "handler" => cpu.idtr /\ selector = CODE_SEGMENT64

Depth == cpu.depth \in 0 .. StackFrames

HInv == SameSelector /\ Reached /\ Depth /\ StackGivesOut

LEMMA InitHInv == Init => HInv
<1>1. StackFrames \in Nat
  BY KernelAssumption
<1> QED BY <1>1 DEF Init, HInv, SameSelector, Reached, Depth, StackGivesOut

LEMMA InterruptHInv ==
  ASSUME KInv, HInv, NEW v \in Vectors, Interrupt(v)
  PROVE  HInv'
<1>1. StackFrames \in Nat
  BY KernelAssumption
<1>2. CASE Deliverable(v)
  <2>1. /\ cpu' = [cpu EXCEPT !.mode = "runs", !.depth = @ + 1, !.nmi = @ /\ v # NMI, !.vector = v]
        /\ UNCHANGED <<pc, selector, idt>>
    BY <1>2 DEF Interrupt
  <2>2. cpu'.mode = "runs" /\ cpu'.depth = cpu.depth + 1 /\ cpu'.idtr = cpu.idtr
    BY <2>1 DEF KInv, Shape
  <2>3. cpu.idtr /\ idt[v].selector = CODE_SEGMENT64 /\ cpu.depth < StackFrames
    BY <1>2 DEF Deliverable
  <2>4. selector = CODE_SEGMENT64
    BY <2>3 DEF KInv, Order, HInv, SameSelector
  <2>5. Depth'
    BY <1>1, <2>2, <2>3 DEF HInv, Depth
  <2>6. Reached' /\ StackGivesOut'
    BY <2>1, <2>2, <2>3, <2>4 DEF Reached, StackGivesOut
  <2> QED BY <2>1, <2>5, <2>6 DEF HInv, SameSelector
<1>3. CASE ~Deliverable(v)
  <2>1. cpu' = [cpu EXCEPT !.mode = "shutdown"] /\ UNCHANGED <<pc, selector, idt, task>>
    BY <1>3 DEF Interrupt
  <2>2. cpu'.depth = cpu.depth /\ cpu'.idtr = cpu.idtr
    BY <2>1 DEF KInv, Shape
  <2>3. ASSUME task = "handler"
        PROVE  cpu.depth = StackFrames
    <3>1. cpu.idtr /\ selector = CODE_SEGMENT64
      BY <2>3 DEF HInv, Reached
    <3>2. idt[v].present /\ idt[v].selector = CODE_SEGMENT64
      BY <3>1 DEF KInv, Order, Gated, HInv, SameSelector
    <3>3. ~(cpu.depth < StackFrames)
      BY <1>3, <3>1, <3>2 DEF Deliverable
    <3> QED BY <1>1, <3>3 DEF HInv, Depth
  <2> QED BY <2>1, <2>2, <2>3 DEF HInv, SameSelector, Reached, Depth, StackGivesOut
<1> QED BY <1>2, <1>3

\* The thread leaves depth alone and enters no handler; only isr_init() sets gates.
LEMMA MainHInv ==
  ASSUME KInv, HInv, kernel_main
  PROVE  HInv'
<1> USE DEF KInv, Shape, HInv, Reached, Depth, StackGivesOut, Main
<1>1. CASE gdt_init
  BY <1>1 DEF gdt_init, SameSelector
<1>2. CASE mm_init
  BY <1>2 DEF mm_init, SameSelector, panic
<1>3. CASE kcon_init
  BY <1>3 DEF kcon_init, SameSelector, panic
<1>4. CASE isr_init
  <2>1. SameSelector'
    BY <1>4 DEF isr_init, SameSelector, isr_table, idt64_setgate, idt64_enablegate, Vectors
  <2> QED BY <1>4, <2>1 DEF isr_init
<1>5. CASE idt_init
  BY <1>5 DEF idt_init, SameSelector
<1>6. CASE SaysBooted
  BY <1>6 DEF SaysBooted, SameSelector
<1>7. CASE kidle
  BY <1>7 DEF kidle, SameSelector
<1> QED BY <1>1, <1>2, <1>3, <1>4, <1>5, <1>6, <1>7 DEF kernel_main

LEMMA VectorsUsed == NMI \in Vectors /\ PAGE_FAULT \in Vectors /\ Faults \subseteq Vectors
BY KernelAssumption DEF NMI, PAGE_FAULT, Vectors

LEMMA WriteHInv ==
  ASSUME KInv, HInv, kcon_write
  PROVE  HInv'
<1>1. CASE NullConsole
  BY <1>1, InterruptHInv, VectorsUsed DEF NullConsole
<1>2. CASE ~NullConsole
  <2>1. UNCHANGED <<pc, cpu, selector, idt, task>>
    BY <1>2 DEF kcon_write, CharStart, Emit, BlitRow, Advance, NewLine, MoveRow, BlankRow, CursorUp,
               CursorDown, CursorHome, NextChar, Elsewhere
  <2> QED BY <2>1 DEF HInv, SameSelector, Reached, Depth, StackGivesOut
<1> QED BY <1>1, <1>2

LEMMA HaltHInv ==
  ASSUME KInv, HInv, PanicHalts
  PROVE  HInv'
BY DEF PanicHalts, KInv, Shape, HInv, SameSelector, Reached, Depth, StackGivesOut

LEMMA NextHInv == KInv /\ HInv /\ [Next]_vars => HInv'
<1> SUFFICES ASSUME KInv, HInv, [Next]_vars PROVE HInv'
  OBVIOUS
<1>1. CASE Thread
  BY <1>1, MainHInv, WriteHInv, HaltHInv DEF Thread
<1>2. CASE Fault
  BY <1>2, InterruptHInv, VectorsUsed DEF Fault
<1>3. CASE NonMaskable
  BY <1>3, InterruptHInv, VectorsUsed DEF NonMaskable
<1>4. CASE UNCHANGED vars
  BY <1>4 DEF vars, HInv, SameSelector, Reached, Depth, StackGivesOut
<1> QED BY <1>1, <1>2, <1>3, <1>4 DEF Next, Stopped

\* However often printing the panic faults or is interrupted, the processor is
\* not shut down before the stack is full: the safety half of PanicEnds.
THEOREM OnlyTheStack == Spec => []StackGivesOut
<1>1. HInv => StackGivesOut
  BY DEF HInv
<1> QED BY <1>1, InitKInv, NextKInv, InitHInv, NextHInv, PTL DEF Spec

-----------------------------------------------------------------------------
(***************************************************************************)
(* The third result: every handler finds the frame it declares.            *)
(***************************************************************************)
\* What is on the stack when isr_common calls x64_isr_handler().
Pushed(v) ==
  <<Saved("the code's"), Saved("the code's")>> \o CpuPushes(v) \o StubPushes(v) \o CommonPushes

\* The word of a field.
Word(f, v) == IF f = "interrupt" THEN Vector(v) ELSE Saved(f)

\* A function on 1 .. n is a sequence of length n.
LEMMA AsSeq ==
  ASSUME NEW S, NEW n \in Nat, NEW f \in [1 .. n -> S]
  PROVE  f \in Seq(S) /\ Len(f) = n
OBVIOUS

\* An exception with an error code and one without leave stacks of one length.
LEMMA StackWords ==
  ASSUME NEW v \in Int
  PROVE  /\ Len(Pushed(v)) = 25
         /\ \A i \in 1 .. 23 : Pushed(v)[26 - i] = Word(isr_regs[i], v)
<1> DEFINE cpuOrder == <<"ss", "rsp", "rflags", "cs", "rip">>
           order == <<"rax", "rbx", "rcx", "rdx", "rsi", "rdi", "rbp", "r8", "r9", "r10", "r11",
                      "r12", "r13", "r14", "r15", "ds">>
           code == Saved("the code's")
           a == <<code, code>>
           c == [i \in 1 .. 5 |-> Saved(cpuOrder[i])]
           e == IF v \in PushesError THEN <<Saved("err")>> ELSE <<>>
           s == StubPushes(v)
           es == e \o s
           m == [i \in 1 .. 16 |-> Saved(order[i])]
           Words == {c[i] : i \in 1 .. 5} \cup {m[i] : i \in 1 .. 16}
                    \cup {code, Saved("err"), Vector(v)}
           all == ((a \o c) \o es) \o m
<1>1. DOMAIN cpuOrder = 1 .. 5 /\ DOMAIN order = 1 .. 16
  OBVIOUS
<1>2. CpuPushes(v) = c \o e /\ CommonPushes = m
  BY <1>1 DEF CpuPushes, CommonPushes
<1>3. \/ e = <<Saved("err")>> /\ s = <<Vector(v)>>
      \/ e = <<>> /\ s = <<Saved("err"), Vector(v)>>
  BY DEF StubPushes, PushesError, ISR_ERROR
<1>4. /\ c[1] = Saved("ss") /\ c[2] = Saved("rsp") /\ c[3] = Saved("rflags") /\ c[4] = Saved("cs")
      /\ c[5] = Saved("rip")
  OBVIOUS
<1>5. /\ m[1] = Saved("rax") /\ m[2] = Saved("rbx") /\ m[3] = Saved("rcx") /\ m[4] = Saved("rdx")
      /\ m[5] = Saved("rsi") /\ m[6] = Saved("rdi") /\ m[7] = Saved("rbp") /\ m[8] = Saved("r8")
      /\ m[9] = Saved("r9") /\ m[10] = Saved("r10") /\ m[11] = Saved("r11") /\ m[12] = Saved("r12")
      /\ m[13] = Saved("r13") /\ m[14] = Saved("r14") /\ m[15] = Saved("r15") /\ m[16] = Saved("ds")
  OBVIOUS
<1> HIDE DEF cpuOrder, order, code, e, s
<1>6. c \in [1 .. 5 -> Words] /\ m \in [1 .. 16 -> Words]
      /\ code \in Words /\ Saved("err") \in Words /\ Vector(v) \in Words
  OBVIOUS
<1> HIDE DEF c, m, Words
<1>7. c \in Seq(Words) /\ Len(c) = 5
  BY <1>6, AsSeq
<1>8. m \in Seq(Words) /\ Len(m) = 16
  BY <1>6, AsSeq
<1>9. c \in Seq(Words) /\ m \in Seq(Words)
  BY <1>7, <1>8
<1>10. Len(c) = 5 /\ Len(m) = 16
  BY <1>7, <1>8
<1>11. a \in Seq(Words) /\ Len(a) = 2
  BY <1>6
<1>12. /\ e \in Seq(Words) /\ s \in Seq(Words) /\ es \in Seq(Words)
       /\ Len(es) = 2 /\ es[1] = Saved("err") /\ es[2] = Vector(v)
  <2> DEFINE x == Saved("err")
             y == Vector(v)
  <2>1. x \in Words /\ y \in Words
    BY <1>6
  <2> HIDE DEF x, y
  <2>2. /\ <<x>> \in Seq(Words) /\ <<y>> \in Seq(Words) /\ <<x>> \o <<y>> \in Seq(Words)
        /\ Len(<<x>> \o <<y>>) = 2 /\ (<<x>> \o <<y>>)[1] = x /\ (<<x>> \o <<y>>)[2] = y
    BY <2>1
  <2>3. /\ <<>> \in Seq(Words) /\ <<x, y>> \in Seq(Words) /\ <<>> \o <<x, y>> = <<x, y>>
        /\ Len(<<x, y>>) = 2 /\ <<x, y>>[1] = x /\ <<x, y>>[2] = y
    BY <2>1
  <2>4. CASE e = <<x>> /\ s = <<y>>
    BY <2>2, <2>4, Zenon DEF x, y
  <2>5. CASE e = <<>> /\ s = <<x, y>>
    BY <2>3, <2>5, Zenon DEF x, y
  <2> QED BY <2>4, <2>5, <1>3 DEF x, y
<1>13. a \in Seq(Words)
  BY <1>11
<1>14. e \in Seq(Words) /\ s \in Seq(Words)
  BY <1>12
<1>15. es \in Seq(Words)
  BY <1>12
<1> HIDE DEF a
<1> DEFINE ac == a \o c
           ace == ac \o es
<1>16. ac \in Seq(Words)
  BY <1>13, <1>9
<1>17. Pushed(v) = all
  <2>1. Pushed(v) = ((a \o (c \o e)) \o s) \o m
    BY <1>2 DEF Pushed, s, code, a
  <2>2. a \o (c \o e) = (a \o c) \o e
    BY <1>13, <1>14, <1>9
  <2> HIDE DEF ac
  <2>3. (ac \o e) \o s = ac \o (e \o s)
    BY <1>14, <1>16
  <2> QED BY <2>1, <2>2, <2>3 DEF ac
<1> HIDE DEF es
<1>18. ace \in Seq(Words)
  <2> HIDE DEF ac
  <2> QED BY <1>15, <1>16
<1>19. /\ Len(ac) = Len(a) + Len(c)
      /\ \A i \in 1 .. Len(a) + Len(c) : ac[i] = IF i <= Len(a) THEN a[i] ELSE c[i - Len(a)]
  BY <1>13, <1>9
<1> HIDE DEF ac
<1>20. /\ Len(ace) = Len(ac) + Len(es)
      /\ \A i \in 1 .. Len(ac) + Len(es) : ace[i] = IF i <= Len(ac) THEN ac[i] ELSE es[i - Len(ac)]
  BY <1>15, <1>16
<1> HIDE DEF ace
<1>21. /\ Len(ace \o m) = Len(ace) + Len(m)
      /\ \A i \in 1 .. Len(ace) + Len(m) :
           (ace \o m)[i] = IF i <= Len(ace) THEN ace[i] ELSE m[i - Len(ace)]
  BY <1>18, <1>9
<1>22. all = ace \o m
  BY DEF all, ace, ac
<1> HIDE DEF all
<1>23. Len(ac) = 7 /\ Len(ace) = 9 /\ Len(all) = 25
  BY <1>10, <1>11, <1>12, <1>19, <1>20, <1>21, <1>22
<1>24. /\ \A i \in 1 .. 5 : all[2 + i] = c[i]
       /\ \A i \in 1 .. 2 : all[7 + i] = es[i]
       /\ \A i \in 1 .. 16 : all[9 + i] = m[i]
  <2>1. \A i \in 1 .. 7 : ac[i] = IF i <= 2 THEN a[i] ELSE c[i - 2]
    BY <1>10, <1>11, <1>19
  <2>2. \A i \in 1 .. 9 : ace[i] = IF i <= 7 THEN ac[i] ELSE es[i - 7]
    BY <1>12, <1>20, <1>23
  <2>3. \A i \in 1 .. 25 : all[i] = IF i <= 9 THEN ace[i] ELSE m[i - 9]
    BY <1>10, <1>21, <1>22, <1>23
  <2> QED BY <2>1, <2>2, <2>3
<1>25. \A i \in 10 .. 25 : all[i] = m[i - 9]
  <2> SUFFICES ASSUME NEW i \in 10 .. 25
               PROVE  all[i] = m[i - 9]
    OBVIOUS
  <2>1. i - 9 \in 1 .. 16 /\ 9 + (i - 9) = i
    OBVIOUS
  <2> QED BY <2>1, <1>24
<1>26. /\ all[25] = Saved("ds") /\ all[24] = Saved("r15") /\ all[23] = Saved("r14")
       /\ all[22] = Saved("r13") /\ all[21] = Saved("r12") /\ all[20] = Saved("r11")
       /\ all[19] = Saved("r10") /\ all[18] = Saved("r9") /\ all[17] = Saved("r8")
       /\ all[16] = Saved("rbp") /\ all[15] = Saved("rdi") /\ all[14] = Saved("rsi")
       /\ all[13] = Saved("rdx") /\ all[12] = Saved("rcx") /\ all[11] = Saved("rbx")
       /\ all[10] = Saved("rax")
  BY <1>5, <1>25
<1>27. /\ all[9] = Vector(v) /\ all[8] = Saved("err") /\ all[7] = Saved("rip")
       /\ all[6] = Saved("cs") /\ all[5] = Saved("rflags") /\ all[4] = Saved("rsp")
       /\ all[3] = Saved("ss")
  <2>1. all[7 + 2] = es[2] /\ all[7 + 1] = es[1]
    BY <1>24
  <2>2. /\ all[2 + 5] = c[5] /\ all[2 + 4] = c[4] /\ all[2 + 3] = c[3] /\ all[2 + 2] = c[2]
        /\ all[2 + 1] = c[1]
    BY <1>24
  <2> QED BY <2>1, <2>2, <1>4, <1>12
<1>28. \A i \in 1 .. 23 : all[26 - i] = Word(isr_regs[i], v)
  <2> SUFFICES ASSUME NEW i \in 1 .. 23
               PROVE  all[26 - i] = Word(isr_regs[i], v)
    OBVIOUS
  <2>1. i \in 1 .. 16 => all[26 - i] = Word(isr_regs[i], v)
    BY <1>26 DEF Word, isr_regs
  <2>2. i \in 17 .. 23 => all[26 - i] = Word(isr_regs[i], v)
    BY <1>27 DEF Word, isr_regs
  <2> QED BY <2>1, <2>2
<1> QED BY <1>17, <1>23, <1>28

\* Through its own gate, every vector gets its frame.
LEMMA FrameFits ==
  ASSUME NEW v \in Int
  PROVE  FitsVector(FrameOf(v, v), v) /\ FrameOf(v, v)["interrupt"].val = v
<1> DEFINE stack == Reverse(Pushed(v))
           at(f) == CHOOSE i \in DOMAIN isr_regs : isr_regs[i] = f
<1>1. DOMAIN isr_regs = 1 .. 23
  BY DEF isr_regs
<1>2. ASSUME NEW i \in 1 .. 23
      PROVE  stack[i] = Word(isr_regs[i], v)
  <2>1. Len(Pushed(v)) = 25 /\ i \in 1 .. 25 /\ (25 - i) + 1 = 26 - i
    BY StackWords
  <2>2. stack[i] = Pushed(v)[(25 - i) + 1]
    BY <2>1 DEF Reverse
  <2> QED BY <2>1, <2>2, StackWords
<1>3. FrameOf(v, v) = [f \in ToSet(isr_regs) |-> stack[at(f)]]
  BY DEF FrameOf, Pushed
<1>4. ASSUME NEW f \in ToSet(isr_regs)
      PROVE  at(f) \in 1 .. 23 /\ isr_regs[at(f)] = f
  <2>1. \E i \in DOMAIN isr_regs : isr_regs[i] = f
    BY DEF ToSet
  <2> QED BY <2>1, <1>1
<1> HIDE DEF stack, at
<1>5. ASSUME NEW f \in ToSet(isr_regs)
      PROVE  FrameOf(v, v)[f] = Word(f, v)
  <2>1. FrameOf(v, v)[f] = stack[at(f)]
    BY <1>3
  <2> QED BY <2>1, <1>2, <1>4
<1>6. DOMAIN FrameOf(v, v) = ToSet(isr_regs)
  BY <1>3
<1>7. "interrupt" \in ToSet(isr_regs)
  <2>1. isr_regs[17] = "interrupt"
    BY DEF isr_regs
  <2> QED BY <1>1, <2>1 DEF ToSet
<1>8. FrameOf(v, v)["interrupt"].val = v
  BY <1>5, <1>7 DEF Word, Vector
<1>9. FitsVector(FrameOf(v, v), v)
  BY <1>5, <1>6 DEF FitsVector, Word
<1> QED BY <1>8, <1>9

\* The frame in hand is that of the last vector.
Frame == task = "handler" => FitsVector(regs, cpu.vector)

LEMMA InterruptFrame ==
  ASSUME KInv, Frame, NEW v \in Vectors, Interrupt(v)
  PROVE  Frame'
<1>1. CASE Deliverable(v)
  <2>1. cpu.idtr
    BY <1>1 DEF Deliverable
  <2>2. idt[v].stub = v
    BY <2>1 DEF KInv, Order, Gated
  <2>3. /\ regs' = FrameOf(v, v)
        /\ cpu' = [cpu EXCEPT !.mode = "runs", !.depth = @ + 1, !.nmi = @ /\ v # NMI, !.vector = v]
    BY <1>1, <2>2 DEF Interrupt
  <2>4. cpu'.vector = v
    BY <2>3 DEF KInv, Shape
  <2>5. v \in Int
    BY KernelAssumption DEF Vectors
  <2> QED BY <2>3, <2>4, <2>5, FrameFits DEF Frame
<1>2. CASE ~Deliverable(v)
  <2>1. cpu' = [cpu EXCEPT !.mode = "shutdown"] /\ UNCHANGED <<task, regs>>
    BY <1>2 DEF Interrupt
  <2>2. cpu'.vector = cpu.vector
    BY <2>1 DEF KInv, Shape
  <2> QED BY <2>1, <2>2 DEF Frame
<1> QED BY <1>1, <1>2

LEMMA NextFrame == KInv /\ Frame /\ [Next]_vars => Frame'
<1> SUFFICES ASSUME KInv, Frame, [Next]_vars PROVE Frame'
  OBVIOUS
<1>1. CASE kernel_main
  <2>1. regs' = regs /\ cpu'.vector = cpu.vector /\ (task' = task \/ task' = "panic")
    BY <1>1 DEF kernel_main, gdt_init, mm_init, kcon_init, isr_init, idt_init, SaysBooted, kidle,
               panic, KInv, Shape
  <2> QED BY <2>1 DEF Frame
<1>2. CASE kcon_write
  <2>1. CASE NullConsole
    BY <2>1, InterruptFrame, VectorsUsed DEF NullConsole
  <2>2. CASE ~NullConsole
    <3>1. UNCHANGED <<cpu, task, regs>>
      BY <1>2, <2>2 DEF kcon_write, CharStart, Emit, BlitRow, Advance, NewLine, MoveRow, BlankRow,
                       CursorUp, CursorDown, CursorHome, NextChar, Elsewhere
    <3> QED BY <3>1 DEF Frame
  <2> QED BY <2>1, <2>2
<1>3. CASE PanicHalts
  <2>1. UNCHANGED <<task, regs>> /\ cpu'.vector = cpu.vector
    BY <1>3 DEF PanicHalts, KInv, Shape
  <2> QED BY <2>1 DEF Frame
<1>4. CASE Fault
  BY <1>4, InterruptFrame, VectorsUsed DEF Fault
<1>5. CASE NonMaskable
  BY <1>5, InterruptFrame, VectorsUsed DEF NonMaskable
<1>6. CASE UNCHANGED vars
  BY <1>6 DEF vars, Frame
<1> QED BY <1>1, <1>2, <1>3, <1>4, <1>5, <1>6 DEF Next, Thread, Stopped

\* Whatever is raised wherever, the handler reads each register from its own
\* field and the vector from `interrupt': stub, processor and isr_common agree
\* for every vector on whether there is an error code.
THEOREM RightFrame == Spec => []FrameRight
<1>1. Init => Frame
  BY DEF Init, Frame
<1>2. KInv /\ Frame => FrameRight
  <2> SUFFICES ASSUME KInv, Frame
               PROVE  FrameRight
    OBVIOUS
  <2>1. ASSUME pc = "kidle", NEW v \in Vectors
        PROVE  FitsVector(FrameOf(v, idt[v].stub), v)
    <3>1. idt[v].stub = v /\ v \in Int
      BY <2>1, KernelAssumption DEF KInv, Order, Gated, Vectors
    <3> QED BY <3>1, FrameFits
  <2> QED BY <2>1 DEF FrameRight, Frame
<1> QED BY <1>1, <1>2, InitKInv, NextKInv, NextFrame, PTL DEF Spec

-----------------------------------------------------------------------------
(***************************************************************************)
(* Proofs about printk() store by store: the stores of a character that is *)
(* not interrupted add up to what Written() of Console makes of the        *)
(* console in one step (CharWhole of Kernel), for every screen, font and   *)
(* text, and whatever an interrupted character before it left behind; and  *)
(* a panic that has halted can be read, whatever it interrupted            *)
(* (PanicShows), on every screen of at least six lines (RoomForPanic).     *)
(*                                                                         *)
(* The first invariant says at each store that what the stores to come     *)
(* will make of the console is what the whole character makes of the       *)
(* console before it.  The operators that say so are the loops of Console  *)
(* in closed form, from any row on.  They take the framebuffer as a        *)
(* parameter f, so that they are constant expressions.                     *)
(***************************************************************************)
RowsOf(f) == 0 .. f.height - 1

\* What a scroll makes of k when its rows below row i have been dealt with.
Scrolling(f, k, i) ==
  [cx |-> 0, cy |-> Screen!U32(k.cy - cell_h),
   px |-> [r \in RowsOf(f) |-> IF r < i THEN k.px[r]
                               ELSE IF r < f.height - cell_h THEN k.px[r + cell_h] ELSE {}]]

Fed(k) == [cx |-> 0, cy |-> Screen!U32(k.cy + cell_h), px |-> k.px]

NewLined(f, k) ==
  IF Screen!U32(k.cy + cell_h) >= f.height THEN Scrolling(f, k, 0) ELSE Fed(k)

\* What con_draw_glyph() makes of k from row i of the glyph on.
Inking(f, k, c, i) ==
  [cx |-> k.cx, cy |-> k.cy,
   px |-> [r \in RowsOf(f) |->
             IF r \in k.cy + i .. k.cy + cell_h - 1 /\ k.cx \in 0 .. f.width - 1
             THEN k.px[r] \cup {[x |-> k.cx, ch |-> c, row |-> r - k.cy]} ELSE k.px[r]]]

Roomy(f, k) == IF k.cy >= Screen!U32(f.height - cell_h) THEN NewLined(f, k) ELSE k

\* k with a glyph drawn, the cursor moved on.
Advanced(f, k) ==
  LET x == Screen!U32(k.cx + x_advance)
  IN  IF x >= f.width THEN NewLined(f, k) ELSE [cx |-> x, cy |-> k.cy, px |-> k.px]

Finished(f, k, c) ==
  IF c = "LF" THEN NewLined(f, Roomy(f, k)) ELSE Advanced(f, Inking(f, Roomy(f, k), c, 0))

\* The fields of the console, a set of slices for each row.
IsConsole(f, k) ==
  /\ k = [cx |-> k.cx, cy |-> k.cy, px |-> k.px]
  /\ k.cx \in Nat /\ k.cy \in Nat
  /\ k.px = [r \in RowsOf(f) |-> k.px[r]]

\* The sizes are numbers, and so is what is left of one in 32 bits.
LEMMA Screens ==
  ASSUME NEW f \in Framebuffers
  PROVE  /\ cell_h \in Nat \ {0} /\ f.height \in Nat /\ cell_h < f.height /\ f.width \in Nat
         /\ x_advance \in Nat
         /\ \A n \in Int : Screen!U32(n) \in Nat
<1>1. U32_MAX + 1 \in Nat \ {0}
  BY KernelAssumption
<1>2. \A n \in Int : n % (U32_MAX + 1) \in Nat
  BY <1>1
<1> QED BY <1>2, KernelAssumption DEF Screen!U32

\* con_ctrl_newl() in closed form: memmove() takes each row before it is overwritten.
LEMMA Newl ==
  ASSUME fb \in Framebuffers, NEW k, IsConsole(fb, k)
  PROVE  Screen!con_ctrl_newl(k) = NewLined(fb, k)
<1>1. /\ fb.height \in Nat /\ cell_h \in Nat \ {0} /\ cell_h <= fb.height
  BY Screens
<1>2. Screen!memmove(k.px, cell_h) = Shift(k.px, cell_h, fb.height)
  BY Zenon DEF Screen!memmove, Screen!FoldLeft, Screen!MapThenFoldSet, Screen!Max, Shift, FoldLeft,
               MapThenFoldSet, Max
<1>3. OnRows(k.px, fb.height)
  BY DEF OnRows, IsConsole, RowsOf
<1>4. Shift(k.px, cell_h, fb.height) = Shifted(k.px, cell_h, fb.height)
  BY <1>1, <1>3, FoldShift
<1>5. Screen!gop_scroll(k.px, cell_h) = Scrolling(fb, k, 0).px
  BY <1>1, <1>2, <1>4 DEF Screen!gop_scroll, Screen!memset, Shifted, Scrolling, RowsOf, Screen!Rows
<1>6. k = [cx |-> k.cx, cy |-> k.cy, px |-> k.px]
  BY DEF IsConsole
<1> DEFINE a == Screen!gop_scroll(k.px, cell_h)
           b == Screen!U32(k.cy - cell_h)
<1>7. Screen!con_scroll(k) = [cx |-> k.cx, cy |-> b, px |-> a]
  <2>1. Screen!con_scroll(k) = [k EXCEPT !.px = a, !.cy = b]
    BY DEF Screen!con_scroll
  <2> HIDE DEF a, b
  <2> QED BY <1>6, <2>1
<1>8. Scrolling(fb, k, 0) = [cx |-> 0, cy |-> b, px |-> a]
  BY <1>5 DEF Scrolling
<1> HIDE DEF a, b
<1> DEFINE c == Screen!U32(k.cy + cell_h)
           x == k.cx
           q == k.px
<1>9. /\ [k EXCEPT !.cy = c] = [cx |-> x, cy |-> c, px |-> q]
      /\ Fed(k) = [cx |-> 0, cy |-> c, px |-> q]
  <2>1. Fed(k) = [cx |-> 0, cy |-> c, px |-> q]
    BY DEF Fed
  <2> HIDE DEF c
  <2> QED BY <1>6, <2>1
<1> HIDE DEF c, x, q
<1>10. \A u, v, w : Screen!con_ctrl_carriage_ret([cx |-> u, cy |-> v, px |-> w])
                     = [cx |-> 0, cy |-> v, px |-> w]
  BY DEF Screen!con_ctrl_carriage_ret
<1>11. Screen!con_ctrl_newl(k) =
         Screen!con_ctrl_carriage_ret(IF c >= fb.height THEN [cx |-> x, cy |-> b, px |-> a]
                                      ELSE [cx |-> x, cy |-> c, px |-> q])
  BY <1>7, <1>9 DEF Screen!con_ctrl_newl, c, x
<1> QED BY <1>8, <1>9, <1>10, <1>11 DEF c, NewLined

\* con_draw_glyph() in closed form.
LEMMA Draw ==
  ASSUME fb \in Framebuffers, NEW k, IsConsole(fb, k), NEW c \in Glyphs
  PROVE  Screen!con_draw_glyph(k, c) = Inking(fb, k, c, 0)
<1> DEFINE px == Marked(k.px, k.cx, k.cy, c, cell_h, fb.height, fb.width)
<1>1. fb.height \in Nat /\ cell_h \in Nat /\ k.cy \in Nat
  BY Screens DEF IsConsole
<1>2. OnRows(k.px, fb.height)
  BY DEF OnRows, IsConsole, RowsOf
<1>3. AddMarks(k.px, k.cx, k.cy, c, cell_h, fb.height, fb.width) = px
  BY <1>1, <1>2, FoldMarks
<1>4. Screen!con_draw_glyph(k, c) =
        [k EXCEPT !.px = AddMarks(k.px, k.cx, k.cy, c, cell_h, fb.height, fb.width)]
  BY Zenon DEF Screen!con_draw_glyph, Screen!gop_blit, Screen!Rows, Screen!FoldLeft,
               Screen!MapThenFoldSet, Screen!Max, AddMarks, FoldLeft, MapThenFoldSet, Max
<1>5. px = Inking(fb, k, c, 0).px
  BY <1>1 DEF Marked, Inking, RowsOf
<1>6. k = [cx |-> k.cx, cy |-> k.cy, px |-> k.px]
  BY DEF IsConsole
<1>7. Inking(fb, k, c, 0) = [cx |-> k.cx, cy |-> k.cy, px |-> px]
  BY <1>5 DEF Inking
<1> HIDE DEF px
<1> QED BY <1>3, <1>4, <1>6, <1>7

\* A row moved, or made blank, is one row less to do.
LEMMA ScrollRow ==
  ASSUME NEW f \in Framebuffers, NEW k, IsConsole(f, k), NEW i \in 0 .. f.height - 1, NEW p,
         p = [k EXCEPT !.px[i] = IF i < f.height - cell_h THEN k.px[i + cell_h] ELSE {}]
  PROVE  IsConsole(f, p) /\ Scrolling(f, p, i + 1) = Scrolling(f, k, i)
<1> DEFINE v == IF i < f.height - cell_h THEN k.px[i + cell_h] ELSE {}
<1>1. /\ f.height \in Nat /\ cell_h \in Nat \ {0} /\ cell_h <= f.height
  BY Screens
<1>2. /\ p.cx = k.cx /\ p.cy = k.cy /\ p.px = [k.px EXCEPT ![i] = v]
      /\ p = [cx |-> p.cx, cy |-> p.cy, px |-> p.px]
  BY DEF IsConsole
<1>3. \A r \in RowsOf(f) : p.px[r] = IF r = i THEN v ELSE k.px[r]
  BY <1>2, <1>1 DEF RowsOf, IsConsole
<1>4. p.px = [r \in RowsOf(f) |-> p.px[r]]
  BY <1>2 DEF IsConsole
<1>5. IsConsole(f, p)
  BY <1>2, <1>4 DEF IsConsole
<1>6. Scrolling(f, p, i + 1) = Scrolling(f, k, i)
  <2> DEFINE new(r) == IF r < i + 1 THEN p.px[r]
                       ELSE IF r < f.height - cell_h THEN p.px[r + cell_h] ELSE {}
             old(r) == IF r < i THEN k.px[r]
                       ELSE IF r < f.height - cell_h THEN k.px[r + cell_h] ELSE {}
  <2>1. \A r \in RowsOf(f) : new(r) = old(r)
    BY <1>1, <1>3 DEF RowsOf
  <2> HIDE DEF new, old
  <2>2. [r \in RowsOf(f) |-> new(r)] = [r \in RowsOf(f) |-> old(r)]
    BY <2>1
  <2>3. p.cy = k.cy
    BY <1>2
  <2> QED BY <2>2, <2>3, Zenon DEF Scrolling, new, old
<1> QED BY <1>5, <1>6

\* So is a row of a glyph drawn.
LEMMA InkRow ==
  ASSUME fb \in Framebuffers, NEW k, IsConsole(fb, k), NEW i \in 0 .. cell_h - 1, NEW c, NEW p,
         p = [k EXCEPT !.px = Screen!gop_blit(@, k.cy + i, [x |-> k.cx, ch |-> c, row |-> i])]
  PROVE  /\ IsConsole(fb, p) /\ p.cx = k.cx /\ p.cy = k.cy
         /\ Inking(fb, p, c, i + 1) = Inking(fb, k, c, i)
<1>1. /\ fb.height \in Nat /\ cell_h \in Nat \ {0} /\ cell_h <= fb.height /\ k.cy \in Nat
  BY Screens DEF IsConsole
<1> DEFINE ink == [x |-> k.cx, ch |-> c, row |-> i]
           new == Screen!gop_blit(k.px, k.cy + i, ink)
<1>2. p.cx = k.cx /\ p.cy = k.cy /\ p.px = new /\ p = [cx |-> p.cx, cy |-> p.cy, px |-> p.px]
  <2> HIDE DEF new
  <2>1. p = [k EXCEPT !.px = new]
    BY DEF new
  <2> QED BY <2>1 DEF IsConsole
<1>3. new = [r \in RowsOf(fb) |->
              IF r = k.cy + i /\ k.cx \in 0 .. fb.width - 1 THEN k.px[r] \cup {ink} ELSE k.px[r]]
  BY DEF Screen!gop_blit, Screen!Rows, RowsOf
<1>4. p.px = [r \in RowsOf(fb) |-> p.px[r]]
  BY <1>2, <1>3
<1>5. ASSUME NEW r \in RowsOf(fb)
      PROVE (IF r \in k.cy + (i + 1) .. k.cy + cell_h - 1 /\ k.cx \in 0 .. fb.width - 1
             THEN p.px[r] \cup {[x |-> k.cx, ch |-> c, row |-> r - k.cy]} ELSE p.px[r])
            = IF r \in k.cy + i .. k.cy + cell_h - 1 /\ k.cx \in 0 .. fb.width - 1
             THEN k.px[r] \cup {[x |-> k.cx, ch |-> c, row |-> r - k.cy]} ELSE k.px[r]
  <2>1. r \in Int
    BY <1>1 DEF RowsOf
  <2>2. CASE r = k.cy + i
    <3>1. /\ r - k.cy = i /\ r \in k.cy + i .. k.cy + cell_h - 1
          /\ r \notin k.cy + (i + 1) .. k.cy + cell_h - 1
      BY <2>1, <2>2, <1>1
    <3> QED BY <3>1, <2>2, <1>2, <1>3
  <2>3. CASE r # k.cy + i
    <3>1. r \in k.cy + i .. k.cy + cell_h - 1 <=> r \in k.cy + (i + 1) .. k.cy + cell_h - 1
      BY <2>1, <2>3, <1>1
    <3> QED BY <3>1, <2>3, <1>2, <1>3
  <2> QED BY <2>2, <2>3
<1>6. Inking(fb, p, c, i + 1) = Inking(fb, k, c, i)
  BY <1>2, <1>5 DEF Inking
<1> QED BY <1>2, <1>4, <1>6 DEF IsConsole

\* None of these leaves the type.
LEMMA Consoles ==
  ASSUME NEW f \in Framebuffers, NEW k, IsConsole(f, k)
  PROVE  /\ IsConsole(f, NewLined(f, k)) /\ IsConsole(f, Roomy(f, k))
         /\ \A c, i : IsConsole(f, Inking(f, k, c, i))
<1>1. cell_h \in Int /\ \A n \in Int : Screen!U32(n) \in Nat
  BY Screens
<1>2. k.cy \in Nat /\ k.cx \in Nat
  BY DEF IsConsole
<1>3. IsConsole(f, Scrolling(f, k, 0))
  <2> DEFINE y == Screen!U32(k.cy - cell_h)
             q == Scrolling(f, k, 0).px
  <2>1. y \in Nat
    BY <1>1, <1>2
  <2>2. q = [r \in RowsOf(f) |-> q[r]] /\ Scrolling(f, k, 0) = [cx |-> 0, cy |-> y, px |-> q]
    BY DEF Scrolling
  <2> HIDE DEF y, q
  <2> QED BY <2>1, <2>2 DEF IsConsole
<1>4. IsConsole(f, Fed(k))
  <2> DEFINE y == Screen!U32(k.cy + cell_h)
             q == k.px
  <2>1. y \in Nat
    BY <1>1, <1>2
  <2>2. q = [r \in RowsOf(f) |-> q[r]] /\ Fed(k) = [cx |-> 0, cy |-> y, px |-> q]
    BY DEF Fed, IsConsole
  <2> HIDE DEF y, q
  <2> QED BY <2>1, <2>2 DEF IsConsole
<1>5. ASSUME NEW c, NEW i
      PROVE  IsConsole(f, Inking(f, k, c, i))
  <2> DEFINE x == k.cx
             y == k.cy
             q == Inking(f, k, c, i).px
  <2>1. q = [r \in RowsOf(f) |-> q[r]] /\ Inking(f, k, c, i) = [cx |-> x, cy |-> y, px |-> q]
    BY DEF Inking
  <2>2. x \in Nat /\ y \in Nat
    BY <1>2
  <2> HIDE DEF x, y, q
  <2> QED BY <2>1, <2>2 DEF IsConsole
<1> QED BY <1>3, <1>4, <1>5 DEF NewLined, Roomy

\* Written() in closed form.
LEMMA StoresAddUp ==
  ASSUME fb \in Framebuffers, NEW k, IsConsole(fb, k), NEW c \in Glyphs \cup {"LF"}
  PROVE  Screen!Written(k, c) = Finished(fb, k, c)
<1> DEFINE room == Roomy(fb, k)
<1>1. Screen!MadeRoom(k) = room
  BY Newl DEF Screen!MadeRoom, Roomy
<1>2. IsConsole(fb, room)
  BY Consoles
<1> HIDE DEF room
<1>3. c \in Glyphs => c \notin Screen!Control /\ c # "LF"
  BY KernelAssumption DEF Screen!Control
<1>4. CASE c = "LF"
  <2>1. c \in Screen!Control
    BY <1>4 DEF Screen!Control
  <2>2. Screen!con_ascii_ctrl(room, c) = Screen!con_ctrl_newl(room)
    BY <1>4 DEF Screen!con_ascii_ctrl
  <2>3. Screen!Written(k, c) = Screen!con_ctrl_newl(room)
    BY <1>1, <2>1, <2>2 DEF Screen!Written
  <2> QED BY <1>2, <1>4, <2>3, Newl DEF Finished, room
<1>5. CASE c \in Glyphs
  <2> DEFINE d == Inking(fb, room, c, 0)
             x == Screen!U32(room.cx + x_advance)
  <2>1. Screen!con_draw_glyph(room, c) = d
    BY <1>2, <1>5, Draw
  <2>2. IsConsole(fb, d) /\ d.cx = room.cx
    BY <1>2, Consoles DEF Inking
  <2> HIDE DEF d
  <2>3. Screen!Written(k, c) = Screen!WrapAt(d, room.cx + x_advance)
    BY <1>1, <1>3, <1>5, <2>1 DEF Screen!Written
  <2>4. Screen!con_ctrl_newl(d) = NewLined(fb, d)
    BY <2>2, Newl
  <2>5. [d EXCEPT !.cx = x] = [cx |-> x, cy |-> d.cy, px |-> d.px]
    <3> HIDE DEF x
    <3> QED BY <2>2 DEF IsConsole
  <2>6. Screen!Written(k, c) = Advanced(fb, d)
    BY <2>2, <2>3, <2>4, <2>5 DEF Screen!WrapAt, Advanced
  <2> QED BY <1>3, <1>5, <2>6 DEF Finished, d, room
<1> QED BY <1>4, <1>5

Alphabet == Glyphs \cup {"LF"}

\* What the console will be when control gets to where con_ctrl_newl() returns.
Made == IF io.ret = "emit" THEN Roomy(fb, before) ELSE Finished(fb, before, Head(io.text))

\* At each store: what the stores that are left will make of the console is
\* what the whole character makes of the console before it.
Underway ==
  /\ io.at = "newl" => NewLined(fb, kconsole) = Made
  /\ io.at = "move" => io.row \in 0 .. (fb.height - cell_h) - 1
  /\ io.at = "blank" => io.row \in fb.height - cell_h .. fb.height - 1
  /\ io.at \in {"move", "blank"} => Scrolling(fb, kconsole, io.row) = Made
  /\ io.at = "up" => Scrolling(fb, kconsole, fb.height) = Made
  /\ io.at = "feed" => Fed(kconsole) = Made
  /\ io.at = "home" => [cx |-> 0, cy |-> kconsole.cy, px |-> kconsole.px] = Made
  /\ io.at = "emit" => kconsole = Roomy(fb, before)
  /\ io.at \in {"blit", "advance"} => Head(io.text) # "LF"
  /\ io.at = "blit" => io.row \in 0 .. cell_h - 1
  /\ io.at = "blit" => Inking(fb, kconsole, Head(io.text), io.row)
                       = Inking(fb, Roomy(fb, before), Head(io.text), 0)
  /\ io.at = "advance" => kconsole = Inking(fb, Roomy(fb, before), Head(io.text), 0)
  /\ io.at = "next" => kconsole = Finished(fb, before, Head(io.text))

WInv ==
  /\ fb \in Framebuffers
  /\ IsConsole(fb, kconsole) /\ IsConsole(fb, before)
  /\ io.text \in Seq(Alphabet) /\ io.ret \in {"emit", "next"}
  /\ io.text # <<>> => Underway

LEMMA InitWInv == Init => WInv
<1> SUFFICES ASSUME Init PROVE WInv
  OBVIOUS
<1>1. fb \in Framebuffers /\ before = kconsole
      /\ kconsole = [cx |-> 0, cy |-> 0, px |-> [r \in RowsOf(fb) |-> {}]]
  BY DEF Init, Screen!Rows, RowsOf
<1>2. io.text = <<>> /\ io.ret = "next"
  BY DEF Init, Output
<1>3. IsConsole(fb, kconsole)
  BY <1>1 DEF IsConsole
<1> QED BY <1>1, <1>2, <1>3 DEF WInv

\* A new text is one of glyphs and line feeds, none of it printed.
LEMMA NewText ==
  ASSUME WInv, UNCHANGED <<fb, kconsole, before>>,
         NEW t \in Seq(Alphabet), io' = Output(t)
  PROVE  WInv'
<1>1. io'.text = t /\ io'.ret = "next" /\ io'.at = "char"
  BY DEF Output
<1>2. Underway'
  BY <1>1 DEF Underway
<1> QED BY <1>1, <1>2 DEF WInv

\* A step that leaves the console alone.
LEMMA SameText ==
  ASSUME WInv, UNCHANGED <<fb, kconsole, before, io>>
  PROVE  WInv'
BY DEF WInv, Underway, Made

\* What panic() prints, and what it is given to print.
LEMMA PanicText ==
  ASSUME NEW m \in Seq(Alphabet)
  PROVE  m \o <<"LF">> \o Banner \in Seq(Alphabet)
<1>1. Banner \in Seq(Alphabet)
  BY MessageAssumption DEF Banner, Alphabet
<1>2. <<"LF">> \in Seq(Alphabet)
  BY DEF Alphabet
<1> QED BY <1>1, <1>2

LEMMA Messages ==
  /\ \A v : Message(v) \in Seq(Alphabet)
  /\ <<"mm_init", "!">> \in Seq(Alphabet) /\ <<"ioremap", "!">> \in Seq(Alphabet)
<1>1. {"temporary", "mm_init", "ioremap", "!", "LF"} \subseteq Alphabet
  BY MessageAssumption DEF Alphabet
<1>2. \A i \in DOMAIN table : table[i] \in Alphabet
  BY MessageAssumption DEF Alphabet, ToSet
<1> QED BY <1>1, <1>2 DEF Message

\* An interrupt throws the text away and starts a new one, or ends everything.
LEMMA InterruptWInv ==
  ASSUME WInv, NEW v, Interrupt(v)
  PROVE  WInv'
<1>1. CASE Deliverable(v)
  BY <1>1, NewText, PanicText, Messages DEF Interrupt, panic
<1>2. CASE ~Deliverable(v)
  BY <1>2, SameText DEF Interrupt
<1> QED BY <1>1, <1>2

\* The calls of kernel_main() print from the start, or not at all.
LEMMA MainWInv ==
  ASSUME WInv, kernel_main
  PROVE  WInv'
<1>1. CASE gdt_init \/ isr_init \/ idt_init \/ kidle
  BY <1>1, SameText DEF gdt_init, isr_init, idt_init, kidle
<1>2. CASE mm_init
  <2>1. CASE UNCHANGED io
    BY <1>2, <2>1, SameText DEF mm_init
  <2>2. CASE panic("panic", <<"mm_init", "!">>)
    BY <1>2, <2>2, NewText, PanicText, Messages DEF mm_init, panic
  <2> QED BY <1>2, <2>1, <2>2 DEF mm_init
<1>3. CASE kcon_init
  <2>1. CASE io' = Output(Greeting)
    <3>1. Greeting \in Seq(Alphabet)
      BY KernelAssumption DEF Alphabet
    <3> QED BY <1>3, <2>1, <3>1, NewText DEF kcon_init
  <2>2. CASE panic("panic", <<"ioremap", "!">>)
    BY <1>3, <2>2, NewText, PanicText, Messages DEF kcon_init, panic
  <2> QED BY <1>3, <2>1, <2>2 DEF kcon_init
<1>4. CASE SaysBooted
  <2>1. Booted \in Seq(Alphabet)
    BY KernelAssumption DEF Alphabet
  <2> QED BY <1>4, <2>1, NewText DEF SaysBooted
<1> QED BY <1>1, <1>2, <1>3, <1>4 DEF kernel_main

\* What the place in kcon_write() becomes.
LEMMA Went ==
  ASSUME KInv, NEW label, NEW row, NEW ret, Goto(label, row, ret)
  PROVE  io'.text = io.text /\ io'.at = label /\ io'.row = row /\ io'.ret = ret
BY DEF KInv, Shape, Goto

\* Now the stores, one after the other.
LEMMA StartWInv ==
  ASSUME KInv, WInv, CharStart
  PROVE  WInv'
<1>1. UNCHANGED <<fb, kconsole>> /\ before' = kconsole
  BY DEF CharStart, Elsewhere
<1>2. CASE kconsole.cy >= Screen!U32(fb.height - cell_h)
  <2>1. io'.text = io.text /\ io'.at = "newl" /\ io'.ret = "emit"
    BY <1>2, Went DEF CharStart
  <2>2. Roomy(fb, kconsole) = NewLined(fb, kconsole)
    BY <1>2 DEF Roomy
  <2>3. Underway'
    BY <1>1, <2>1, <2>2 DEF Underway, Made
  <2> QED BY <1>1, <2>1, <2>3 DEF WInv
<1>3. CASE ~(kconsole.cy >= Screen!U32(fb.height - cell_h))
  <2>1. io'.text = io.text /\ io'.at = "emit" /\ io'.ret = "next"
    BY <1>3, Went DEF CharStart
  <2>2. Roomy(fb, kconsole) = kconsole
    BY <1>3 DEF Roomy
  <2>3. Underway'
    BY <1>1, <2>1, <2>2 DEF Underway
  <2> QED BY <1>1, <2>1, <2>3 DEF WInv
<1> QED BY <1>2, <1>3

LEMMA EmitWInv ==
  ASSUME KInv, WInv, Emit
  PROVE  WInv'
<1>1. UNCHANGED <<fb, kconsole, before>> /\ kconsole = Roomy(fb, before)
  BY DEF Emit, Elsewhere, WInv, Underway, Printing
<1>2. CASE Head(io.text) = "LF"
  <2>1. io'.text = io.text /\ io'.at = "newl" /\ io'.ret = "next"
    BY <1>2, Went DEF Emit
  <2>2. Finished(fb, before, Head(io.text)) = NewLined(fb, kconsole)
    BY <1>1, <1>2 DEF Finished
  <2>3. Underway'
    BY <1>1, <2>1, <2>2 DEF Underway, Made
  <2> QED BY <1>1, <2>1, <2>3 DEF WInv
<1>3. CASE Head(io.text) # "LF"
  <2>1. io'.text = io.text /\ io'.at = "blit" /\ io'.row = 0 /\ io'.ret = "next"
    BY <1>3, Went DEF Emit
  <2>2. 0 \in 0 .. cell_h - 1
    BY Screens DEF WInv
  <2>3. Underway'
    BY <1>1, <1>3, <2>1, <2>2 DEF Underway
  <2> QED BY <1>1, <2>1, <2>3 DEF WInv
<1> QED BY <1>2, <1>3

\* After the last row nothing is left to draw.
LEMMA Inked ==
  ASSUME NEW f \in Framebuffers, NEW k, IsConsole(f, k), NEW c
  PROVE  Inking(f, k, c, cell_h) = k
<1>1. k.cy \in Nat /\ cell_h \in Nat
  BY Screens DEF IsConsole
<1>2. \A r \in RowsOf(f) : r \notin k.cy + cell_h .. k.cy + cell_h - 1
  BY <1>1, Screens DEF RowsOf
<1>3. Inking(f, k, c, cell_h).px = [r \in RowsOf(f) |-> k.px[r]]
  BY <1>2 DEF Inking
<1>4. Inking(f, k, c, cell_h) = [cx |-> k.cx, cy |-> k.cy, px |-> k.px]
  BY <1>3 DEF Inking, IsConsole
<1> QED BY <1>4 DEF IsConsole

LEMMA BlitWInv ==
  ASSUME KInv, WInv, BlitRow
  PROVE  WInv'
<1> DEFINE c == Head(io.text)
           i == io.row
<1>1. /\ UNCHANGED <<fb, before>> /\ i \in 0 .. cell_h - 1 /\ c # "LF"
      /\ Inking(fb, kconsole, c, i) = Inking(fb, Roomy(fb, before), c, 0)
  BY DEF BlitRow, Elsewhere, WInv, Underway, Printing
<1>2. kconsole' = [kconsole EXCEPT !.px = Screen!gop_blit(@, kconsole.cy + i,
                                            [x |-> kconsole.cx, ch |-> c, row |-> i])]
  BY DEF BlitRow
<1>3. /\ IsConsole(fb, kconsole')
      /\ Inking(fb, kconsole', c, i + 1) = Inking(fb, Roomy(fb, before), c, 0)
  BY <1>1, <1>2, InkRow DEF WInv
<1>4. cell_h \in Nat
  BY Screens DEF WInv
<1>5. CASE i + 1 < cell_h
  <2>1. io'.text = io.text /\ io'.at = "blit" /\ io'.row = i + 1 /\ io'.ret = "next"
    BY <1>5, Went DEF BlitRow
  <2>2. i + 1 \in 0 .. cell_h - 1
    BY <1>1, <1>4, <1>5
  <2>3. Underway'
    BY <1>1, <1>3, <2>1, <2>2 DEF Underway
  <2> QED BY <1>1, <1>3, <2>1, <2>3 DEF WInv
<1>6. CASE ~(i + 1 < cell_h)
  <2>1. io'.text = io.text /\ io'.at = "advance" /\ io'.ret = "next"
    BY <1>6, Went DEF BlitRow
  <2>2. i + 1 = cell_h
    BY <1>1, <1>4, <1>6
  <2>3. kconsole' = Inking(fb, Roomy(fb, before), c, 0)
    BY <1>3, <2>2, Inked DEF WInv
  <2>4. Underway'
    BY <1>1, <2>1, <2>3 DEF Underway
  <2> QED BY <1>1, <1>3, <2>1, <2>4 DEF WInv
<1> QED BY <1>5, <1>6

\* The column the glyph leaves behind does not matter to a new line.
LEMMA AdvanceWInv ==
  ASSUME KInv, WInv, Advance
  PROVE  WInv'
<1> DEFINE d == Inking(fb, Roomy(fb, before), Head(io.text), 0)
           x == Screen!U32(kconsole.cx + x_advance)
<1>1. UNCHANGED <<fb, before>> /\ kconsole = d /\ Head(io.text) # "LF"
  BY DEF Advance, Elsewhere, WInv, Underway, Printing
<1>2. Finished(fb, before, Head(io.text)) = Advanced(fb, kconsole)
  BY <1>1 DEF Finished
<1> HIDE DEF d
<1>3. x \in Nat
  BY Screens DEF WInv, IsConsole
<1>4. kconsole' = [kconsole EXCEPT !.cx = x]
  BY DEF Advance
<1>5. kconsole' = [cx |-> x, cy |-> kconsole.cy, px |-> kconsole.px]
  <2> HIDE DEF x
  <2> QED BY <1>4 DEF WInv, IsConsole
<1>6. Advanced(fb, kconsole) = IF x >= fb.width THEN NewLined(fb, kconsole) ELSE kconsole'
  BY <1>5 DEF Advanced
<1> HIDE DEF x
<1>7. IsConsole(fb, kconsole') /\ kconsole'.cx = x
  BY <1>3, <1>5 DEF WInv, IsConsole
<1>8. CASE x >= fb.width
  <2>1. io'.text = io.text /\ io'.at = "newl" /\ io'.ret = "next"
    BY <1>7, <1>8, Went DEF Advance
  <2>2. NewLined(fb, kconsole') = NewLined(fb, kconsole)
    BY <1>5 DEF NewLined, Scrolling, Fed
  <2>3. Underway'
    BY <1>1, <1>2, <1>6, <1>8, <2>1, <2>2 DEF Underway, Made
  <2> QED BY <1>1, <1>7, <2>1, <2>3 DEF WInv
<1>9. CASE ~(x >= fb.width)
  <2>1. io'.text = io.text /\ io'.at = "next" /\ io'.ret = "next"
    BY <1>7, <1>9, Went DEF Advance
  <2>2. Underway'
    BY <1>1, <1>2, <1>6, <1>9, <2>1 DEF Underway
  <2> QED BY <1>1, <1>7, <2>1, <2>2 DEF WInv
<1> QED BY <1>8, <1>9

\* Neither scrolling nor moving down looks at the column.
LEMMA NewLineWInv ==
  ASSUME KInv, WInv, NewLine
  PROVE  WInv'
<1>1. UNCHANGED <<fb, before>> /\ NewLined(fb, kconsole) = Made
  BY DEF NewLine, Elsewhere, WInv, Underway, Printing
<1>2. kconsole' = [cx |-> 0, cy |-> kconsole.cy, px |-> kconsole.px]
  BY DEF NewLine, WInv, IsConsole
<1>3. IsConsole(fb, kconsole')
  BY <1>2 DEF WInv, IsConsole
<1>4. Scrolling(fb, kconsole', 0) = Scrolling(fb, kconsole, 0) /\ Fed(kconsole') = Fed(kconsole)
  BY <1>2 DEF Scrolling, Fed
<1>5. CASE Screen!U32(kconsole.cy + cell_h) >= fb.height
  <2>1. io'.text = io.text /\ io'.at = "move" /\ io'.row = 0 /\ io'.ret = io.ret
    BY <1>5, Went DEF NewLine
  <2>2. 0 \in 0 .. (fb.height - cell_h) - 1
    BY Screens DEF WInv
  <2>3. Underway'
    BY <1>1, <1>4, <1>5, <2>1, <2>2 DEF Underway, Made, NewLined
  <2> QED BY <1>1, <1>3, <2>1, <2>3 DEF WInv
<1>6. CASE ~(Screen!U32(kconsole.cy + cell_h) >= fb.height)
  <2>1. io'.text = io.text /\ io'.at = "feed" /\ io'.ret = io.ret
    BY <1>6, Went DEF NewLine
  <2>2. Underway'
    BY <1>1, <1>4, <1>6, <2>1 DEF Underway, Made, NewLined
  <2> QED BY <1>1, <1>3, <2>1, <2>2 DEF WInv
<1> QED BY <1>5, <1>6

\* memmove() takes each row from below before it is overwritten.
LEMMA MoveWInv ==
  ASSUME KInv, WInv, MoveRow
  PROVE  WInv'
<1> DEFINE i == io.row
<1>1. /\ UNCHANGED <<fb, before>> /\ i \in 0 .. (fb.height - cell_h) - 1
      /\ Scrolling(fb, kconsole, i) = Made
  BY DEF MoveRow, Elsewhere, WInv, Underway, Printing
<1>2. cell_h \in Nat \ {0} /\ fb.height \in Nat /\ cell_h < fb.height
  BY Screens DEF WInv
<1>3. i < fb.height - cell_h /\ i \in 0 .. fb.height - 1
  BY <1>1, <1>2
<1>4. kconsole' = [kconsole EXCEPT !.px[i] = IF i < fb.height - cell_h
                                              THEN kconsole.px[i + cell_h] ELSE {}]
  BY <1>3 DEF MoveRow
<1>5. IsConsole(fb, kconsole') /\ Scrolling(fb, kconsole', i + 1) = Made
  BY <1>1, <1>3, <1>4, ScrollRow DEF WInv
<1>6. CASE i + 1 < fb.height - cell_h
  <2>1. io'.text = io.text /\ io'.at = "move" /\ io'.row = i + 1 /\ io'.ret = io.ret
    BY <1>6, Went DEF MoveRow
  <2>2. i + 1 \in 0 .. (fb.height - cell_h) - 1
    BY <1>1, <1>2, <1>6
  <2>3. Underway'
    BY <1>1, <1>5, <2>1, <2>2 DEF Underway, Made
  <2> QED BY <1>1, <1>5, <2>1, <2>3 DEF WInv
<1>7. CASE ~(i + 1 < fb.height - cell_h)
  <2>1. io'.text = io.text /\ io'.at = "blank" /\ io'.row = i + 1 /\ io'.ret = io.ret
    BY <1>7, Went DEF MoveRow
  <2>2. i + 1 \in fb.height - cell_h .. fb.height - 1
    BY <1>1, <1>2, <1>7
  <2>3. Underway'
    BY <1>1, <1>5, <2>1, <2>2 DEF Underway, Made
  <2> QED BY <1>1, <1>5, <2>1, <2>3 DEF WInv
<1> QED BY <1>6, <1>7

LEMMA BlankWInv ==
  ASSUME KInv, WInv, BlankRow
  PROVE  WInv'
<1> DEFINE i == io.row
<1>1. /\ UNCHANGED <<fb, before>> /\ i \in fb.height - cell_h .. fb.height - 1
      /\ Scrolling(fb, kconsole, i) = Made
  BY DEF BlankRow, Elsewhere, WInv, Underway, Printing
<1>2. cell_h \in Nat \ {0} /\ fb.height \in Nat /\ cell_h < fb.height
  BY Screens DEF WInv
<1>3. ~(i < fb.height - cell_h) /\ i \in 0 .. fb.height - 1
  BY <1>1, <1>2
<1>4. kconsole' = [kconsole EXCEPT !.px[i] = IF i < fb.height - cell_h
                                              THEN kconsole.px[i + cell_h] ELSE {}]
  BY <1>3 DEF BlankRow
<1>5. IsConsole(fb, kconsole') /\ Scrolling(fb, kconsole', i + 1) = Made
  BY <1>1, <1>3, <1>4, ScrollRow DEF WInv
<1>6. CASE i + 1 < fb.height
  <2>1. io'.text = io.text /\ io'.at = "blank" /\ io'.row = i + 1 /\ io'.ret = io.ret
    BY <1>6, Went DEF BlankRow
  <2>2. i + 1 \in fb.height - cell_h .. fb.height - 1
    BY <1>1, <1>2, <1>6
  <2>3. Underway'
    BY <1>1, <1>5, <2>1, <2>2 DEF Underway, Made
  <2> QED BY <1>1, <1>5, <2>1, <2>3 DEF WInv
<1>7. CASE ~(i + 1 < fb.height)
  <2>1. io'.text = io.text /\ io'.at = "up" /\ io'.ret = io.ret
    BY <1>7, Went DEF BlankRow
  <2>2. i + 1 = fb.height
    BY <1>1, <1>2, <1>7
  <2>3. Underway'
    BY <1>1, <1>5, <2>1, <2>2 DEF Underway, Made
  <2> QED BY <1>1, <1>5, <2>1, <2>3 DEF WInv
<1> QED BY <1>6, <1>7

\* The cursor follows the rows; or goes down.
LEMMA CursorWInv ==
  ASSUME KInv, WInv, CursorUp \/ CursorDown
  PROVE  WInv'
<1> DEFINE y == IF io.at = "up" THEN Screen!U32(kconsole.cy - cell_h)
                ELSE Screen!U32(kconsole.cy + cell_h)
<1>1. /\ UNCHANGED <<fb, before>>
      /\ io'.text = io.text /\ io'.at = "home" /\ io'.ret = io.ret
      /\ kconsole' = [kconsole EXCEPT !.cy = y]
  BY Went DEF CursorUp, CursorDown, Elsewhere, Printing
<1>2. kconsole.cy \in Nat /\ cell_h \in Int /\ \A n \in Int : Screen!U32(n) \in Nat
  BY Screens DEF WInv, IsConsole
<1>3. y \in Nat
  BY <1>2
<1>4. Made = [cx |-> 0, cy |-> y, px |-> kconsole.px]
  <2>1. CASE CursorUp
    <3>1. io.at = "up" /\ Scrolling(fb, kconsole, fb.height) = Made
      BY <2>1 DEF CursorUp, WInv, Underway, Printing
    <3>2. \A r \in RowsOf(fb) : r < fb.height
      BY Screens DEF WInv, RowsOf
    <3>3. Scrolling(fb, kconsole, fb.height).px = [r \in RowsOf(fb) |-> kconsole.px[r]]
      BY <3>2 DEF Scrolling
    <3>4. Scrolling(fb, kconsole, fb.height).px = kconsole.px
      BY <3>3 DEF WInv, IsConsole
    <3> QED BY <3>1, <3>4 DEF Scrolling
  <2>2. CASE CursorDown
    BY <2>2 DEF CursorDown, WInv, Underway, Printing, Fed
  <2> QED BY <2>1, <2>2
<1> HIDE DEF y
<1>5. kconsole' = [cx |-> kconsole.cx, cy |-> y, px |-> kconsole.px]
  BY <1>1 DEF WInv, IsConsole
<1>6. IsConsole(fb, kconsole')
  BY <1>3, <1>5 DEF WInv, IsConsole
<1>7. Underway'
  BY <1>1, <1>4, <1>5 DEF Underway, Made
<1> QED BY <1>1, <1>6, <1>7 DEF WInv

LEMMA HomeWInv ==
  ASSUME KInv, WInv, CursorHome
  PROVE  WInv'
<1>1. /\ UNCHANGED <<fb, before>>
      /\ io'.text = io.text /\ io'.at = io.ret /\ io'.ret = "next"
      /\ [cx |-> 0, cy |-> kconsole.cy, px |-> kconsole.px] = Made
  BY Went DEF CursorHome, Elsewhere, Printing, WInv, Underway
<1>2. kconsole' = [cx |-> 0, cy |-> kconsole.cy, px |-> kconsole.px]
  BY DEF CursorHome, WInv, IsConsole
<1>3. IsConsole(fb, kconsole')
  BY <1>2 DEF WInv, IsConsole
<1>4. Underway'
  BY <1>1, <1>2 DEF Underway, Made, WInv
<1> QED BY <1>1, <1>3, <1>4 DEF WInv

LEMMA NextCharWInv ==
  ASSUME WInv, NextChar
  PROVE  WInv'
<1>1. Tail(io.text) \in Seq(Alphabet)
  BY DEF NextChar, Printing, WInv
<1> QED BY <1>1, NewText DEF NextChar, Elsewhere

LEMMA NextWInv == KInv /\ WInv /\ [Next]_vars => WInv'
<1> SUFFICES ASSUME KInv, WInv, [Next]_vars PROVE WInv'
  OBVIOUS
<1>1. CASE kernel_main
  BY <1>1, MainWInv
<1>2. CASE kcon_write
  BY <1>2, InterruptWInv, StartWInv, EmitWInv, BlitWInv, AdvanceWInv, NewLineWInv, MoveWInv,
     BlankWInv, CursorWInv, HomeWInv, NextCharWInv DEF kcon_write, NullConsole
<1>3. CASE PanicHalts
  BY <1>3, SameText DEF PanicHalts
<1>4. CASE Fault \/ NonMaskable
  BY <1>4, InterruptWInv DEF Fault, NonMaskable
<1>5. CASE UNCHANGED vars
  BY <1>5, SameText DEF vars
<1> QED BY <1>1, <1>2, <1>3, <1>4, <1>5 DEF Next, Thread, Stopped

\* A character that is printed to its end is printed whole and right, however
\* many earlier ones were cut off at whatever store: kcon_write() takes the
\* console from any state it can be left in to what Written() says.
THEOREM WholeCharacters == Spec => []CharWhole
<1>1. WInv => CharWhole
  <2> SUFFICES ASSUME WInv, io.text # <<>>, io.at = "next"
               PROVE  kconsole = Screen!Written(before, Head(io.text))
    BY DEF CharWhole
  <2>1. Head(io.text) \in Glyphs \cup {"LF"}
    BY DEF WInv, Alphabet
  <2> QED BY <2>1, StoresAddUp DEF WInv, Underway
<1> QED BY <1>1, InitKInv, NextKInv, InitWInv, NextWInv, PTL DEF Spec

-----------------------------------------------------------------------------
(***************************************************************************)
(* What a panic leaves on the screen (PanicShows).                         *)
(*                                                                         *)
(* Two invariants.  After every store, also in the middle of a scroll, the *)
(* cursor is a whole number of lines down and no row below its line has    *)
(* any ink (GInv): so whatever is interrupted, line feeds lead to a blank  *)
(* line.  And for each rest of the text that panic() has still to print,   *)
(* what is on the screen already and how far up (Stage, PInv): the end of  *)
(* the message is at most five lines above the cursor, so that it is still *)
(* there after the last scroll if the screen has six.                      *)
(***************************************************************************)
\* The screens on which a panic can be read: six lines and a bit, two glyphs and a bit.
RoomForPanic ==
  /\ x_advance # 0
  /\ \A f \in Framebuffers :
       /\ 6 * cell_h < f.height /\ f.height + cell_h <= U32_MAX
       /\ x_advance < f.width /\ x_advance <= U32_MAX

\* Whole lines down.
OnLine(y) == \E n \in Nat : y = n * cell_h

\* No ink from row n on.
ClearFrom(f, k, n) == \A r \in RowsOf(f) : r >= n => k.px[r] = {}

\* What is true of the console after every store.
Usable(f, k) ==
  /\ IsConsole(f, k)
  /\ k.cy < f.height /\ OnLine(k.cy)
  /\ ClearFrom(f, k, k.cy + cell_h)

\* q is k with everything d rows further up.
MovedUp(f, k, q, d) ==
  \A r \in RowsOf(f) : q.px[r] = IF r + d < f.height THEN k.px[r + d] ELSE {}

\* The line of q at row w is that of k at row y.
SameLine(k, y, q, w) == \A i \in 0 .. cell_h - 1 : q.px[w + i] = k.px[y + i]

\* d is q with a glyph drawn at the cursor.
DrawnOn(f, q, c, d) ==
  \A r \in RowsOf(f) :
    d.px[r] = IF r \in q.cy .. q.cy + cell_h - 1 /\ q.cx \in 0 .. f.width - 1
              THEN q.px[r] \cup {[x |-> q.cx, ch |-> c, row |-> r - q.cy]} ELSE q.px[r]

\* What fits into 32 bits is not changed by them.
LEMMA Exact ==
  ASSUME NEW n \in Nat, n <= U32_MAX
  PROVE  Screen!U32(n) = n
BY KernelAssumption DEF Screen!U32

\* The sizes of such a screen, in one place.
LEMMA Heights ==
  ASSUME RoomForPanic, NEW f \in Framebuffers
  PROVE  /\ cell_h \in Nat \ {0} /\ f.height \in Nat /\ f.width \in Nat /\ x_advance \in Nat \ {0}
         /\ 6 * cell_h < f.height /\ f.height + cell_h <= U32_MAX /\ U32_MAX \in Nat
         /\ x_advance < f.width /\ x_advance <= U32_MAX
BY KernelAssumption DEF RoomForPanic

\* Lines are a line apart.
LEMMA LineBelow ==
  ASSUME NEW y \in Nat, OnLine(y)
  PROVE  OnLine(y + cell_h)
<1>1. cell_h \in Nat
  BY KernelAssumption
<1>2. PICK n \in Nat : y = n * cell_h
  BY DEF OnLine
<1>3. n + 1 \in Nat /\ y + cell_h = (n + 1) * cell_h
  BY <1>1, <1>2
<1> QED BY <1>3 DEF OnLine

\* A cursor below j lines is below the next one too, and has a line above it.
LEMMA LineAbove ==
  ASSUME NEW y \in Nat, OnLine(y), NEW j \in Nat, y > j * cell_h
  PROVE  y >= (j + 1) * cell_h /\ OnLine(y - cell_h) /\ y - cell_h \in Nat
<1>1. cell_h \in Nat
  BY KernelAssumption
<1>2. PICK n \in Nat : y = n * cell_h
  BY DEF OnLine
<1>3. ~(n <= j)
  <2>1. ASSUME n <= j PROVE n * cell_h <= j * cell_h
    BY <1>1, <2>1, MulMono
  <2>2. n * cell_h \in Nat /\ j * cell_h \in Nat
    BY <1>1
  <2> QED BY <1>2, <2>1, <2>2
<1>4. j + 1 <= n
  BY <1>3
<1>5. (j + 1) * cell_h <= n * cell_h
  BY <1>1, <1>4, MulMono
<1>6. n - 1 \in Nat /\ y - cell_h = (n - 1) * cell_h /\ 1 * cell_h <= n * cell_h
  <2>1. n - 1 \in Nat /\ 1 <= n
    BY <1>4
  <2>2. 1 * cell_h <= n * cell_h
    BY <1>1, <2>1, MulMono
  <2> QED BY <1>1, <1>2, <2>1, <2>2
<1>7. y - cell_h \in Nat
  BY <1>1, <1>2, <1>6
<1> QED BY <1>2, <1>5, <1>6, <1>7 DEF OnLine

\* Making room moves everything up by d rows, the cursor with it.
LEMMA RoomMoves ==
  ASSUME RoomForPanic, NEW f \in Framebuffers, NEW k, Usable(f, k), NEW q, q = Roomy(f, k)
  PROVE  /\ Usable(f, q) /\ q.cy + cell_h < f.height
         /\ \E d \in {0, cell_h} :
              /\ q.cy = k.cy - d
              /\ d # 0 => k.cy >= 6 * cell_h /\ q.cx = 0
              /\ d = 0 => q.cx = k.cx
              /\ MovedUp(f, k, q, d)
<1>1. /\ cell_h \in Nat \ {0} /\ f.height \in Nat /\ 6 * cell_h < f.height
      /\ f.height + cell_h <= U32_MAX /\ U32_MAX \in Nat
  BY Heights
<1>2. IsConsole(f, k) /\ k.cy \in Nat /\ k.cy < f.height
  BY DEF Usable, IsConsole
<1>3. Screen!U32(f.height - cell_h) = f.height - cell_h
  BY <1>1, Exact
<1>4. CASE k.cy < f.height - cell_h
  <2>1. q = k
    BY <1>1, <1>2, <1>3, <1>4 DEF Roomy
  <2>2. MovedUp(f, k, q, 0)
    BY <1>1, <2>1 DEF RowsOf, MovedUp
  <2>3. q.cy = k.cy - 0 /\ q.cy + cell_h < f.height
    BY <1>1, <1>2, <1>4, <2>1
  <2> QED BY <1>1, <2>1, <2>2, <2>3
<1>5. CASE k.cy >= f.height - cell_h
  <2>1. k.cy > 5 * cell_h
    BY <1>1, <1>2, <1>5
  <2>2. k.cy >= 6 * cell_h /\ OnLine(k.cy - cell_h) /\ k.cy - cell_h \in Nat
    <3>1. k.cy >= (5 + 1) * cell_h /\ OnLine(k.cy - cell_h) /\ k.cy - cell_h \in Nat
      BY <1>2, <2>1, LineAbove DEF Usable
    <3> QED BY <3>1
  <2>3. Screen!U32(k.cy + cell_h) = k.cy + cell_h /\ Screen!U32(k.cy - cell_h) = k.cy - cell_h
    BY <1>1, <1>2, <2>2, Exact
  <2>4. q = Scrolling(f, k, 0)
    BY <1>1, <1>2, <1>3, <1>5, <2>3 DEF Roomy, NewLined
  <2>5. q.cx = 0 /\ q.cy = k.cy - cell_h
    BY <2>3, <2>4 DEF Scrolling
  <2>6. \A r \in RowsOf(f) : q.px[r] = IF r < f.height - cell_h THEN k.px[r + cell_h] ELSE {}
    BY <1>1, <2>4 DEF Scrolling, RowsOf
  <2>7. MovedUp(f, k, q, cell_h)
    BY <1>1, <2>6 DEF RowsOf, MovedUp
  <2>8. IsConsole(f, q)
    BY <1>2, Consoles
  <2>9. ClearFrom(f, q, q.cy + cell_h)
    BY <1>1, <1>2, <1>5, <2>5, <2>6 DEF ClearFrom, RowsOf
  <2>10. q.cy < f.height /\ q.cy + cell_h < f.height
    BY <1>1, <1>2, <2>5
  <2> QED BY <1>1, <2>2, <2>5, <2>7, <2>8, <2>9, <2>10 DEF Usable
<1> QED BY <1>1, <1>2, <1>4, <1>5

\* A new line with one more below it.
LEMMA FeedMoves ==
  ASSUME RoomForPanic, NEW f \in Framebuffers, NEW q, Usable(f, q), q.cy + cell_h < f.height,
         NEW n, n = NewLined(f, q)
  PROVE  /\ Usable(f, n) /\ n.cx = 0 /\ n.cy = q.cy + cell_h /\ n.px = q.px
         /\ ClearFrom(f, n, n.cy)
<1>1. /\ cell_h \in Nat \ {0} /\ f.height \in Nat
      /\ f.height + cell_h <= U32_MAX /\ U32_MAX \in Nat
  BY Heights
<1>2. IsConsole(f, q) /\ q.cy \in Nat /\ q.cy < f.height
  BY DEF Usable, IsConsole
<1>3. Screen!U32(q.cy + cell_h) = q.cy + cell_h
  BY <1>1, <1>2, Exact
<1>4. n = Fed(q)
  BY <1>1, <1>2, <1>3 DEF NewLined
<1>5. n.cx = 0 /\ n.cy = q.cy + cell_h /\ n.px = q.px
  BY <1>3, <1>4 DEF Fed
<1>6. IsConsole(f, n) /\ OnLine(n.cy)
  BY <1>2, <1>5, Consoles, LineBelow DEF Usable
<1>7. ClearFrom(f, n, n.cy) /\ ClearFrom(f, n, n.cy + cell_h)
  BY <1>1, <1>2, <1>5 DEF ClearFrom, Usable, RowsOf
<1> QED BY <1>5, <1>6, <1>7 DEF Usable

\* A glyph with a line below it.
LEMMA InkMoves ==
  ASSUME RoomForPanic, NEW f \in Framebuffers, NEW q, Usable(f, q), NEW c,
         NEW d, d = Inking(f, q, c, 0)
  PROVE  /\ Usable(f, d) /\ d.cx = q.cx /\ d.cy = q.cy
         /\ DrawnOn(f, q, c, d)
<1>1. /\ cell_h \in Nat \ {0} /\ f.height \in Nat
  BY Heights
<1>2. IsConsole(f, q) /\ q.cy \in Nat /\ q.cy < f.height /\ OnLine(q.cy)
  BY DEF Usable, IsConsole
<1>3. IsConsole(f, d)
  BY <1>2, Consoles
<1>4. d.cx = q.cx /\ d.cy = q.cy
  BY DEF Inking
<1>5. DrawnOn(f, q, c, d)
  BY <1>1, <1>2 DEF Inking, DrawnOn
<1>6. \A r \in RowsOf(f) : r >= q.cy + cell_h => r \notin q.cy .. q.cy + cell_h - 1
  BY <1>1, <1>2 DEF RowsOf
<1>7. ClearFrom(f, d, d.cy + cell_h)
  BY <1>4, <1>5, <1>6 DEF ClearFrom, Usable, DrawnOn
<1> QED BY <1>2, <1>3, <1>4, <1>5, <1>7 DEF Usable

\* A glyph leaves the cursor on the screen.
LEMMA GlyphMoves ==
  ASSUME RoomForPanic, NEW f \in Framebuffers, NEW k, Usable(f, k), NEW c, c # "LF",
         NEW q, q = Roomy(f, k), NEW d, d = Inking(f, q, c, 0), NEW n, n = Finished(f, k, c)
  PROVE  /\ Usable(f, n) /\ n.cx < f.width /\ n.px = d.px
         /\ n.cy = q.cy \/ n.cy = q.cy + cell_h
         /\ Screen!U32(q.cx + x_advance) < f.width =>
              n.cy = q.cy /\ n.cx = Screen!U32(q.cx + x_advance)
<1>1. Usable(f, q) /\ q.cy + cell_h < f.height
  BY RoomMoves
<1>2. Usable(f, d) /\ d.cx = q.cx /\ d.cy = q.cy
  BY <1>1, InkMoves
<1>3. n = Advanced(f, d)
  BY DEF Finished
<1> DEFINE x == Screen!U32(q.cx + x_advance)
<1>4. x \in Nat /\ f.width \in Nat /\ 0 < f.width
  BY <1>1, Screens, Heights DEF Usable, IsConsole
<1>5. n = IF x >= f.width THEN NewLined(f, d) ELSE [cx |-> x, cy |-> d.cy, px |-> d.px]
  BY <1>2, <1>3 DEF Advanced
<1> HIDE DEF x
<1>6. CASE x >= f.width
  <2>1. Usable(f, n) /\ n.cx = 0 /\ n.cy = d.cy + cell_h /\ n.px = d.px
    BY <1>1, <1>2, <1>5, <1>6, FeedMoves
  <2>2. ~(x < f.width)
    BY <1>4, <1>6
  <2> QED BY <1>2, <1>4, <2>1, <2>2 DEF x
<1>7. CASE x < f.width
  <2>1. n = [cx |-> x, cy |-> d.cy, px |-> d.px]
    BY <1>4, <1>5, <1>7
  <2>2. n.cx = x /\ n.cy = d.cy /\ n.px = d.px
    BY <2>1
  <2>3. IsConsole(f, n)
    BY <1>2, <1>4, <2>1 DEF Usable, IsConsole
  <2>4. Usable(f, n)
    BY <1>2, <2>2, <2>3 DEF Usable, ClearFrom
  <2> QED BY <1>2, <1>7, <2>2, <2>4 DEF x
<1> QED BY <1>4, <1>6, <1>7

\* Rows that stay on the screen keep their ink.
LEMMA RowsMove ==
  ASSUME RoomForPanic, NEW f \in Framebuffers, NEW k, NEW q, NEW d \in Nat,
         MovedUp(f, k, q, d),
         NEW y \in Nat, d <= y, y + cell_h <= f.height
  PROVE  /\ y - d \in Nat /\ (y - d) + cell_h <= f.height
         /\ SameLine(k, y, q, y - d)
<1>1. cell_h \in Nat /\ f.height \in Nat
  BY Heights
<1>2. ASSUME NEW i \in 0 .. cell_h - 1
      PROVE  q.px[(y - d) + i] = k.px[y + i]
  <2>1. (y - d) + i \in RowsOf(f) /\ ((y - d) + i) + d < f.height /\ ((y - d) + i) + d = y + i
    BY <1>1 DEF RowsOf
  <2> QED BY <2>1 DEF MovedUp
<1> QED BY <1>1, <1>2 DEF SameLine

\* What was blank from some row on is so from a higher one.
LEMMA ClearMoves ==
  ASSUME RoomForPanic, NEW f \in Framebuffers, NEW k, NEW q, NEW d \in Nat,
         MovedUp(f, k, q, d),
         NEW y \in Nat, ClearFrom(f, k, y)
  PROVE  ClearFrom(f, q, y - d)
<1>1. f.height \in Nat
  BY Heights
<1>2. ASSUME NEW r \in RowsOf(f), r >= y - d
      PROVE  q.px[r] = {}
  <2>1. CASE r + d < f.height
    <3>1. r + d \in RowsOf(f) /\ r + d >= y
      BY <1>1, <1>2, <2>1 DEF RowsOf
    <3> QED BY <2>1, <3>1 DEF ClearFrom, MovedUp
  <2>2. CASE ~(r + d < f.height)
    BY <2>2 DEF MovedUp
  <2> QED BY <2>1, <2>2
<1> QED BY <1>2 DEF ClearFrom

-----------------------------------------------------------------------------
\* Whole and Legible of Kernel, on a given console.
WholeIn(k, g, x, y) == \A i \in 0 .. cell_h - 1 : [x |-> x, ch |-> g, row |-> i] \in k.px[y + i]

LegibleIn(k, g, x, y) ==
  \A i \in 0 .. cell_h - 1 : {s \in k.px[y + i] : s.x = x} = {[x |-> x, ch |-> g, row |-> i]}

\* The end of the message is in the line at row z.
Bang(f, k, z) ==
  z \in Nat /\ z + cell_h <= f.height /\ \E x \in 0 .. f.width - 1 : WholeIn(k, "!", x, z)

\* The last line of the banner is at row y, with nothing below it.
LastLine(f, k, y) ==
  /\ y \in Nat /\ y + cell_h <= f.height
  /\ LegibleIn(k, "P", 0, y) /\ LegibleIn(k, "K", x_advance, y)
  /\ ClearFrom(f, k, y + cell_h)

\* The end of the message is at most n rows above the cursor, or strictly above it.
Within(f, k, n) == \E z : Bang(f, k, z) /\ z <= k.cy /\ k.cy - z <= n

Above(f, k, n) == \E z : Bang(f, k, z) /\ z < k.cy /\ k.cy - z <= n

\* Before each of the last three characters of the banner, and after them.
BeforeP(f, k) == k.cx = 0 /\ ClearFrom(f, k, k.cy) /\ Above(f, k, 4 * cell_h)

BeforeK(f, k) ==
  /\ k.cx = x_advance /\ k.cy + cell_h < f.height /\ Above(f, k, 4 * cell_h)
  /\ LegibleIn(k, "P", 0, k.cy)
  /\ \A i \in 0 .. cell_h - 1 : \A s \in k.px[k.cy + i] : s.x = 0

AfterK(f, k) ==
  \E z, y : Bang(f, k, z) /\ k.cy - z <= 5 * cell_h /\ z < y /\ y <= k.cy /\ LastLine(f, k, y)

Printed(f, k) ==
  \E z, y : Bang(f, k, z) /\ z < y /\ y + cell_h <= k.cy /\ LastLine(f, k, y)

\* What is on the screen when t is left of what panic() prints.
Stage(f, k, t) ==
  \/ \E g \in Glyphs : t = <<g, "!", "LF", "LF", "P", "K", "LF">>
  \/ \E g \in Glyphs : t = <<g, "!", "LF", "LF", "LF", "P", "K", "LF">>
  \/ t = <<"!", "LF", "LF", "P", "K", "LF">> /\ k.cx < f.width
  \/ t = <<"!", "LF", "LF", "LF", "P", "K", "LF">> /\ k.cx < f.width
  \/ t = <<"LF", "LF", "LF", "P", "K", "LF">> /\ Within(f, k, cell_h)
  \/ t = <<"LF", "LF", "P", "K", "LF">> /\ Within(f, k, 2 * cell_h)
  \/ t = <<"LF", "P", "K", "LF">> /\ Within(f, k, 3 * cell_h)
  \/ t = <<"P", "K", "LF">> /\ BeforeP(f, k)
  \/ t = <<"K", "LF">> /\ BeforeK(f, k)
  \/ t = <<"LF">> /\ AfterK(f, k)
  \/ t = <<>> /\ Printed(f, k)

\* Room made leaves the end of the message on the screen if it is not too far up.
LEMMA BangMoves ==
  ASSUME RoomForPanic, NEW f \in Framebuffers, NEW k, Usable(f, k), NEW q, NEW d \in {0, cell_h},
         d # 0 => k.cy >= 6 * cell_h,
         MovedUp(f, k, q, d),
         NEW z, Bang(f, k, z), k.cy - z <= 5 * cell_h
  PROVE  Bang(f, q, z - d) /\ d <= z
<1>1. cell_h \in Nat /\ k.cy \in Nat /\ z \in Nat /\ z + cell_h <= f.height
  BY Heights DEF Usable, IsConsole, Bang
<1>2. d \in Nat /\ d <= z
  BY <1>1
<1>3. /\ z - d \in Nat /\ (z - d) + cell_h <= f.height
      /\ SameLine(k, z, q, z - d)
  BY <1>1, <1>2, RowsMove
<1>4. ASSUME NEW x, WholeIn(k, "!", x, z)
      PROVE  WholeIn(q, "!", x, z - d)
  BY <1>3, <1>4 DEF WholeIn, SameLine
<1> QED BY <1>2, <1>3, <1>4 DEF Bang

\* A line feed moves the end of the message one line away.
LEMMA FeedBang ==
  ASSUME RoomForPanic, NEW f \in Framebuffers, NEW k, Usable(f, k), NEW j \in 0 .. 5,
         NEW z, Bang(f, k, z), z <= k.cy, k.cy - z <= j * cell_h, NEW n, n = Finished(f, k, "LF")
  PROVE  /\ Usable(f, n) /\ n.cx = 0 /\ ClearFrom(f, n, n.cy)
         /\ Above(f, n, (j + 1) * cell_h)
<1>1. cell_h \in Nat \ {0} /\ k.cy \in Nat /\ z \in Nat
  BY Heights DEF Usable, IsConsole, Bang
<1> DEFINE q == Roomy(f, k)
<1>2. n = NewLined(f, q)
  BY DEF Finished
<1> HIDE DEF q
<1>3. /\ Usable(f, q) /\ q.cy + cell_h < f.height
  BY RoomMoves DEF q
<1>4. PICK d \in {0, cell_h} :
         /\ q.cy = k.cy - d
         /\ d # 0 => k.cy >= 6 * cell_h
         /\ MovedUp(f, k, q, d)
  BY RoomMoves DEF q
<1>5. /\ Usable(f, n) /\ n.cx = 0 /\ n.cy = q.cy + cell_h /\ n.px = q.px
      /\ ClearFrom(f, n, n.cy)
  BY <1>2, <1>3, FeedMoves
<1>6. j * cell_h <= 5 * cell_h /\ j * cell_h \in Nat /\ (j + 1) * cell_h = j * cell_h + cell_h
  BY <1>1, MulMono
<1>7. Bang(f, q, z - d) /\ d <= z
  <2>1. k.cy - z <= 5 * cell_h
    BY <1>1, <1>6
  <2> QED BY <1>4, <2>1, BangMoves
<1>8. Bang(f, n, z - d)
  BY <1>5, <1>7 DEF Bang, WholeIn
<1>9. z - d < n.cy /\ n.cy - (z - d) <= (j + 1) * cell_h
  BY <1>1, <1>4, <1>5, <1>6
<1> QED BY <1>5, <1>8, <1>9 DEF Above

\* The second is the stronger.
LEMMA AboveWithin ==
  ASSUME RoomForPanic, NEW f \in Framebuffers, NEW k, Usable(f, k), NEW n, Above(f, k, n)
  PROVE  Within(f, k, n)
<1>1. PICK z : Bang(f, k, z) /\ z < k.cy /\ k.cy - z <= n
  BY DEF Above
<1>2. z <= k.cy
  BY <1>1 DEF Bang, Usable, IsConsole
<1> QED BY <1>1, <1>2 DEF Within

\* The same without naming the row.
LEMMA FeedStage ==
  ASSUME RoomForPanic, NEW f \in Framebuffers, NEW k, Usable(f, k), NEW j \in 0 .. 5,
         Within(f, k, j * cell_h), NEW n, n = Finished(f, k, "LF")
  PROVE  /\ Usable(f, n) /\ n.cx = 0 /\ ClearFrom(f, n, n.cy)
         /\ Above(f, n, (j + 1) * cell_h) /\ Within(f, n, (j + 1) * cell_h)
<1>1. PICK z : Bang(f, k, z) /\ z <= k.cy /\ k.cy - z <= j * cell_h
  BY DEF Within
<1>2. /\ Usable(f, n) /\ n.cx = 0 /\ ClearFrom(f, n, n.cy)
      /\ Above(f, n, (j + 1) * cell_h)
  BY <1>1, FeedBang
<1> QED BY <1>2, AboveWithin

\* The end of the message is drawn.
LEMMA BangStage ==
  ASSUME RoomForPanic, NEW f \in Framebuffers, NEW k, Usable(f, k), k.cx < f.width,
         NEW n, n = Finished(f, k, "!")
  PROVE  Usable(f, n) /\ Within(f, n, cell_h) /\ Within(f, n, 2 * cell_h)
<1> DEFINE q == Roomy(f, k)
           d == Inking(f, q, "!", 0)
<1>1. cell_h \in Nat \ {0} /\ f.height \in Nat /\ f.width \in Nat /\ 0 < f.width /\ k.cx \in Nat
  BY Heights DEF Usable, IsConsole
<1>2. /\ Usable(f, q) /\ q.cy + cell_h < f.height /\ (q.cx = 0 \/ q.cx = k.cx)
  BY RoomMoves
<1>3. q.cy \in Nat /\ q.cx \in 0 .. f.width - 1
  BY <1>1, <1>2 DEF Usable, IsConsole
<1> HIDE DEF q
<1>4. DrawnOn(f, q, "!", d)
  BY <1>2, InkMoves
<1>5. Usable(f, n) /\ n.px = d.px /\ (n.cy = q.cy \/ n.cy = q.cy + cell_h)
  BY GlyphMoves DEF q
<1> HIDE DEF d
<1>6. ASSUME NEW i \in 0 .. cell_h - 1
      PROVE  [x |-> q.cx, ch |-> "!", row |-> i] \in n.px[q.cy + i]
  <2>1. /\ q.cy + i \in RowsOf(f) /\ q.cy + i \in q.cy .. q.cy + cell_h - 1
        /\ (q.cy + i) - q.cy = i
    BY <1>1, <1>2, <1>3 DEF RowsOf
  <2>2. d.px[q.cy + i] = q.px[q.cy + i] \cup {[x |-> q.cx, ch |-> "!", row |-> i]}
    BY <1>3, <1>4, <2>1 DEF DrawnOn
  <2> QED BY <1>5, <2>2
<1>7. Bang(f, n, q.cy)
  BY <1>1, <1>2, <1>3, <1>6 DEF Bang, WholeIn
<1>8. q.cy <= n.cy /\ n.cy - q.cy <= cell_h /\ n.cy - q.cy <= 2 * cell_h
  BY <1>1, <1>3, <1>5
<1> QED BY <1>5, <1>7, <1>8 DEF Within

\* What a row of the cursor's line is after a glyph; ink elsewhere stays.
LEMMA DrawnRow ==
  ASSUME RoomForPanic, NEW f \in Framebuffers, NEW q, Usable(f, q), q.cy + cell_h < f.height,
         q.cx < f.width, NEW c, NEW d, DrawnOn(f, q, c, d)
  PROVE  /\ \A i \in 0 .. cell_h - 1 :
              d.px[q.cy + i] = q.px[q.cy + i] \cup {[x |-> q.cx, ch |-> c, row |-> i]}
         /\ \A z : Bang(f, q, z) => Bang(f, d, z)
<1>1. /\ cell_h \in Nat \ {0} /\ f.height \in Nat /\ f.width \in Nat /\ q.cy \in Nat
      /\ q.cx \in 0 .. f.width - 1
  BY Heights DEF Usable, IsConsole
<1>2. ASSUME NEW i \in 0 .. cell_h - 1
      PROVE  d.px[q.cy + i] = q.px[q.cy + i] \cup {[x |-> q.cx, ch |-> c, row |-> i]}
  <2>1. /\ q.cy + i \in RowsOf(f) /\ q.cy + i \in q.cy .. q.cy + cell_h - 1
        /\ (q.cy + i) - q.cy = i
    BY <1>1 DEF RowsOf
  <2> QED BY <1>1, <2>1 DEF DrawnOn
<1>3. \A r \in RowsOf(f) : q.px[r] \subseteq d.px[r]
  BY DEF DrawnOn
<1>4. ASSUME NEW z, Bang(f, q, z)
      PROVE  Bang(f, d, z)
  <2>1. z \in Nat /\ z + cell_h <= f.height
    BY <1>4 DEF Bang
  <2>2. \A i \in 0 .. cell_h - 1 : z + i \in RowsOf(f)
    BY <1>1, <2>1 DEF RowsOf
  <2>3. \A x : WholeIn(q, "!", x, z) => WholeIn(d, "!", x, z)
    BY <1>3, <2>2 DEF WholeIn
  <2> QED BY <1>4, <2>3 DEF Bang
<1> QED BY <1>2, <1>4

\* The first glyph of the last line, at the start of a blank line.
LEMMA PStage ==
  ASSUME RoomForPanic, NEW f \in Framebuffers, NEW k, Usable(f, k), BeforeP(f, k),
         NEW n, n = Finished(f, k, "P")
  PROVE  Usable(f, n) /\ BeforeK(f, n)
<1> DEFINE q == Roomy(f, k)
           d == Inking(f, q, "P", 0)
<1>1. /\ cell_h \in Nat \ {0} /\ f.height \in Nat /\ f.width \in Nat /\ k.cy \in Nat
      /\ x_advance \in Nat \ {0} /\ x_advance < f.width /\ x_advance <= U32_MAX
  BY Heights DEF Usable, IsConsole
<1>2. Usable(f, q) /\ q.cy + cell_h < f.height
  BY RoomMoves
<1>3. PICK m \in {0, cell_h} :
         /\ q.cy = k.cy - m
         /\ m # 0 => k.cy >= 6 * cell_h /\ q.cx = 0
         /\ m = 0 => q.cx = k.cx
         /\ MovedUp(f, k, q, m)
  BY RoomMoves
<1>4. q.cx = 0 /\ q.cy \in Nat /\ m \in Nat
  BY <1>1, <1>2, <1>3 DEF BeforeP, Usable, IsConsole
<1>5. ClearFrom(f, q, q.cy)
  BY <1>1, <1>3, <1>4, ClearMoves DEF BeforeP
<1>6. PICK z : Bang(f, k, z) /\ z < k.cy /\ k.cy - z <= 4 * cell_h
  BY DEF BeforeP, Above
<1>7. Bang(f, q, z - m) /\ m <= z
  <2>1. k.cy - z <= 5 * cell_h
    BY <1>1, <1>6 DEF Bang
  <2> QED BY <1>3, <1>6, <2>1, BangMoves
<1>8. DrawnOn(f, q, "P", d)
  BY <1>2, InkMoves
<1>9. Screen!U32(q.cx + x_advance) = x_advance
  <2>1. q.cx + x_advance = x_advance
    BY <1>1, <1>4
  <2> QED BY <1>1, <2>1, Exact
<1>10. Usable(f, n) /\ n.px = d.px /\ n.cy = q.cy /\ n.cx = x_advance
  BY <1>1, <1>9, GlyphMoves
<1> HIDE DEF q, d
<1>11. /\ \A i \in 0 .. cell_h - 1 :
            d.px[q.cy + i] = q.px[q.cy + i] \cup {[x |-> q.cx, ch |-> "P", row |-> i]}
       /\ Bang(f, d, z - m)
  BY <1>1, <1>2, <1>4, <1>7, <1>8, DrawnRow
<1>12. \A i \in 0 .. cell_h - 1 : n.px[n.cy + i] = {[x |-> 0, ch |-> "P", row |-> i]}
  <2>1. ASSUME NEW i \in 0 .. cell_h - 1
        PROVE  q.px[q.cy + i] = {}
    <3>1. q.cy + i \in RowsOf(f) /\ q.cy + i >= q.cy
      BY <1>1, <1>2, <1>4 DEF RowsOf
    <3> QED BY <1>5, <3>1 DEF ClearFrom
  <2> QED BY <1>4, <1>10, <1>11, <2>1
<1>13. LegibleIn(n, "P", 0, n.cy) /\ \A i \in 0 .. cell_h - 1 : \A s \in n.px[n.cy + i] : s.x = 0
  BY <1>12 DEF LegibleIn
<1>14. Bang(f, n, z - m)
  BY <1>10, <1>11 DEF Bang, WholeIn
<1>15. z - m < n.cy /\ n.cy - (z - m) <= 4 * cell_h
  BY <1>1, <1>3, <1>4, <1>6, <1>7, <1>10 DEF Bang
<1> QED BY <1>2, <1>10, <1>13, <1>14, <1>15 DEF BeforeK, Above

\* The second one, behind it.
LEMMA KStage ==
  ASSUME RoomForPanic, NEW f \in Framebuffers, NEW k, Usable(f, k), BeforeK(f, k),
         NEW n, n = Finished(f, k, "K")
  PROVE  Usable(f, n) /\ AfterK(f, n)
<1> DEFINE d == Inking(f, k, "K", 0)
<1>1. /\ cell_h \in Nat \ {0} /\ f.height \in Nat /\ f.width \in Nat /\ k.cy \in Nat
      /\ x_advance \in Nat \ {0} /\ x_advance < f.width /\ U32_MAX \in Nat
      /\ f.height + cell_h <= U32_MAX /\ cell_h < f.height
  BY Heights DEF Usable, IsConsole
<1>2. k.cx = x_advance /\ k.cy + cell_h < f.height
  BY DEF BeforeK
<1>3. Roomy(f, k) = k
  <2>1. Screen!U32(f.height - cell_h) = f.height - cell_h
    BY <1>1, Exact
  <2> QED BY <1>1, <1>2, <2>1 DEF Roomy
<1>4. DrawnOn(f, k, "K", d)
  BY InkMoves
<1>5. Usable(f, n) /\ n.px = d.px /\ (n.cy = k.cy \/ n.cy = k.cy + cell_h)
  BY <1>3, GlyphMoves
<1> HIDE DEF d
<1>6. PICK z : Bang(f, k, z) /\ z < k.cy /\ k.cy - z <= 4 * cell_h
  BY DEF BeforeK, Above
<1>7. /\ \A i \in 0 .. cell_h - 1 :
           d.px[k.cy + i] = k.px[k.cy + i] \cup {[x |-> x_advance, ch |-> "K", row |-> i]}
      /\ Bang(f, d, z)
  BY <1>1, <1>2, <1>4, <1>6, DrawnRow
<1>8. LegibleIn(n, "P", 0, k.cy)
  <2> SUFFICES ASSUME NEW i \in 0 .. cell_h - 1
               PROVE  {s \in n.px[k.cy + i] : s.x = 0} = {[x |-> 0, ch |-> "P", row |-> i]}
    BY DEF LegibleIn
  <2>1. {s \in k.px[k.cy + i] : s.x = 0} = {[x |-> 0, ch |-> "P", row |-> i]}
    BY DEF BeforeK, LegibleIn
  <2>2. [x |-> x_advance, ch |-> "K", row |-> i].x # 0
    BY <1>1
  <2> QED BY <1>5, <1>7, <2>1, <2>2
<1>9. LegibleIn(n, "K", x_advance, k.cy)
  <2> SUFFICES ASSUME NEW i \in 0 .. cell_h - 1
               PROVE  {s \in n.px[k.cy + i] : s.x = x_advance}
                      = {[x |-> x_advance, ch |-> "K", row |-> i]}
    BY DEF LegibleIn
  <2>1. \A s \in k.px[k.cy + i] : s.x # x_advance
    BY <1>1 DEF BeforeK
  <2>2. [x |-> x_advance, ch |-> "K", row |-> i].x = x_advance
    OBVIOUS
  <2> QED BY <1>5, <1>7, <2>1, <2>2
<1>10. ClearFrom(f, n, k.cy + cell_h)
  <2>1. \A r \in RowsOf(f) : r >= k.cy + cell_h => r \notin k.cy .. k.cy + cell_h - 1
    BY <1>1 DEF RowsOf
  <2> QED BY <1>4, <1>5, <2>1 DEF ClearFrom, Usable, DrawnOn
<1>11. LastLine(f, n, k.cy)
  BY <1>1, <1>2, <1>8, <1>9, <1>10 DEF LastLine
<1>12. Bang(f, n, z) /\ z \in Nat
  BY <1>5, <1>7 DEF Bang, WholeIn
<1>13. n.cy - z <= 5 * cell_h /\ k.cy <= n.cy
  BY <1>1, <1>5, <1>6, <1>12
<1> QED BY <1>5, <1>6, <1>11, <1>12, <1>13 DEF AfterK

\* The last line feed may scroll once more.
LEMMA LastStage ==
  ASSUME RoomForPanic, NEW f \in Framebuffers, NEW k, Usable(f, k), AfterK(f, k),
         NEW n, n = Finished(f, k, "LF")
  PROVE  Usable(f, n) /\ Printed(f, n)
<1> DEFINE q == Roomy(f, k)
<1>1. cell_h \in Nat \ {0} /\ f.height \in Nat /\ k.cy \in Nat
  BY Heights DEF Usable, IsConsole
<1>2. Usable(f, q) /\ q.cy + cell_h < f.height
  BY RoomMoves
<1>3. PICK m \in {0, cell_h} :
         /\ q.cy = k.cy - m
         /\ m # 0 => k.cy >= 6 * cell_h
         /\ MovedUp(f, k, q, m)
  BY RoomMoves
<1>4. Usable(f, n) /\ n.cy = q.cy + cell_h /\ n.px = q.px
  <2>1. n = NewLined(f, q)
    BY DEF Finished
  <2> QED BY <1>2, <2>1, FeedMoves
<1> HIDE DEF q
<1>5. PICK z, y : /\ Bang(f, k, z) /\ k.cy - z <= 5 * cell_h /\ z < y /\ y <= k.cy
                  /\ LastLine(f, k, y)
  BY DEF AfterK
<1>6. z \in Nat /\ y \in Nat /\ m \in Nat /\ y + cell_h <= f.height
  BY <1>1, <1>5 DEF Bang, LastLine
<1>7. Bang(f, q, z - m) /\ m <= z
  BY <1>3, <1>5, BangMoves
<1>8. y - m \in Nat /\ (y - m) + cell_h <= f.height /\ SameLine(k, y, q, y - m)
  <2>1. m <= y
    BY <1>5, <1>6, <1>7
  <2> QED BY <1>3, <1>6, <2>1, RowsMove
<1>9. ClearFrom(f, q, (y - m) + cell_h)
  <2>1. ClearFrom(f, k, y + cell_h) /\ y + cell_h \in Nat /\ (y + cell_h) - m = (y - m) + cell_h
    BY <1>1, <1>5, <1>6 DEF LastLine
  <2> QED BY <1>3, <1>6, <2>1, ClearMoves
<1>10. LegibleIn(q, "P", 0, y - m) /\ LegibleIn(q, "K", x_advance, y - m)
  BY <1>5, <1>8 DEF LastLine, LegibleIn, SameLine
<1>11. LastLine(f, n, y - m) /\ Bang(f, n, z - m)
  BY <1>4, <1>7, <1>8, <1>9, <1>10 DEF LastLine, LegibleIn, ClearFrom, Bang, WholeIn
<1>12. z - m < y - m /\ (y - m) + cell_h <= n.cy
  BY <1>1, <1>3, <1>4, <1>5, <1>6
<1> QED BY <1>4, <1>11, <1>12 DEF Printed

\* Each character takes the screen from one stage to the next.
LEMMA StageStep ==
  ASSUME RoomForPanic, NEW f \in Framebuffers, NEW k, Usable(f, k), NEW t, Stage(f, k, t),
         t # <<>>, NEW n, n = Finished(f, k, Head(t))
  PROVE  Stage(f, n, Tail(t))
<1>1. ASSUME NEW g \in Glyphs, Head(t) = g
      PROVE  n.cx < f.width
  <2>1. g # "LF"
    BY KernelAssumption
  <2> QED BY <1>1, <2>1, GlyphMoves
<1>2. CASE \E g \in Glyphs : t = <<g, "!", "LF", "LF", "P", "K", "LF">>
  <2>1. PICK g \in Glyphs : t = <<g, "!", "LF", "LF", "P", "K", "LF">>
    BY <1>2
  <2>2. Head(t) = g /\ Tail(t) = <<"!", "LF", "LF", "P", "K", "LF">>
    BY <2>1
  <2> QED BY <1>1, <2>2 DEF Stage
<1>3. CASE \E g \in Glyphs : t = <<g, "!", "LF", "LF", "LF", "P", "K", "LF">>
  <2>1. PICK g \in Glyphs : t = <<g, "!", "LF", "LF", "LF", "P", "K", "LF">>
    BY <1>3
  <2>2. Head(t) = g /\ Tail(t) = <<"!", "LF", "LF", "LF", "P", "K", "LF">>
    BY <2>1
  <2> QED BY <1>1, <2>2 DEF Stage
<1>4. CASE t = <<"!", "LF", "LF", "P", "K", "LF">> /\ k.cx < f.width
  <2>1. Head(t) = "!" /\ Tail(t) = <<"LF", "LF", "P", "K", "LF">>
    BY <1>4
  <2> QED BY <1>4, <2>1, BangStage DEF Stage
<1>5. CASE t = <<"!", "LF", "LF", "LF", "P", "K", "LF">> /\ k.cx < f.width
  <2>1. Head(t) = "!" /\ Tail(t) = <<"LF", "LF", "LF", "P", "K", "LF">>
    BY <1>5
  <2> QED BY <1>5, <2>1, BangStage DEF Stage
<1>6. CASE t = <<"LF", "LF", "LF", "P", "K", "LF">> /\ Within(f, k, cell_h)
  <2>1. Head(t) = "LF" /\ Tail(t) = <<"LF", "LF", "P", "K", "LF">>
    BY <1>6
  <2>2. 1 * cell_h = cell_h /\ (1 + 1) * cell_h = 2 * cell_h
    BY KernelAssumption
  <2>3. Within(f, n, 2 * cell_h)
    BY <1>6, <2>1, <2>2, FeedStage
  <2> QED BY <2>1, <2>3 DEF Stage
<1>7. CASE t = <<"LF", "LF", "P", "K", "LF">> /\ Within(f, k, 2 * cell_h)
  <2>1. Head(t) = "LF" /\ Tail(t) = <<"LF", "P", "K", "LF">>
    BY <1>7
  <2>2. Within(f, n, (2 + 1) * cell_h)
    BY <1>7, <2>1, FeedStage
  <2> QED BY <2>1, <2>2 DEF Stage
<1>8. CASE t = <<"LF", "P", "K", "LF">> /\ Within(f, k, 3 * cell_h)
  <2>1. Head(t) = "LF" /\ Tail(t) = <<"P", "K", "LF">>
    BY <1>8
  <2>2. n.cx = 0 /\ ClearFrom(f, n, n.cy) /\ Above(f, n, (3 + 1) * cell_h)
    BY <1>8, <2>1, FeedStage
  <2> QED BY <2>1, <2>2 DEF Stage, BeforeP
<1>9. CASE t = <<"P", "K", "LF">> /\ BeforeP(f, k)
  <2>1. Head(t) = "P" /\ Tail(t) = <<"K", "LF">>
    BY <1>9
  <2> QED BY <1>9, <2>1, PStage DEF Stage
<1>10. CASE t = <<"K", "LF">> /\ BeforeK(f, k)
  <2>1. Head(t) = "K" /\ Tail(t) = <<"LF">>
    BY <1>10
  <2> QED BY <1>10, <2>1, KStage DEF Stage
<1>11. CASE t = <<"LF">> /\ AfterK(f, k)
  <2>1. Head(t) = "LF" /\ Tail(t) = <<>>
    BY <1>11
  <2> QED BY <1>11, <2>1, LastStage DEF Stage
<1> QED BY <1>2, <1>3, <1>4, <1>5, <1>6, <1>7, <1>8, <1>9, <1>10, <1>11 DEF Stage

-----------------------------------------------------------------------------
\* What the cursor and the rows that are laid bare are during a scroll.
Scrolls ==
  /\ io.at \in {"move", "blank", "up"} => kconsole.cy + cell_h >= fb.height
  /\ io.at = "blank" => \A r \in RowsOf(fb) :
                          fb.height - cell_h <= r /\ r < io.row => kconsole.px[r] = {}
  /\ io.at = "up" => ClearFrom(fb, kconsole, fb.height - cell_h)
  /\ io.at = "feed" => kconsole.cy + cell_h < fb.height

GInv ==
  /\ Usable(fb, kconsole) /\ Usable(fb, before)
  /\ io.text # <<>> => Scrolls

\* The screen starts blank, with the cursor in its corner.
LEMMA InitGInv == RoomForPanic /\ Init => GInv
<1> SUFFICES ASSUME RoomForPanic, Init PROVE GInv
  OBVIOUS
<1>1. /\ fb \in Framebuffers /\ before = kconsole /\ io.text = <<>>
      /\ kconsole = [cx |-> 0, cy |-> 0, px |-> [r \in RowsOf(fb) |-> {}]]
  BY DEF Init, Screen!Rows, RowsOf, Output
<1>2. IsConsole(fb, kconsole)
  BY <1>1 DEF IsConsole
<1>3. ClearFrom(fb, kconsole, kconsole.cy + cell_h)
  BY <1>1 DEF ClearFrom
<1>4. kconsole.cy = 0 * cell_h /\ kconsole.cy < fb.height
  BY <1>1, Heights
<1> QED BY <1>1, <1>2, <1>3, <1>4 DEF GInv, Usable, OnLine

\* A text starts with no store under way.
LEMMA NewGInv ==
  ASSUME GInv, UNCHANGED <<fb, kconsole, before>>, NEW t, io' = Output(t)
  PROVE  GInv'
<1>1. io'.at = "char"
  BY DEF Output
<1> QED BY <1>1 DEF GInv, Scrolls

\* A step that leaves console and text alone.
LEMMA SameGInv ==
  ASSUME GInv, UNCHANGED <<fb, kconsole, before, io>>
  PROVE  GInv'
BY DEF GInv, Scrolls

\* An interrupt keeps the console as it finds it.
LEMMA InterruptGInv ==
  ASSUME GInv, NEW v, Interrupt(v)
  PROVE  GInv'
<1>1. CASE Deliverable(v)
  BY <1>1, NewGInv DEF Interrupt, panic
<1>2. CASE ~Deliverable(v)
  BY <1>2, SameGInv DEF Interrupt
<1> QED BY <1>1, <1>2

\* So do the calls of kernel_main().
LEMMA MainGInv ==
  ASSUME GInv, kernel_main
  PROVE  GInv'
<1>1. CASE gdt_init \/ isr_init \/ idt_init \/ kidle
  BY <1>1, SameGInv DEF gdt_init, isr_init, idt_init, kidle
<1>2. CASE mm_init
  BY <1>2, SameGInv, NewGInv DEF mm_init, panic
<1>3. CASE kcon_init
  BY <1>3, NewGInv DEF kcon_init, panic
<1>4. CASE SaysBooted
  BY <1>4, NewGInv DEF SaysBooted
<1> QED BY <1>1, <1>2, <1>3, <1>4 DEF kernel_main

\* A step that leaves cy and the rows alone.
LEMMA ColumnGInv ==
  ASSUME GInv, WInv', UNCHANGED fb, before' \in {before, kconsole},
         kconsole'.cy = kconsole.cy, kconsole'.px = kconsole.px,
         io'.at \notin {"move", "blank", "up", "feed"}
  PROVE  GInv'
<1>1. Usable(fb, kconsole')
  BY DEF GInv, WInv, Usable, ClearFrom
<1> QED BY <1>1 DEF GInv, Scrolls

\* What the steps that do more have to show.
LEMMA StoreGInv ==
  ASSUME GInv, WInv', UNCHANGED <<fb, before>>, kconsole'.cy < fb.height, OnLine(kconsole'.cy),
         ClearFrom(fb, kconsole', kconsole'.cy + cell_h), Scrolls'
  PROVE  GInv'
<1>1. Usable(fb, kconsole')
  BY DEF WInv, Usable
<1> QED BY <1>1 DEF GInv

\* The sizes and the cursor in a step of kcon_write().
LEMMA Here ==
  ASSUME RoomForPanic, WInv, GInv
  PROVE  /\ cell_h \in Nat \ {0} /\ fb.height \in Nat /\ 6 * cell_h < fb.height
         /\ fb.height + cell_h <= U32_MAX /\ U32_MAX \in Nat
         /\ kconsole.cy \in Nat /\ kconsole.cy < fb.height /\ OnLine(kconsole.cy)
         /\ ClearFrom(fb, kconsole, kconsole.cy + cell_h)
         /\ kconsole = [cx |-> kconsole.cx, cy |-> kconsole.cy, px |-> kconsole.px]
         /\ kconsole.px = [r \in RowsOf(fb) |-> kconsole.px[r]]
         /\ Screen!U32(kconsole.cy + cell_h) = kconsole.cy + cell_h
<1>1. fb \in Framebuffers
  BY DEF WInv
<1>2. /\ cell_h \in Nat \ {0} /\ fb.height \in Nat /\ 6 * cell_h < fb.height
      /\ fb.height + cell_h <= U32_MAX /\ U32_MAX \in Nat
  BY <1>1, Heights
<1>3. kconsole.cy \in Nat /\ kconsole.cy < fb.height
  BY DEF GInv, Usable, IsConsole
<1>4. Screen!U32(kconsole.cy + cell_h) = kconsole.cy + cell_h
  BY <1>2, <1>3, Exact
<1> QED BY <1>2, <1>3, <1>4 DEF GInv, Usable, IsConsole

\* The steps that move the cursor along its line at most.
LEMMA AlongGInv ==
  ASSUME KInv, WInv, WInv', GInv, CharStart \/ Emit \/ Advance \/ CursorHome
  PROVE  GInv'
<1>1. UNCHANGED fb /\ before' \in {before, kconsole}
  BY DEF CharStart, Emit, Advance, CursorHome, Elsewhere
<1>2. kconsole'.cy = kconsole.cy /\ kconsole'.px = kconsole.px
  <2>1. CASE CharStart \/ Emit
    BY <2>1 DEF CharStart, Emit
  <2>2. CASE Advance
    BY <2>2 DEF Advance, WInv, IsConsole
  <2>3. CASE CursorHome
    BY <2>3 DEF CursorHome, WInv, IsConsole
  <2> QED BY <2>1, <2>2, <2>3
<1>3. io'.at \notin {"move", "blank", "up", "feed"}
  <2>1. CASE CharStart
    BY <2>1, Went DEF CharStart
  <2>2. CASE Emit
    BY <2>2, Went DEF Emit
  <2>3. CASE Advance
    BY <2>3, Went DEF Advance
  <2>4. CASE CursorHome
    BY <2>4, Went DEF CursorHome, WInv
  <2> QED BY <2>1, <2>2, <2>3, <2>4
<1> QED BY <1>1, <1>2, <1>3, ColumnGInv

\* A glyph is drawn in the line of the cursor.
LEMMA BlitGInv ==
  ASSUME RoomForPanic, KInv, WInv, WInv', GInv, BlitRow
  PROVE  GInv'
<1> DEFINE ink == [x |-> kconsole.cx, ch |-> Head(io.text), row |-> io.row]
           new == Screen!gop_blit(kconsole.px, kconsole.cy + io.row, ink)
<1>1. UNCHANGED <<fb, before>> /\ io.row \in 0 .. cell_h - 1
  BY DEF BlitRow, Elsewhere, WInv, Underway, Printing
<1>2. kconsole'.cy = kconsole.cy /\ kconsole'.px = new
  <2>1. kconsole' = [kconsole EXCEPT !.px = new]
    BY DEF BlitRow
  <2> HIDE DEF new
  <2> QED BY <2>1 DEF WInv, IsConsole
<1>3. \A r \in RowsOf(fb) : r # kconsole.cy + io.row => new[r] = kconsole.px[r]
  BY DEF Screen!gop_blit, Screen!Rows, RowsOf
<1> HIDE DEF new
<1>4. \A r \in RowsOf(fb) : r >= kconsole.cy + cell_h => r # kconsole.cy + io.row
  BY <1>1, Here DEF RowsOf
<1>5. ClearFrom(fb, kconsole', kconsole'.cy + cell_h)
  BY <1>2, <1>3, <1>4, Here DEF ClearFrom
<1>6. io'.at \in {"blit", "advance"}
  BY Went DEF BlitRow
<1>7. Scrolls'
  BY <1>6 DEF Scrolls
<1> QED BY <1>1, <1>2, <1>5, <1>7, StoreGInv, Here

\* A scroll begins in the last line only, and a line feed never there.
LEMMA NewLineGInv ==
  ASSUME RoomForPanic, KInv, WInv, WInv', GInv, NewLine
  PROVE  GInv'
<1>1. UNCHANGED <<fb, before>>
  BY DEF NewLine, Elsewhere
<1>2. kconsole'.cy = kconsole.cy /\ kconsole'.px = kconsole.px
  BY DEF NewLine, WInv, IsConsole
<1>3. ClearFrom(fb, kconsole', kconsole'.cy + cell_h)
  BY <1>2, Here DEF ClearFrom
<1>4. CASE kconsole.cy + cell_h >= fb.height
  <2>1. io'.at = "move"
    BY <1>4, Went, Here DEF NewLine
  <2>2. Scrolls'
    BY <1>1, <1>2, <1>4, <2>1 DEF Scrolls
  <2> QED BY <1>1, <1>2, <1>3, <2>2, StoreGInv, Here
<1>5. CASE ~(kconsole.cy + cell_h >= fb.height)
  <2>1. io'.at = "feed"
    BY <1>5, Went, Here DEF NewLine
  <2>2. kconsole.cy + cell_h < fb.height
    BY <1>5, Here
  <2>3. Scrolls'
    BY <1>1, <1>2, <2>1, <2>2 DEF Scrolls
  <2> QED BY <1>1, <1>2, <1>3, <2>3, StoreGInv, Here
<1> QED BY <1>4, <1>5

\* While rows are moved there is none below the line of the cursor.
LEMMA MoveGInv ==
  ASSUME RoomForPanic, KInv, WInv, WInv', GInv, MoveRow
  PROVE  GInv'
<1>1. /\ UNCHANGED <<fb, before>> /\ io.row \in 0 .. (fb.height - cell_h) - 1
      /\ kconsole.cy + cell_h >= fb.height
  BY DEF MoveRow, Elsewhere, WInv, Underway, Printing, GInv, Scrolls
<1>2. kconsole'.cy = kconsole.cy
  BY DEF MoveRow, WInv, IsConsole
<1>3. ClearFrom(fb, kconsole', kconsole'.cy + cell_h)
  BY <1>1, <1>2, Here DEF ClearFrom, RowsOf
<1>4. Scrolls'
  <2>1. CASE io.row + 1 < fb.height - cell_h
    <3>1. io'.at = "move"
      BY <2>1, Went DEF MoveRow
    <3> QED BY <1>1, <1>2, <3>1 DEF Scrolls
  <2>2. CASE ~(io.row + 1 < fb.height - cell_h)
    <3>1. io'.at = "blank" /\ io'.row = io.row + 1
      BY <2>2, Went DEF MoveRow
    <3>2. \A r \in RowsOf(fb) : ~(fb.height - cell_h <= r /\ r < io.row + 1)
      BY <1>1, Here DEF RowsOf
    <3> QED BY <1>1, <1>2, <3>1, <3>2 DEF Scrolls
  <2> QED BY <2>1, <2>2
<1> QED BY <1>1, <1>2, <1>3, <1>4, StoreGInv, Here

\* A row made blank is one more of the last line, and after the last all are.
LEMMA BlankGInv ==
  ASSUME RoomForPanic, KInv, WInv, WInv', GInv, BlankRow
  PROVE  GInv'
<1>1. /\ UNCHANGED <<fb, before>> /\ io.row \in fb.height - cell_h .. fb.height - 1
      /\ kconsole.cy + cell_h >= fb.height
      /\ \A r \in RowsOf(fb) : fb.height - cell_h <= r /\ r < io.row => kconsole.px[r] = {}
  BY DEF BlankRow, Elsewhere, WInv, Underway, Printing, GInv, Scrolls
<1>2. kconsole'.cy = kconsole.cy /\ kconsole'.px = [kconsole.px EXCEPT ![io.row] = {}]
  BY DEF BlankRow, WInv, IsConsole
<1>3. \A r \in RowsOf(fb) : kconsole'.px[r] = IF r = io.row THEN {} ELSE kconsole.px[r]
  BY <1>2, Here
<1>4. ClearFrom(fb, kconsole', kconsole'.cy + cell_h)
  BY <1>1, <1>2, Here DEF ClearFrom, RowsOf
<1>5. \A r \in RowsOf(fb) : fb.height - cell_h <= r /\ r < io.row + 1 => kconsole'.px[r] = {}
  <2>1. cell_h \in Nat /\ fb.height \in Nat /\ io.row \in Int
    BY <1>1, Here
  <2>2. \A r \in RowsOf(fb) : r < io.row + 1 => r = io.row \/ r < io.row
    BY <2>1 DEF RowsOf
  <2> QED BY <1>1, <1>3, <2>2
<1>6. Scrolls'
  <2>1. CASE io.row + 1 < fb.height
    <3>1. io'.at = "blank" /\ io'.row = io.row + 1
      BY <2>1, Went DEF BlankRow
    <3> QED BY <1>1, <1>2, <1>5, <3>1 DEF Scrolls
  <2>2. CASE ~(io.row + 1 < fb.height)
    <3>1. io'.at = "up"
      BY <2>2, Went DEF BlankRow
    <3>2. \A r \in RowsOf(fb) : r < io.row + 1
      BY <1>1, <2>2, Here DEF RowsOf
    <3>3. ClearFrom(fb, kconsole', fb.height - cell_h)
      BY <1>5, <3>2 DEF ClearFrom
    <3> QED BY <1>1, <1>2, <3>1, <3>3 DEF Scrolls
  <2> QED BY <2>1, <2>2
<1> QED BY <1>1, <1>2, <1>4, <1>6, StoreGInv, Here

\* The cursor follows the rows up, above the lines that were laid bare; or it
\* goes down to a line with nothing below.
LEMMA CursorGInv ==
  ASSUME RoomForPanic, KInv, WInv, WInv', GInv, CursorUp \/ CursorDown
  PROVE  GInv'
<1>1. UNCHANGED <<fb, before>> /\ io'.at = "home"
  BY Went DEF CursorUp, CursorDown, Elsewhere
<1>2. Scrolls'
  BY <1>1 DEF Scrolls
<1>3. CASE CursorUp
  <2>1. kconsole.cy + cell_h >= fb.height /\ ClearFrom(fb, kconsole, fb.height - cell_h)
    BY <1>3 DEF CursorUp, Printing, GInv, Scrolls
  <2>2. kconsole.cy > 0 * cell_h
    BY <2>1, Here
  <2>3. OnLine(kconsole.cy - cell_h) /\ kconsole.cy - cell_h \in Nat
    BY <2>2, Here, LineAbove
  <2>4. Screen!U32(kconsole.cy - cell_h) = kconsole.cy - cell_h
    BY <2>3, Here, Exact
  <2>5. kconsole'.cy = kconsole.cy - cell_h /\ kconsole'.px = kconsole.px
    BY <1>3, <2>4 DEF CursorUp, WInv, IsConsole
  <2>6. kconsole'.cy < fb.height /\ \A r \in RowsOf(fb) : r >= kconsole'.cy + cell_h =>
                                      r >= fb.height - cell_h
    BY <2>1, <2>5, Here DEF RowsOf
  <2>7. ClearFrom(fb, kconsole', kconsole'.cy + cell_h)
    BY <2>1, <2>5, <2>6 DEF ClearFrom
  <2> QED BY <1>1, <1>2, <2>3, <2>5, <2>6, <2>7, StoreGInv
<1>4. CASE CursorDown
  <2>1. kconsole.cy + cell_h < fb.height
    BY <1>4 DEF CursorDown, Printing, GInv, Scrolls
  <2>2. kconsole'.cy = kconsole.cy + cell_h /\ kconsole'.px = kconsole.px
    BY <1>4, Here DEF CursorDown
  <2>3. \A r \in RowsOf(fb) : r >= kconsole'.cy + cell_h => r >= kconsole.cy + cell_h
    BY <2>2, Here DEF RowsOf
  <2>4. ClearFrom(fb, kconsole', kconsole'.cy + cell_h)
    BY <2>2, <2>3, Here DEF ClearFrom
  <2>5. OnLine(kconsole'.cy)
    BY <2>2, Here, LineBelow
  <2> QED BY <1>1, <1>2, <2>1, <2>2, <2>4, <2>5, StoreGInv
<1> QED BY <1>3, <1>4

\* Every step keeps it.
LEMMA NextGInv == RoomForPanic /\ KInv /\ WInv /\ WInv' /\ GInv /\ [Next]_vars => GInv'
<1> SUFFICES ASSUME RoomForPanic, KInv, WInv, WInv', GInv, [Next]_vars PROVE GInv'
  OBVIOUS
<1>1. CASE kernel_main
  BY <1>1, MainGInv
<1>2. CASE NullConsole \/ Fault \/ NonMaskable
  BY <1>2, InterruptGInv DEF NullConsole, Fault, NonMaskable
<1>3. CASE CharStart \/ Emit \/ Advance \/ CursorHome
  BY <1>3, AlongGInv
<1>4. CASE NextChar
  BY <1>4, NewGInv DEF NextChar, Elsewhere
<1>5. CASE BlitRow \/ NewLine \/ MoveRow \/ BlankRow \/ CursorUp \/ CursorDown
  BY <1>5, BlitGInv, NewLineGInv, MoveGInv, BlankGInv, CursorGInv
<1>6. CASE PanicHalts
  BY <1>6, SameGInv DEF PanicHalts
<1>7. CASE UNCHANGED vars
  BY <1>7, SameGInv DEF vars
<1> QED BY <1>1, <1>2, <1>3, <1>4, <1>5, <1>6, <1>7 DEF Next, Thread, kcon_write, Stopped

-----------------------------------------------------------------------------
\* A panic prints its text to the end before it halts, a stage for each character.
PInv ==
  /\ task # "main" => Stage(fb, IF io.at = "char" THEN kconsole ELSE before, io.text)
  /\ cpu.mode = "halted" => io.text = <<>>
  /\ io.text = <<>> => io.at = "char"

\* No panic at first.
LEMMA InitPInv == Init => PInv
BY DEF Init, PInv, Output

\* u is s and then t, place by place.
Joined(s, t, u) ==
  /\ Len(u) = Len(s) + Len(t)
  /\ \A i \in 1 .. Len(s) : u[i] = s[i]
  /\ \A i \in 1 .. Len(t) : u[Len(s) + i] = t[i]

LEMMA Joins ==
  ASSUME NEW S, NEW s \in Seq(S), NEW t \in Seq(S), NEW u \in Seq(S), Joined(s, t, u)
  PROVE  s \o t = u
<1> USE DEF Joined
<1>1. s \o t \in Seq(S) /\ Len(s \o t) = Len(u)
  BY ConcatProperties
<1>2. ASSUME NEW i \in 1 .. Len(s \o t)
      PROVE  (s \o t)[i] = u[i]
  <2>1. Len(s) \in Nat /\ Len(t) \in Nat /\ i \in 1 .. Len(s) + Len(t)
    BY <1>1
  <2>2. (s \o t)[i] = IF i <= Len(s) THEN s[i] ELSE t[i - Len(s)]
    BY <2>1, ConcatProperties
  <2>3. CASE i <= Len(s)
    BY <2>1, <2>2, <2>3
  <2>4. CASE ~(i <= Len(s))
    <3>1. i - Len(s) \in 1 .. Len(t) /\ Len(s) + (i - Len(s)) = i
      BY <2>1, <2>4
    <3> QED BY <2>2, <2>4, <3>1
  <2> QED BY <2>3, <2>4
<1> QED BY <1>1, <1>2, SeqEqual

\* What panic() prints, a character at a time.
LEMMA PanicWords ==
  ASSUME NEW g \in Glyphs
  PROVE  /\ <<g, "!">> \o <<"LF">> \o Banner = <<g, "!", "LF", "LF", "P", "K", "LF">>
         /\ <<g, "!", "LF">> \o <<"LF">> \o Banner
            = <<g, "!", "LF", "LF", "LF", "P", "K", "LF">>
<1>1. {g, "!", "LF", "P", "K"} \subseteq Alphabet
  BY MessageAssumption DEF Alphabet
<1> DEFINE a == <<g, "!">>
           b == <<g, "!", "LF">>
           c == <<g, "!", "LF", "LF">>
           d == <<g, "!", "LF", "LF", "P", "K", "LF">>
           e == <<g, "!", "LF", "LF", "LF", "P", "K", "LF">>
           f == <<"LF">>
<1>2. /\ a \in Seq(Alphabet) /\ b \in Seq(Alphabet) /\ c \in Seq(Alphabet)
      /\ f \in Seq(Alphabet)
      /\ Len(a) = 2 /\ Len(b) = 3 /\ Len(c) = 4 /\ Len(f) = 1
      /\ a[1] = g /\ a[2] = "!" /\ b[1] = g /\ b[2] = "!" /\ b[3] = "LF"
      /\ c[1] = g /\ c[2] = "!" /\ c[3] = "LF" /\ c[4] = "LF" /\ f[1] = "LF"
  BY <1>1
<1>3. /\ d \in Seq(Alphabet) /\ Len(d) = 7 /\ d[1] = g /\ d[2] = "!" /\ d[3] = "LF"
      /\ d[4] = "LF" /\ d[5] = "P" /\ d[6] = "K" /\ d[7] = "LF"
  BY <1>1
<1>4. /\ e \in Seq(Alphabet) /\ Len(e) = 8 /\ e[1] = g /\ e[2] = "!" /\ e[3] = "LF"
      /\ e[4] = "LF" /\ e[5] = "LF" /\ e[6] = "P" /\ e[7] = "K" /\ e[8] = "LF"
  BY <1>1
<1>5. /\ Banner \in Seq(Alphabet) /\ Len(Banner) = 4 /\ Banner[1] = "LF" /\ Banner[2] = "P"
      /\ Banner[3] = "K" /\ Banner[4] = "LF"
  BY <1>1 DEF Banner
<1> HIDE DEF a, b, c, d, e, f
<1>6. a \o f = b
  <2>1. \A i \in 1 .. 2 : b[i] = a[i]
    BY <1>2
  <2>2. \A i \in 1 .. 1 : b[2 + i] = f[i]
    BY <1>2
  <2>3. Joined(a, f, b)
    BY <1>2, <2>1, <2>2 DEF Joined
  <2> QED BY <1>2, <2>3, Joins
<1>7. b \o f = c
  <2>1. \A i \in 1 .. 3 : c[i] = b[i]
    BY <1>2
  <2>2. \A i \in 1 .. 1 : c[3 + i] = f[i]
    BY <1>2
  <2>3. Joined(b, f, c)
    BY <1>2, <2>1, <2>2 DEF Joined
  <2> QED BY <1>2, <2>3, Joins
<1>8. b \o Banner = d
  <2>1. \A i \in 1 .. 3 : d[i] = b[i]
    BY <1>2, <1>3
  <2>2. \A i \in 1 .. 4 : d[3 + i] = Banner[i]
    BY <1>3, <1>5
  <2>3. Joined(b, Banner, d)
    BY <1>2, <1>3, <1>5, <2>1, <2>2 DEF Joined
  <2> QED BY <1>2, <1>3, <1>5, <2>3, Joins
<1>9. c \o Banner = e
  <2>1. \A i \in 1 .. 4 : e[i] = c[i]
    BY <1>2, <1>4
  <2>2. \A i \in 1 .. 4 : e[4 + i] = Banner[i]
    BY <1>4, <1>5
  <2>3. Joined(c, Banner, e)
    BY <1>2, <1>4, <1>5, <2>1, <2>2 DEF Joined
  <2> QED BY <1>2, <1>4, <1>5, <2>3, Joins
<1> QED BY <1>6, <1>7, <1>8, <1>9 DEF a, b, c, d, e, f

\* panic() starts with the first stage.
LEMMA PanicPInv ==
  ASSUME NEW as, NEW m, panic(as, m), cpu'.mode # "halted",
         \E g \in Glyphs : m = <<g, "!">> \/ m = <<g, "!", "LF">>
  PROVE  PInv'
<1>1. io'.text = m \o <<"LF">> \o Banner /\ io'.at = "char"
  BY DEF panic, Output
<1>2. PICK g \in Glyphs : m = <<g, "!">> \/ m = <<g, "!", "LF">>
  OBVIOUS
<1>3. \/ io'.text = <<g, "!", "LF", "LF", "P", "K", "LF">>
      \/ io'.text = <<g, "!", "LF", "LF", "LF", "P", "K", "LF">>
  BY <1>1, <1>2, PanicWords
<1>4. io'.text # <<>>
  BY <1>3
<1>5. Stage(fb', kconsole', io'.text)
  BY <1>3 DEF Stage
<1> QED BY <1>1, <1>4, <1>5 DEF PInv

\* Every message is of that form.
LEMMA MessageForm ==
  ASSUME NEW v
  PROVE  \E g \in Glyphs : Message(v) = <<g, "!">> \/ Message(v) = <<g, "!", "LF">>
<1>1. "temporary" \in Glyphs
  BY MessageAssumption
<1>2. \A i \in DOMAIN table : table[i] \in Glyphs
  BY MessageAssumption DEF ToSet
<1> QED BY <1>1, <1>2 DEF Message

LEMMA InterruptPInv ==
  ASSUME KInv, PInv, NEW v, Interrupt(v)
  PROVE  PInv'
<1>1. CASE Deliverable(v)
  <2>1. panic("handler", Message(regs'["interrupt"].val)) /\ cpu'.mode = "runs"
    BY <1>1 DEF Interrupt, KInv, Shape
  <2> QED BY <2>1, PanicPInv, MessageForm
<1>2. CASE ~Deliverable(v)
  <2>1. UNCHANGED <<task, io, fb, kconsole, before>> /\ cpu'.mode = "shutdown"
    BY <1>2 DEF Interrupt, KInv, Shape
  <2> QED BY <2>1 DEF PInv
<1> QED BY <1>1, <1>2

\* kernel_main() is not in a panic until one of its calls ends in one.
LEMMA MainPInv ==
  ASSUME KInv, PInv, kernel_main
  PROVE  PInv'
<1>1. task = "main" /\ io.text = <<>> /\ cpu.mode = "runs"
  BY DEF kernel_main, gdt_init, mm_init, kcon_init, isr_init, idt_init, SaysBooted, kidle, Main,
         Runs
<1>2. CASE gdt_init \/ isr_init \/ idt_init \/ kidle
  <2>1. UNCHANGED <<task, io>>
    BY <1>2 DEF gdt_init, isr_init, idt_init, kidle
  <2> QED BY <1>1, <2>1 DEF PInv
<1>3. CASE mm_init
  <2>1. cpu' = cpu
    BY <1>3 DEF mm_init
  <2>2. CASE UNCHANGED <<task, io>>
    BY <1>1, <2>1, <2>2 DEF PInv
  <2>3. CASE panic("panic", <<"mm_init", "!">>)
    BY <1>1, <2>1, <2>3, PanicPInv, MessageAssumption
  <2> QED BY <1>3, <2>2, <2>3 DEF mm_init
<1>4. CASE kcon_init
  <2>1. cpu' = cpu
    BY <1>4 DEF kcon_init
  <2>2. CASE io' = Output(Greeting) /\ task' = task
    BY <1>1, <2>1, <2>2 DEF PInv, Output
  <2>3. CASE panic("panic", <<"ioremap", "!">>)
    BY <1>1, <2>1, <2>3, PanicPInv, MessageAssumption
  <2> QED BY <1>4, <2>2, <2>3 DEF kcon_init
<1>5. CASE SaysBooted
  BY <1>1, <1>5 DEF SaysBooted, PInv, Output
<1> QED BY <1>2, <1>3, <1>4, <1>5 DEF kernel_main

\* The stores of a character leave the stage it is in alone.
LEMMA StorePInv ==
  ASSUME KInv, WInv, PInv, kcon_write, ~NullConsole, ~NextChar
  PROVE  PInv'
<1>1. UNCHANGED <<fb, task, cpu>> /\ io.text # <<>> /\ cpu.mode = "runs"
  BY DEF kcon_write, CharStart, Emit, BlitRow, Advance, NewLine, MoveRow, BlankRow, CursorUp,
         CursorDown, CursorHome, Printing, Runs, Elsewhere
<1>2. before' = IF io.at = "char" THEN kconsole ELSE before
  BY DEF kcon_write, CharStart, Emit, BlitRow, Advance, NewLine, MoveRow, BlankRow, CursorUp,
         CursorDown, CursorHome, Printing
<1>3. io'.text = io.text /\ io'.at # "char"
  <2>1. CASE CharStart
    BY <2>1, Went DEF CharStart
  <2>2. CASE Emit
    BY <2>2, Went DEF Emit
  <2>3. CASE BlitRow
    BY <2>3, Went DEF BlitRow
  <2>4. CASE Advance
    BY <2>4, Went DEF Advance
  <2>5. CASE NewLine
    BY <2>5, Went DEF NewLine
  <2>6. CASE MoveRow
    BY <2>6, Went DEF MoveRow
  <2>7. CASE BlankRow
    BY <2>7, Went DEF BlankRow
  <2>8. CASE CursorUp \/ CursorDown
    BY <2>8, Went DEF CursorUp, CursorDown
  <2>9. CASE CursorHome
    BY <2>9, Went DEF CursorHome, WInv
  <2> QED BY <2>1, <2>2, <2>3, <2>4, <2>5, <2>6, <2>7, <2>8, <2>9 DEF kcon_write
<1> QED BY <1>1, <1>2, <1>3 DEF PInv

\* With the character complete, the next stage is reached.
LEMMA NextCharPInv ==
  ASSUME RoomForPanic, WInv, GInv, PInv, NextChar
  PROVE  PInv'
<1>1. /\ UNCHANGED <<fb, task, cpu, kconsole>> /\ cpu.mode = "runs"
      /\ io.text # <<>> /\ io.at = "next"
      /\ io'.text = Tail(io.text) /\ io'.at = "char"
  BY DEF NextChar, Printing, Runs, Elsewhere, Output
<1>2. fb \in Framebuffers /\ Usable(fb, before) /\ kconsole = Finished(fb, before, Head(io.text))
  BY <1>1 DEF WInv, Underway, GInv
<1>3. task # "main" => Stage(fb, before, io.text)
  BY <1>1 DEF PInv
<1>4. task # "main" => Stage(fb, kconsole, Tail(io.text))
  BY <1>1, <1>2, <1>3, StageStep
<1> QED BY <1>1, <1>4 DEF PInv

\* Every step keeps it.
LEMMA NextPInv == RoomForPanic /\ KInv /\ WInv /\ GInv /\ PInv /\ [Next]_vars => PInv'
<1> SUFFICES ASSUME RoomForPanic, KInv, WInv, GInv, PInv, [Next]_vars PROVE PInv'
  OBVIOUS
<1>1. CASE kernel_main
  BY <1>1, MainPInv
<1>2. CASE NullConsole \/ Fault \/ NonMaskable
  BY <1>2, InterruptPInv DEF NullConsole, Fault, NonMaskable
<1>3. CASE NextChar
  BY <1>3, NextCharPInv
<1>4. CASE kcon_write /\ ~NullConsole /\ ~NextChar
  BY <1>4, StorePInv
<1>5. CASE PanicHalts
  BY <1>5 DEF PanicHalts, PInv
<1>6. CASE UNCHANGED vars
  BY <1>6 DEF vars, PInv
<1> QED BY <1>1, <1>2, <1>3, <1>4, <1>5, <1>6 DEF Next, Thread, Stopped

\* The last stage is what PanicShows asks for.
LEMMA StageShows ==
  ASSUME RoomForPanic, WInv, GInv, PInv
  PROVE  PanicShows
<1> SUFFICES ASSUME cpu.mode = "halted", task # "main"
             PROVE  PanicShows
  BY DEF PanicShows
<1>1. Stage(fb, kconsole, <<>>)
  BY DEF PInv
<1>2. Printed(fb, kconsole)
  BY <1>1 DEF Stage
<1>3. PICK z, y : /\ Bang(fb, kconsole, z) /\ z < y /\ y + cell_h <= kconsole.cy
                  /\ LastLine(fb, kconsole, y)
  BY <1>2 DEF Printed
<1>4. PICK x \in 0 .. fb.width - 1 : WholeIn(kconsole, "!", x, z)
  BY <1>3 DEF Bang
<1>5. z \in Nat /\ y \in Nat
  BY <1>3 DEF Bang, LastLine
<1>6. z \in Screen!Rows /\ y \in Screen!Rows /\ y + cell_h \in Screen!Rows
  BY <1>3, <1>5, Here DEF Screen!Rows
<1>7. /\ Legible("P", 0, y) /\ Legible("K", x_advance, y) /\ Whole("!", x, z)
      /\ \A r \in Screen!Rows : r >= y + cell_h => kconsole.px[r] = {}
  BY <1>3, <1>4 DEF LastLine, Legible, LegibleIn, Whole, WholeIn, ClearFrom, RowsOf, Screen!Rows
<1> QED BY <1>3, <1>6, <1>7 DEF PanicShows

\* On a screen with room for it, a panic that has halted can be read: its last
\* line stands alone and complete with nothing below it and the end of its message
\* above, whatever store of whatever printk() the exceptions before it cut off.
THEOREM PanicLegible == ASSUME RoomForPanic PROVE Spec => []PanicShows
<1> DEFINE I == KInv /\ WInv /\ GInv /\ PInv
<1>1. Init => I
  BY InitKInv, InitWInv, InitGInv, InitPInv
<1>2. I /\ [Next]_vars => I'
  BY NextKInv, NextWInv, NextGInv, NextPInv
<1>3. I => PanicShows
  BY StageShows
<1> QED BY <1>1, <1>2, <1>3, PTL DEF Spec

=============================================================================
