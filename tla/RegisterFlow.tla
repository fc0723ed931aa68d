---------------------------- MODULE RegisterFlow ----------------------------
(***************************************************************************)
(* Taint inside one smali method: the worklist over the control flow graph *)
(* in SmaliCallGraphEngine._analyze_local_register_flows.  For every       *)
(* instruction it keeps what may be in the registers before it, joins what *)
(* the ways into it bring, and notes on each visit what reaches a sink, an *)
(* argument, a static field or the result.  Registers hold sets of traces, *)
(* in four tracks: the value itself, the elements of an array, the text of *)
(* a builder, and whether the value is the result of a method.             *)
(***************************************************************************)
EXTENDS Naturals, Sequences, FiniteSets

CONSTANTS
    Reg,        \* registers
    Bodies,     \* the methods to analyze: sequences of instructions
    Given,      \* what is known to be in parameters, fields and results
    MaxSteps,   \* the limit on visits
    MaxWay      \* bound: the steps for which a way is followed

VARIABLES
    body,       \* the method
    before,     \* states: what may be in the registers before an instruction
    queue,      \* the instructions to visit, first in, first out
    steps,      \* visited_steps
    noted,      \* flows, argument flows, field writes and return flows
    verdict     \* running, complete, or limited

rfVars == <<body, before, queue, steps, noted, verdict>>

Tracks == {"value", "array", "builder", "returned"}
\* The pending result of an invocation is kept like one more register.
Pending == "pending"
Slots == Reg \cup {Pending}
Clean == [k \in Tracks |-> {}]
Only(track, traces) == [Clean EXCEPT ![track] = traces]

\* Methods have an instruction at least, and instructions name registers; what
\* brings in a trace names the trace instead.
BodiesAreCode ==
    \A code \in Bodies :
        /\ DOMAIN code \subseteq Nat /\ 1 \in DOMAIN code
        /\ \A i \in DOMAIN code :
             code[i].d \in Reg /\ (code[i].op # "source" => code[i].s \in Reg)

-----------------------------------------------------------------------------
\* Where control may go from an instruction; a switch goes where an if goes.
Targets(code, i) ==
    LET next == i + 1
        to == code[i].to
        op == code[i].op
    IN DOMAIN code \cap (IF op = "goto" THEN {to}
                         ELSE IF op = "if" THEN {to, next}
                         ELSE IF op \in {"return", "throw"} THEN {} ELSE {next})
\* They are visited in this order, the target of a branch first.
InOrder(targets, branch, next) ==
    (IF branch \in targets THEN <<branch>> ELSE <<>>)
      \o (IF next \in targets /\ next # branch THEN <<next>> ELSE <<>>)

\* What an invocation leaves as its result; read fills an array that is
\* passed to it, append what a builder holds.
Invocation(instr, kept) ==
    LET d == instr.d
        s == instr.s
        result(entry) == [kept EXCEPT ![Pending] = entry]
    IN CASE instr.op = "source" -> result(Only("value", {instr.s}))
         [] instr.op = "transform" -> result(Only("value", kept[s].value))
         [] instr.op = "read" -> [kept EXCEPT ![d].array = @ \cup kept[s].value]
         [] instr.op = "append" ->
              LET text == kept[d].builder \cup kept[s].value
              IN [kept EXCEPT ![d].builder = text, ![Pending] = Only("builder", text)]
         [] instr.op = "to_string" -> result(Only("value", kept[s].builder))
         [] instr.op = "call" ->
              result([Only("value", Given["return"]) EXCEPT !.returned = Given["return"]])
         [] OTHER -> kept

\* What an instruction with destination d and operand s does to the registers.
\* The pending result lives for one instruction.  An aget drops the elements it
\* has noted of its destination before it looks for those of the array: where
\* the two are one register it finds what the array itself carries, or nothing.
Effect(instr, regs) ==
    LET d == instr.d
        s == instr.s
        kept == [regs EXCEPT ![Pending] = Clean]
        write(entry) == [kept EXCEPT ![d] = entry]
    IN CASE instr.op = "result" -> write(regs[Pending])
         [] instr.op = "move" -> write(regs[s])
         [] instr.op \in {"const", "iget"} -> write(Clean)
         [] instr.op = "arith" -> write(Only("value", regs[s].value))
         [] instr.op = "sget" -> write(Only("value", Given["field"]))
         [] instr.op = "aget" ->
              write(Only("value", IF s # d /\ regs[s].array # {} THEN regs[s].array
                                  ELSE regs[s].value))
         [] instr.op = "aput" -> [kept EXCEPT ![d].array = @ \cup regs[s].value]
         [] instr.op = "fill" -> [kept EXCEPT ![d].array = {}]
         [] instr.op = "new_filled" -> [kept EXCEPT ![Pending] = Only("array", regs[s].value)]
         [] OTHER -> Invocation(instr, kept)

\* What is noted there: at a sink, a call, a field write and a return.
Notes(instr, regs) ==
    IF instr.op \in {"sink", "call", "sput", "return"}
      THEN {<<instr.op, t>> : t \in regs[instr.s].value}
    ELSE {}

Join(a, b) == [r \in Slots |-> [k \in Tracks |-> a[r][k] \cup b[r][k]]]

\* (mutant) a pending result that differs alone does not count as a change
ChangedRegisters(old, new) == \E r \in Reg : old[r] # new[r]
Changed(old, new) == old # new

-----------------------------------------------------------------------------
\* Parameters are what the callers are known to pass.
Entry == [r \in Slots |-> IF r \in Reg THEN Only("value", Given["param"][r]) ELSE Clean]

Start(code) ==
    /\ body = code
    /\ before = [i \in {1} |-> Entry]
    /\ queue = <<1>>
    /\ steps = 0
    /\ noted = {}
    /\ verdict = "running"
rfInit == \E code \in Bodies : Start(code)

\* One visit: an instruction seen for the first time, or one where the join
\* brings something new, is put on the queue, a second time if it is there.
Visit ==
    /\ verdict = "running" /\ queue # <<>> /\ steps < MaxSteps
    /\ LET i == Head(queue)
           after == Effect(body[i], before[i])
           to == Targets(body, i)
           joined(j) == IF j \in DOMAIN before THEN Join(before[j], after) ELSE after
           new(j) == j \notin DOMAIN before \/ Changed(before[j], joined(j))
       IN /\ before' = [j \in DOMAIN before \cup to |->
                          IF j \in to /\ new(j) THEN joined(j) ELSE before[j]]
          /\ queue' = Tail(queue) \o InOrder({j \in to : new(j)}, body[i].to, i + 1)
          /\ noted' = noted \cup Notes(body[i], before[i])
    /\ steps' = steps + 1
    /\ UNCHANGED <<body, verdict>>

\* A queue that is not empty is noted as a limit, and makes coverage partial.
Done ==
    /\ verdict = "running"
    /\ queue = <<>> \/ steps = MaxSteps
    /\ verdict' = IF queue = <<>> THEN "complete" ELSE "limited"
    /\ UNCHANGED <<body, before, queue, steps, noted>>

rfNext ==
    \/ Visit
    \/ Done

rfSpec == rfInit /\ [][rfNext]_rfVars

-----------------------------------------------------------------------------
\* What an execution carries: an element that is read has the taint of the
\* elements and of the array itself, whatever register it is written to.
Carry(instr, regs) ==
    IF instr.op = "aget"
      THEN [regs EXCEPT ![Pending] = Clean,
                        ![instr.d] = Only("value", regs[instr.s].array \cup regs[instr.s].value)]
    ELSE Effect(instr, regs)

\* What one execution after the other would bring: the registers before every
\* instruction, followed along each way through the method on its own.
Follow(code, w) ==
    LET next == (UNION {{<<j, Carry(code[x[1]], x[2])>> : j \in Targets(code, x[1])} : x \in w.fresh})
                  \ w.seen
    IN [fresh |-> next, seen |-> w.seen \cup next]
Started == [fresh |-> {<<1, Entry>>}, seen |-> {<<1, Entry>>}]
Ways(code) ==
    LET way[k \in Nat] == IF k = 0 THEN Started ELSE Follow(code, way[k - 1]) IN way
Executed == Ways(body)[MaxWay].seen

\* Two losses the analysis does not tell of: elements hide what the array
\* itself carries, here and in the ways joined; and an aget into the register
\* of the array forgets the elements it reads.
Hidden == \E i \in DOMAIN before :
             /\ body[i].op = "aget"
             /\ LET a == before[i][body[i].s]
                IN a.array # {} /\ (a.value # {} \/ body[i].d = body[i].s)

\* The analysis of a method that ran to its end notes whatever some way through
\* the method carries into a sink, a call, a field or the result; the exceptions
\* are an array that is tainted itself, on this way or another, and has tainted
\* elements, and tainted elements read into the register of their array.
NoWayForgotten ==
    verdict = "complete" /\ ~Hidden =>
        \A way \in Executed : Notes(body[way[1]], way[2]) \subseteq noted

=============================================================================
