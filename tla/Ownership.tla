------------------------------ MODULE Ownership ------------------------------
(***************************************************************************)
(* What a function of the C interface or a JNI entry point does with the   *)
(* objects that no C++ destructor looks after: handles, structures from    *)
(* malloc, strings from strdup, exported Arrow structures and Java         *)
(* strings.  Everything else a function uses is released by the compiler   *)
(* and is left out, and so are the values it computes.                     *)
(*                                                                         *)
(* A function is a sequence of steps.  A step may fail, with an error the  *)
(* function itself sees (a status, a null pointer, a rejected argument) or *)
(* with a C++ exception its catch block sees, and each way has the         *)
(* clean-up the source has at that place.  Memory exhausted inside a C++   *)
(* allocation is left out where the source does nothing about it.          *)
(***************************************************************************)
EXTENDS Sequences, FiniteSets, SequencesExt

(***************************************************************************)
(* Operations on one object.                                               *)
(***************************************************************************)
Make(x) == [do |-> "make", obj |-> x]
Free(x) == [do |-> "free", obj |-> x]      \* the object has to be there
Drop(x) == [do |-> "drop", obj |-> x]      \* "if (x) release(x)"
Nothing == [do |-> "nothing", obj |-> ""]

FreeAll(objs) == [i \in DOMAIN objs |-> Free(objs[i])]
DropAll(objs) == [i \in DOMAIN objs |-> Drop(objs[i])]

(***************************************************************************)
(* Steps.  `fails': the ways the step can fail; `first': its operation has *)
(* happened even then; `undo': the clean-up before an error is returned;   *)
(* `unwind': the clean-up of the catch block; `stops': the step may also   *)
(* end the function with success, after that clean-up.                     *)
(***************************************************************************)
Sure(op) == [op |-> op, fails |-> {}, first |-> FALSE, undo |-> << >>,
             unwind |-> << >>, stops |-> {}]

\* A rejected argument or a null pointer: no exception.
Args(undo) == [Sure(Nothing) EXCEPT !.fails = {"error"}, !.undo = undo]

\* A call that returns a status or throws.
Check(undo) == [Args(undo) EXCEPT !.fails = {"error", "throw"}]

\* A call that only throws.
Throws == [Sure(Nothing) EXCEPT !.fails = {"throw"}]

\* A checked allocation, or an export of an Arrow structure.
Alloc(x, undo) == [Args(undo) EXCEPT !.op = Make(x)]

\* An allocation by new or by a helper that throws.
New(x) == [Sure(Make(x)) EXCEPT !.fails = {"throw"}]

\* An Arrow import: the structure has been moved whether or not it succeeds.
Import(x, undo) == [Args(undo) EXCEPT !.op = Drop(x), !.first = TRUE]

\* The function may be done here, having given nothing.
Done(undo) == [Sure(Nothing) EXCEPT !.stops = {undo}]

(***************************************************************************)
(* A function: the objects of the caller it is called with, its steps, and *)
(* the objects it hands to the caller when it succeeds.  It `needs' all of *)
(* the first, and `within' pairs an object it hands over with a handle     *)
(* that one borrows.                                                       *)
(***************************************************************************)
Function(uses, steps, gives) ==
    [uses |-> uses, needs |-> uses, steps |-> steps, gives |-> gives,
     within |-> {}, reports |-> TRUE]

\* A void function reports nothing, so it has no result to be freed.  What
\* it releases "if it is there" may be gone.
Procedure(uses, steps) ==
    [Function(uses, steps, {}) EXCEPT
       !.reports = FALSE,
       !.needs = { x \in uses : Sure(Drop(x)) \notin Range(steps) }]

Within(f, child, parent) == [f EXCEPT !.within = {<<child, parent>>}]

\* The catch block of a function cleans up: `unwind' is what it does.
Catching(steps, unwind) ==
    [i \in DOMAIN steps |-> [steps[i] EXCEPT !.unwind = @ \o unwind]]

(***************************************************************************)
(* JNI: a call of the C function f from an entry point.  When it fails the *)
(* entry point does `after', and the message of the result is an object.   *)
(***************************************************************************)
Message == "message"

Calling(f, after) ==
    [i \in DOMAIN f.steps |->
       [f.steps[i] EXCEPT
          !.undo = @ \o (IF f.reports THEN <<Make(Message)>> ELSE << >>) \o after,
          !.unwind = @ \o (IF f.reports THEN <<Make(Message)>> ELSE << >>) \o after]]

(***************************************************************************)
(* One run of a function.  `mine': what it has allocated and not given     *)
(* back; `took': what it has taken from the caller; `bad': what it has     *)
(* released without having it.                                             *)
(***************************************************************************)
Start == [mine |-> {}, took |-> {}, bad |-> {}]

Effect(f, s, op) ==
    LET x == op.obj
        here == x \in s.mine
        callers == x \in f.uses \ s.took
    IN  CASE op.do = "nothing" -> s
          [] op.do = "make" -> [s EXCEPT !.mine = @ \cup {x}]
          [] here -> [s EXCEPT !.mine = @ \ {x}]
          [] callers -> [s EXCEPT !.took = @ \cup {x}]
          [] op.do = "free" -> [s EXCEPT !.bad = @ \cup {x}]
          [] OTHER -> s

Run(f, s, ops) == FoldLeft(LAMBDA t, op : Effect(f, t, op), s, ops)

Ops(f, n) == [i \in 1..n |-> f.steps[i].op]

Before(f, k) == Run(f, Start, Ops(f, k - 1))

\* Every way a run can end: all steps done, an early success, a failure.
Completes(f) ==
    LET s == Before(f, Len(f.steps) + 1)
    IN  [ok |-> TRUE, given |-> f.gives, lost |-> s.mine \ f.gives,
         took |-> s.took, bad |-> s.bad \cup (f.gives \ s.mine)]

Stops(f) ==
    { LET s == Run(f, Before(f, w[1]), w[2])
      IN  [ok |-> TRUE, given |-> {}, lost |-> s.mine, took |-> s.took, bad |-> s.bad]
      : w \in UNION { {k} \X f.steps[k].stops : k \in DOMAIN f.steps } }

Breaks(f) ==
    { LET step == f.steps[w[1]]
          s == Run(f, IF step.first THEN Effect(f, Before(f, w[1]), step.op)
                                    ELSE Before(f, w[1]),
                   IF w[2] = "error" THEN step.undo ELSE step.unwind)
      IN  [ok |-> FALSE, given |-> IF f.reports THEN {Message} ELSE {},
           lost |-> s.mine, took |-> s.took, bad |-> s.bad]
      : w \in UNION { {k} \X f.steps[k].fails : k \in DOMAIN f.steps } }

Outcomes(f) == {Completes(f)} \cup Stops(f) \cup Breaks(f)
=============================================================================
